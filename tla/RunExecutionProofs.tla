------------------------- MODULE RunExecutionProofs -------------------------
(***************************************************************************)
(* What RunExecution guarantees for every number of runs, tickers and      *)
(* workers, for every limit and every pipeline.                            *)
(***************************************************************************)
EXTENDS RunExecution, TLAPS

-----------------------------------------------------------------------------
(* The table of transitions.                                               *)

\* Stages are statuses of their own.
LEMMA StagesAreNew ==
    /\ Stages \subseteq STRING
    /\ Stages \cap (Pending \cup CancelPending \cup TERMINAL_STATUSES \cup Missing
                    \cup {"admitted", "starting", "finalizing"}) = {}
<1>1. Stages \subseteq STRING
  BY PipelineAssumption DEF Stages
<1> QED BY <1>1, PipelineAssumption

\* assert_transition never lets a run leave a terminal status, and the moves a
\* runner's event can cause stay among the executing statuses.
LEMMA AllowedMoves ==
    ASSUME NEW c, NEW t, Allowed(c, t)
    PROVE  /\ c \in Pending \cup {"admitted"} \cup Executing \cup CancelPending
           /\ t = "failed" => c \in Executing \cup {"waiting_for_data"}
           /\ t \in Stages \cup {"finalizing"} => c \in Executing
<1>1. Pipeline[1] \in Stages /\ Pipeline[Len(Pipeline)] \in Stages
      /\ \A i \in 1 .. (Len(Pipeline) - 1) : Pipeline[i] \in Stages /\ Pipeline[i + 1] \in Stages
  BY PipelineAssumption DEF Stages
<1> QED
  BY <1>1, StagesAreNew
  DEF Allowed, ALLOWED_TRANSITIONS, Executing, Pending, CancelPending, TERMINAL_STATUSES,
      Final, Missing

\* The moves that the platform makes outside persist_runner_event are allowed.
LEMMA AllowedByCode ==
    /\ \A t \in {"queued", "failed", "cancelled", "needs_attention"} :
          Allowed("waiting_for_data", t)
    /\ \A t \in {"admitted", "cancelled"} : Allowed("queued", t)
    /\ \A t \in {"starting", "cancel_requested"} : Allowed("admitted", t)
    /\ \A c \in Executing : Allowed(c, "failed") /\ Allowed(c, "cancel_requested")
    /\ \A c \in CancelPending : Allowed(c, "cancelled")
    /\ Allowed("finalizing", "succeeded")
BY DEF Allowed, ALLOWED_TRANSITIONS, CancelPending

-----------------------------------------------------------------------------
(* Types.                                                                  *)

LEMMA TypeInit == Init => TypeOK
BY DEF Init, TypeOK, Stored, Missing, WorkerStates, Outcomes, Process

\* What the next-state relation is made of, one disjunct per action.
LEMMA NextCases ==
    ASSUME Next
    PROVE  \/ \E r \in Runs, t \in Tickers : Submit(r, t)
           \/ \E r, new \in Runs : Retry(r, new)
           \/ \E r \in Runs : \/ Cancel(r) \/ Delete(r) \/ SettleData(r) \/ AdmitOne(r)
                              \/ LeaseExpires(r)
           \/ \E p \in alive : RunnerExits(p)
           \/ \E w \in Workers : \/ \E r \in Runs : Claim(w, r)
                                 \/ Launch(w) \/ SetChildIdentity(w) \/ PersistRunnerEvent(w)
                                 \/ Heartbeat(w) \/ PollCancel(w) \/ KillRunner(w)
                                 \/ RunnerEnded(w) \/ ReadCancelRequested(w)
                                 \/ FinalizeCancelled(w) \/ FinalizeSuccess(w)
                                 \/ FinalizeFailure(w)
                                 \/ Abandon(w) \/ RecoverStaleLeases(w)
BY DEF Next, ApiStep, WorkerStep, RunOnce, Finalize

\* A worker has a job exactly while it is inside run_once.
JobWhileBusy == \A w \in Workers : pc[w] = "idle" <=> job[w] = None

\* run_once takes up its claim when it leaves the idle state, and forgets it
\* whichever way it returns.
LEMMA JobWhileBusyStep == TypeOK /\ JobWhileBusy /\ [Next]_vars => JobWhileBusy'
<1> SUFFICES ASSUME TypeOK, JobWhileBusy, [Next]_vars, NEW v \in Workers
             PROVE  (pc[v] = "idle" <=> job[v] = None)'
  BY DEF JobWhileBusy
<1>0. /\ pc[v] = "idle" <=> job[v] = None
      /\ pc \in [Workers -> WorkerStates] /\ job \in [Workers -> Runs \cup {None}]
      /\ None \notin Runs
  BY ConstantsAssumption DEF TypeOK, JobWhileBusy
<1>1. CASE UNCHANGED <<pc, job>>
  BY <1>0, <1>1
<1>2. ASSUME NEW w \in Workers, Forget(w) PROVE (pc[v] = "idle" <=> job[v] = None)'
  BY <1>0, <1>2 DEF Forget, Goto
<1>3. ASSUME NEW w \in Workers, NEW s \in WorkerStates \ {"idle"}, pc[w] # "idle", Goto(w, s),
             UNCHANGED job
      PROVE  (pc[v] = "idle" <=> job[v] = None)'
  BY <1>0, <1>3 DEF Goto
<1>4. ASSUME NEW w \in Workers, NEW r \in Runs, Claim(w, r)
      PROVE  (pc[v] = "idle" <=> job[v] = None)'
  BY <1>0, <1>4 DEF Claim, Goto
<1>5. ASSUME NEW w \in Workers, Launch(w) \/ PollCancel(w) \/ RunnerEnded(w)
      PROVE  (pc[v] = "idle" <=> job[v] = None)'
  BY <1>3, <1>5 DEF Launch, PollCancel, RunnerEnded, Supervising, WorkerStates
<1>6. ASSUME NEW w \in Workers, ReadCancelRequested(w)
      PROVE  (pc[v] = "idle" <=> job[v] = None)'
  BY <1>3, <1>6 DEF ReadCancelRequested, WorkerStates
<1>7. ASSUME NEW w \in Workers, SetChildIdentity(w)
      PROVE  (pc[v] = "idle" <=> job[v] = None)'
  BY <1>2, <1>3, <1>7 DEF SetChildIdentity, WorkerStates
<1>8. ASSUME NEW w \in Workers, PersistRunnerEvent(w)
      PROVE  (pc[v] = "idle" <=> job[v] = None)'
  BY <1>1, <1>2, <1>3, <1>8 DEF PersistRunnerEvent, Supervising, WorkerStates
<1>9. ASSUME NEW w \in Workers, Heartbeat(w)
      PROVE  (pc[v] = "idle" <=> job[v] = None)'
  BY <1>1, <1>2, <1>9 DEF Heartbeat, workerVars
<1> QED
  <2>1. CASE UNCHANGED vars
    BY <1>1, <2>1 DEF vars, workerVars
  <2>2. ASSUME NEW w \in Workers, FinalizeCancelled(w) \/ FinalizeSuccess(w)
                                  \/ FinalizeFailure(w) \/ Abandon(w)
        PROVE  (pc[v] = "idle" <=> job[v] = None)'
    BY <1>2, <2>2 DEF FinalizeCancelled, FinalizeSuccess, FinalizeFailure, Abandon
  <2>3. ASSUME NEW w \in Workers, KillRunner(w) \/ RecoverStaleLeases(w)
        PROVE  (pc[v] = "idle" <=> job[v] = None)'
    BY <1>1, <2>3 DEF KillRunner, RecoverStaleLeases, workerVars
  <2>4. ASSUME NEW r \in Runs, NEW t \in Tickers, Submit(r, t)
        PROVE  (pc[v] = "idle" <=> job[v] = None)'
    BY <1>1, <2>4 DEF Submit, workerVars
  <2>5. ASSUME NEW r \in Runs, NEW new \in Runs, Retry(r, new)
        PROVE  (pc[v] = "idle" <=> job[v] = None)'
    BY <1>1, <2>5 DEF Retry, workerVars
  <2>6. ASSUME NEW r \in Runs, Cancel(r) \/ Delete(r) \/ SettleData(r) \/ AdmitOne(r)
                               \/ LeaseExpires(r)
        PROVE  (pc[v] = "idle" <=> job[v] = None)'
    BY <1>1, <2>6 DEF Cancel, Delete, SettleData, AdmitOne, LeaseExpires, workerVars
  <2>7. ASSUME NEW p \in alive, RunnerExits(p)
        PROVE  (pc[v] = "idle" <=> job[v] = None)'
    BY <1>1, <2>7 DEF RunnerExits, workerVars
  <2> QED
    BY <1>4, <1>5, <1>6, <1>7, <1>8, <1>9, <2>1, <2>2, <2>3, <2>4, <2>5, <2>6, <2>7, NextCases

\* Columns and variables keep their types in every step.
LEMMA TypeStep == TypeOK /\ JobWhileBusy /\ [Next]_vars => TypeOK'
<1> SUFFICES ASSUME TypeOK, JobWhileBusy, [Next]_vars PROVE TypeOK'
  OBVIOUS
<1>a. \A w \in Workers : pc[w] # "idle" => job[w] \in Runs /\ ProcessOf(w) \in Process
  BY DEF TypeOK, JobWhileBusy, ProcessOf, Process
<1> DEFINE RunTypes    == /\ status \in [Runs -> Stored \cup Missing]
                          /\ attempt \in [Runs -> Nat]
                          /\ ticker \in [Runs -> Tickers \cup {None}]
                          /\ retryOf \in [Runs -> Runs \cup {None}]
                          /\ durable \in [Runs -> Nat]
           LeaseTypes  == /\ owner \in [Runs -> Workers \cup {None}]
                          /\ pid \in [Runs -> Process \cup {None}]
                          /\ expired \in [Runs -> BOOLEAN]
           WorkerTypes == /\ pc \in [Workers -> WorkerStates]
                          /\ job \in [Workers -> Runs \cup {None}]
                          /\ epoch \in [Workers -> Nat]
                          /\ sequence \in [Workers -> Nat]
                          /\ outcome \in [Workers -> Outcomes]
           OtherTypes  == alive \subseteq Process /\ parked \subseteq Runs
<1>b. /\ TypeOK <=> RunTypes /\ LeaseTypes /\ WorkerTypes /\ OtherTypes
      /\ TypeOK' <=> RunTypes' /\ LeaseTypes' /\ WorkerTypes' /\ OtherTypes'
  BY DEF TypeOK
<1>c. ASSUME NEW w \in Workers, Forget(w) PROVE WorkerTypes'
  BY <1>b, <1>c DEF Forget, Goto, WorkerStates, Outcomes
<1>d. ASSUME NEW r \in Runs, NEW final \in Final, Settle(r, final) PROVE RunTypes' /\ LeaseTypes'
  BY <1>b, <1>d DEF Settle, ReleaseLease, Stored, TERMINAL_STATUSES
<1>e. /\ UNCHANGED runVars => RunTypes'
      /\ UNCHANGED leaseVars => LeaseTypes'
      /\ UNCHANGED workerVars => WorkerTypes'
      /\ UNCHANGED <<alive, parked>> => OtherTypes'
  BY <1>b DEF runVars, leaseVars, workerVars
<1> USE DEF Stored, Missing, Pending, Executing, CancelPending, TERMINAL_STATUSES, Final,
            WorkerStates, Outcomes, runVars, leaseVars, workerVars
<1>1. ASSUME NEW r \in Runs, NEW t \in Tickers, Submit(r, t) PROVE TypeOK'
  BY <1>b, <1>e, <1>1 DEF Submit, CreateRun
<1>2. ASSUME NEW r \in Runs, NEW new \in Runs, Retry(r, new) PROVE TypeOK'
  BY <1>b, <1>e, <1>2 DEF Retry, CreateRun
<1>3. ASSUME NEW r \in Runs, Cancel(r) \/ Delete(r) \/ SettleData(r) \/ AdmitOne(r)
      PROVE TypeOK'
  BY <1>b, <1>e, <1>3 DEF Cancel, Delete, SettleData, AdmitOne
<1>4. ASSUME NEW r \in Runs, LeaseExpires(r) PROVE TypeOK'
  BY <1>b, <1>e, <1>4 DEF LeaseExpires
<1>5. ASSUME NEW p \in alive, RunnerExits(p) PROVE TypeOK'
  BY <1>b, <1>e, <1>5 DEF RunnerExits
<1>6. ASSUME NEW w \in Workers, NEW r \in Runs, Claim(w, r) PROVE TypeOK'
  BY <1>b, <1>e, <1>6 DEF Claim, Goto
<1>7. ASSUME NEW w \in Workers, Launch(w) PROVE TypeOK'
  BY <1>a, <1>b, <1>e, <1>7 DEF Launch, Goto
<1>8. ASSUME NEW w \in Workers, SetChildIdentity(w) PROVE TypeOK'
  <2>1. RunTypes' /\ OtherTypes'
    BY <1>b, <1>e, <1>8 DEF SetChildIdentity
  <2>2. LeaseTypes' /\ WorkerTypes'
    BY <1>a, <1>b, <1>c, <1>8 DEF SetChildIdentity, Goto
  <2> QED
    BY <1>b, <2>1, <2>2
<1>9. ASSUME NEW w \in Workers, PersistRunnerEvent(w) PROVE TypeOK'
  <2>1. LeaseTypes' /\ OtherTypes'
    BY <1>b, <1>e, <1>9 DEF PersistRunnerEvent
  <2>2. RunTypes'
    BY <1>b, <1>9 DEF PersistRunnerEvent, Events, Errors, After
  <2>3. WorkerTypes'
    BY <1>b, <1>c, <1>9 DEF PersistRunnerEvent, Goto, Events, Errors, Told
  <2> QED
    BY <1>b, <2>1, <2>2, <2>3
<1>10. ASSUME NEW w \in Workers, Heartbeat(w) \/ PollCancel(w) \/ KillRunner(w) PROVE TypeOK'
  <2>1. CASE Heartbeat(w)
    <3>1. RunTypes' /\ OtherTypes'
      BY <1>e, <2>1 DEF Heartbeat
    <3>2. LeaseTypes'
      BY <1>b, <2>1 DEF Heartbeat
    <3>3. WorkerTypes'
      BY <1>c, <1>e, <2>1 DEF Heartbeat
    <3> QED
      BY <1>b, <3>1, <3>2, <3>3
  <2>2. CASE PollCancel(w)
    BY <1>b, <1>e, <2>2 DEF PollCancel, Goto
  <2>3. CASE KillRunner(w)
    BY <1>b, <1>e, <2>3 DEF KillRunner
  <2> QED
    BY <1>10, <2>1, <2>2, <2>3
<1>11. ASSUME NEW w \in Workers, RunnerEnded(w) \/ ReadCancelRequested(w) PROVE TypeOK'
  BY <1>b, <1>e, <1>11 DEF RunnerEnded, ReadCancelRequested, Goto
<1>12. ASSUME NEW w \in Workers, FinalizeCancelled(w) \/ FinalizeSuccess(w) PROVE TypeOK'
  BY <1>a, <1>b, <1>c, <1>d, <1>e, <1>12 DEF FinalizeCancelled, FinalizeSuccess
<1>13. ASSUME NEW w \in Workers, FinalizeFailure(w) PROVE TypeOK'
  <2>1. job[w] \in Runs /\ WorkerTypes' /\ OtherTypes'
    BY <1>a, <1>c, <1>e, <1>13 DEF FinalizeFailure
  <2>2. CASE \E final \in Final : Settle(job[w], final)
    BY <1>b, <1>d, <2>1, <2>2
  <2>3. CASE \E new \in Runs : FailAndRetry(job[w], new)
    BY <1>b, <2>1, <2>3 DEF FailAndRetry, ReleaseLease
  <2>4. CASE UNCHANGED <<runVars, leaseVars>>
    BY <1>b, <1>e, <2>1, <2>4
  <2> QED
    BY <1>13, <2>2, <2>3, <2>4 DEF FinalizeFailure
<1>14. ASSUME NEW w \in Workers, Abandon(w) PROVE TypeOK'
  BY <1>b, <1>c, <1>e, <1>14 DEF Abandon
<1>15. ASSUME NEW w \in Workers, RecoverStaleLeases(w) PROVE TypeOK'
  BY <1>b, <1>e, <1>15 DEF RecoverStaleLeases, Stale, NextAttempt
<1>16. CASE UNCHANGED vars
  BY <1>b, <1>e, <1>16 DEF vars
<1> QED
  BY <1>1, <1>2, <1>3, <1>4, <1>5, <1>6, <1>7, <1>8, <1>9, <1>10, <1>11, <1>12, <1>13,
     <1>14, <1>15, <1>16, NextCases

\* Every variable of the model always has a value of its type, and so has every
\* column it stands for.
THEOREM Typing == Spec => []TypeOK
<1>1. Init => TypeOK /\ JobWhileBusy
  BY TypeInit DEF Init, JobWhileBusy
<1> QED
  BY <1>1, TypeStep, JobWhileBusyStep, PTL DEF Spec

-----------------------------------------------------------------------------
(* The effect of a step on one run.                                        *)

\* A worker or a runner process executes attempt a of run r.
Working(r, a) ==
    \/ \E w \in Workers : pc[w] # "idle" /\ job[w] = r /\ epoch[w] = a
    \/ \E p \in alive : p[2] = r /\ p[3] = a

\* Attempt a of run r has been claimed at some time.
Started(r, a) ==
    /\ status[r] \notin Pending \cup {"absent"}
    /\ a <= attempt[r]
    /\ a = attempt[r] => status[r] # "admitted"

\* Nobody executes what was not claimed.
WorkIsStarted == \A r \in Runs, a \in Nat : Working(r, a) => Started(r, a)

LeaseKept(r) ==
    /\ owner'[r] = owner[r]
    /\ (pid'[r] = pid[r] /\ expired'[r] = expired[r]) \/ Leased(r)

LeaseCleared(r) == owner'[r] = None /\ pid'[r] = None /\ ~expired'[r]

\* What one transaction does to a row of assessment_runs and to its lease.
Nothing(r) == status'[r] = status[r] /\ attempt'[r] = attempt[r] /\ LeaseKept(r)

Created(r) ==
    /\ status[r] = "absent" /\ status'[r] \in Pending /\ LeaseKept(r)
    /\ retryOf'[r] # None =>
          status'[retryOf'[r]] \in {"failed", "cancelled", "needs_attention"}

\* What admit_one has checked, and that it admits one run.
Admitted(r) ==
    /\ \A q \in ActiveRuns : ticker[q] # ticker[r]
    /\ Cardinality(ActiveRuns) < MaxRunning
    /\ \A q \in Runs \ {r} : status'[q] = status[q]

Moved(r) ==
    /\ attempt'[r] = attempt[r]
    /\ Allowed(status[r], status'[r])
    /\ status'[r] = "admitted" => Admitted(r)
    /\ \/ /\ LeaseKept(r)
          /\ \/ status[r] \in Pending
                /\ status'[r] \in {"queued", "admitted"} \cup TERMINAL_STATUSES
             \/ status[r] \in {"admitted"} \cup Executing /\ status'[r] = "cancel_requested"
             \/ status[r] \in Executing /\ status'[r] \in Executing
       \/ status[r] = "admitted" /\ status'[r] = "starting" /\ owner'[r] # None
          /\ pid'[r] = pid[r] /\ expired'[r] = expired[r]
       \/ status[r] \in Executing \cup CancelPending /\ status'[r] \in Final /\ LeaseCleared(r)

Removed(r) ==
    /\ status[r] \in TERMINAL_STATUSES /\ ~Leased(r) /\ status'[r] = "deleted"
    /\ attempt'[r] = attempt[r] /\ LeaseKept(r)
    /\ \A q \in Runs : retryOf[q] = r => ~Exists(q)

Recovered(r) ==
    /\ Leased(r) /\ expired[r]
    /\ \/ /\ status'[r] = "needs_attention" /\ attempt'[r] = attempt[r] /\ LeaseKept(r)
          /\ r \in parked'
       \/ status'[r] = "admitted" /\ attempt'[r] = attempt[r] + 1 /\ LeaseCleared(r)
       \/ status[r] \in Missing /\ status'[r] = status[r] /\ attempt'[r] = attempt[r]
          /\ LeaseCleared(r)

RunStep(r) == Nothing(r) \/ Created(r) \/ Moved(r) \/ Removed(r) \/ Recovered(r)

\* Rows of other tables and history variables.
RowStep(r) ==
    /\ parked \subseteq parked'
    /\ status[r] # "absent" => ticker'[r] = ticker[r] /\ retryOf'[r] = retryOf[r]

\* Every transaction treats every run in one of five ways.
LEMMA RunSteps ==
    ASSUME TypeOK, JobWhileBusy, WorkIsStarted, [Next]_vars, NEW q \in Runs
    PROVE  RunStep(q) /\ RowStep(q)
<1> USE DEF RunStep, RowStep, LeaseKept, Nothing
<1>a. /\ status \in [Runs -> Stored \cup Missing] /\ attempt \in [Runs -> Nat]
      /\ owner \in [Runs -> Workers \cup {None}] /\ ticker \in [Runs -> Tickers \cup {None}]
      /\ pid \in [Runs -> Process \cup {None}] /\ expired \in [Runs -> BOOLEAN]
      /\ retryOf \in [Runs -> Runs \cup {None}] /\ None \notin Workers
  BY ConstantsAssumption DEF TypeOK
<1>b. \A w \in Workers : pc[w] # "idle" =>
          job[w] \in Runs /\ status[job[w]] \notin Pending \cup {"absent"}
  BY DEF TypeOK, JobWhileBusy, WorkIsStarted, Working, Started
<1>c. /\ UNCHANGED <<status, attempt>> => status'[q] = status[q] /\ attempt'[q] = attempt[q]
      /\ UNCHANGED <<ticker, retryOf, parked>> => RowStep(q)
      /\ UNCHANGED leaseVars => LeaseKept(q)
  BY DEF leaseVars
<1>1. ASSUME NEW r \in Runs, NEW t \in Tickers, Submit(r, t) PROVE RunStep(q) /\ RowStep(q)
  BY <1>a, <1>1 DEF Submit, CreateRun, Created, leaseVars
<1>2. ASSUME NEW r \in Runs, NEW new \in Runs, Retry(r, new) PROVE RunStep(q) /\ RowStep(q)
  BY <1>a, <1>2 DEF Retry, CreateRun, Created, leaseVars
<1>3. ASSUME NEW r \in Runs, Cancel(r) PROVE RunStep(q) /\ RowStep(q)
  BY <1>a, <1>c, <1>3, AllowedByCode DEF Cancel, Moved, Pending, TERMINAL_STATUSES, Final
<1>4. ASSUME NEW r \in Runs, Delete(r) PROVE RunStep(q) /\ RowStep(q)
  BY <1>a, <1>c, <1>4 DEF Delete, Removed
<1>5. ASSUME NEW r \in Runs, SettleData(r) \/ AdmitOne(r) PROVE RunStep(q) /\ RowStep(q)
  BY <1>a, <1>c, <1>5, AllowedByCode
  DEF SettleData, AdmitOne, Admitted, Moved, Pending, TERMINAL_STATUSES, Final
<1>6. ASSUME NEW r \in Runs, LeaseExpires(r) PROVE RunStep(q) /\ RowStep(q)
  BY <1>a, <1>c, <1>6 DEF LeaseExpires, runVars
<1>7. ASSUME NEW w \in Workers, NEW r \in Runs, Claim(w, r) PROVE RunStep(q) /\ RowStep(q)
  BY <1>a, <1>c, <1>7, AllowedByCode DEF Claim, Moved
<1>8. ASSUME NEW w \in Workers, SetChildIdentity(w) PROVE RunStep(q) /\ RowStep(q)
  BY <1>a, <1>b, <1>c, <1>8 DEF SetChildIdentity, runVars
<1>9. ASSUME NEW w \in Workers, Heartbeat(w) PROVE RunStep(q) /\ RowStep(q)
  BY <1>a, <1>b, <1>c, <1>9 DEF Heartbeat, Supervising, Leased, runVars
<1>10. ASSUME NEW w \in Workers, PersistRunnerEvent(w) PROVE RunStep(q) /\ RowStep(q)
  <2>1. LeaseKept(q) /\ RowStep(q) /\ attempt'[q] = attempt[q]
    BY <1>c, <1>10 DEF PersistRunnerEvent
  <2>2. \/ UNCHANGED status
        \/ \E event \in Events : /\ Accepts(w, event)
                                 /\ status' = [status EXCEPT ![job[w]] = After(@, event)]
    BY <1>10 DEF PersistRunnerEvent
  <2>3. ASSUME NEW event \in Events, Accepts(w, event),
               status' = [status EXCEPT ![job[w]] = After(@, event)], status'[q] # status[q]
        PROVE  Moved(q)
    <3>1. q = job[w] /\ status'[q] = After(status[q], event)
      BY <1>a, <2>3
    <3>2. /\ status[q] \notin CancelPending /\ event \in (Stages \cup {"finalizing"}) \ Errors
          /\ status'[q] = event
      BY <2>3, <3>1 DEF After, Events
    <3>3. Allowed(status[q], status'[q])
      BY <2>3, <3>1, <3>2 DEF Accepts
    <3>4. status[q] \in Executing /\ status'[q] \in Executing
      BY <3>2, <3>3, AllowedMoves DEF Executing
    <3>5. status'[q] # "admitted"
      BY <3>2, StagesAreNew
    <3> QED
      BY <2>1, <3>3, <3>4, <3>5 DEF Moved
  <2> QED
    BY <2>1, <2>2, <2>3
<1>11. ASSUME NEW w \in Workers, NEW r \in Runs, NEW final \in Final, Settle(r, final),
              status[r] \in Executing \cup CancelPending, Allowed(status[r], final),
              UNCHANGED parked
       PROVE  RunStep(q) /\ RowStep(q)
  BY <1>a, <1>c, <1>11 DEF Settle, ReleaseLease, Moved, LeaseCleared, Final
<1>12. ASSUME NEW w \in Workers, FinalizeCancelled(w) \/ FinalizeSuccess(w)
       PROVE  RunStep(q) /\ RowStep(q)
  <2>1. CASE UNCHANGED <<runVars, leaseVars>>
    BY <1>c, <1>12, <2>1 DEF FinalizeCancelled, FinalizeSuccess, runVars
  <2>2. CASE ~UNCHANGED <<runVars, leaseVars>>
    BY <1>b, <1>11, <1>12, <2>2, AllowedByCode
    DEF FinalizeCancelled, FinalizeSuccess, Final, Executing
  <2> QED
    BY <2>1, <2>2
<1>13. ASSUME NEW w \in Workers, FinalizeFailure(w) PROVE RunStep(q) /\ RowStep(q)
  <2>1. job[w] \in Runs /\ status[job[w]] \notin Pending \cup {"absent"} /\ UNCHANGED parked
    BY <1>b, <1>13 DEF FinalizeFailure
  <2>2. CASE UNCHANGED <<runVars, leaseVars>>
    BY <1>c, <2>1, <2>2 DEF runVars
  <2>3. CASE status[job[w]] \in CancelPending /\ Settle(job[w], "cancelled")
    BY <1>11, <2>1, <2>3, AllowedByCode DEF Final
  <2>4. ASSUME Allowed(status[job[w]], "failed") PROVE status[job[w]] \in Executing
    BY <2>1, <2>4, AllowedMoves DEF Pending
  <2>5. CASE Allowed(status[job[w]], "failed") /\ Settle(job[w], "failed")
    BY <1>11, <2>1, <2>4, <2>5 DEF Final
  <2>6. ASSUME NEW new \in Runs, Allowed(status[job[w]], "failed"), FailAndRetry(job[w], new)
        PROVE  RunStep(q) /\ RowStep(q)
    <3>1. job[w] # new
      BY <2>1, <2>6 DEF FailAndRetry
    <3>2. CASE q = new
      BY <1>a, <2>1, <2>6, <3>1, <3>2 DEF FailAndRetry, ReleaseLease, Created, Pending
    <3>3. CASE q = job[w]
      BY <1>a, <2>1, <2>4, <2>6, <3>1, <3>3
      DEF FailAndRetry, ReleaseLease, Moved, LeaseCleared, Final
    <3>4. CASE q # new /\ q # job[w]
      BY <1>a, <2>1, <2>6, <3>1, <3>4 DEF FailAndRetry, ReleaseLease
    <3> QED
      BY <3>2, <3>3, <3>4
  <2> QED
    BY <1>13, <2>2, <2>3, <2>5, <2>6 DEF FinalizeFailure
<1>14. ASSUME NEW w \in Workers, RecoverStaleLeases(w) PROVE RunStep(q) /\ RowStep(q)
  <2>1. PICK S \in SUBSET Stale, seen \in SUBSET Stale :
            /\ seen \subseteq S
            /\ status' = [r \in Runs |-> IF r \in seen THEN "needs_attention"
                            ELSE IF r \in {s \in S \ seen : Exists(s)} THEN "admitted"
                            ELSE status[r]]
            /\ attempt' = [r \in Runs |-> IF r \in {s \in S \ seen : Exists(s)}
                                          THEN attempt[r] + 1 ELSE attempt[r]]
            /\ owner' = [r \in Runs |-> IF r \in S \ seen THEN None ELSE owner[r]]
            /\ pid' = [r \in Runs |-> IF r \in S \ seen THEN None ELSE pid[r]]
            /\ expired' = [r \in Runs |-> expired[r] /\ r \notin S \ seen]
            /\ parked' = parked \cup seen
            /\ UNCHANGED <<ticker, retryOf>>
    BY <1>14 DEF RecoverStaleLeases, NextAttempt
  <2>2. RowStep(q)
    BY <2>1
  <2>3. CASE q \notin S
    BY <1>a, <2>1, <2>2, <2>3
  <2>4. CASE q \in seen
    BY <1>a, <2>1, <2>2, <2>4 DEF Recovered, Stale
  <2>5. CASE q \in S \ seen
    BY <1>a, <2>1, <2>2, <2>5 DEF Recovered, Stale, LeaseCleared, Exists
  <2> QED
    BY <2>3, <2>4, <2>5
<1>15. ASSUME UNCHANGED <<runVars, leaseVars, parked>> PROVE RunStep(q) /\ RowStep(q)
  BY <1>c, <1>15 DEF runVars
<1>16. ASSUME NEW w \in Workers, \/ Launch(w) \/ PollCancel(w) \/ KillRunner(w) \/ RunnerEnded(w)
                                 \/ ReadCancelRequested(w) \/ Abandon(w)
       PROVE  RunStep(q) /\ RowStep(q)
  BY <1>15, <1>16 DEF Launch, PollCancel, KillRunner, RunnerEnded, ReadCancelRequested, Abandon
<1>17. ASSUME NEW p \in alive, RunnerExits(p) PROVE RunStep(q) /\ RowStep(q)
  BY <1>15, <1>17 DEF RunnerExits
<1>18. CASE UNCHANGED vars
  BY <1>15, <1>18 DEF vars
<1> QED
  BY <1>1, <1>2, <1>3, <1>4, <1>5, <1>6, <1>7, <1>8, <1>9, <1>10, <1>12, <1>13, <1>14,
     <1>16, <1>17, <1>18, NextCases

-----------------------------------------------------------------------------
(* Who executes which attempt.                                             *)

\* A claim takes an attempt that nobody works on; no other step gives anybody
\* work.
LEMMA NewWork ==
    ASSUME TypeOK, JobWhileBusy, [Next]_vars, NEW r \in Runs, NEW a \in Nat, Working(r, a)'
    PROVE  \/ Working(r, a)
           \/ /\ status[r] = "admitted" /\ a = attempt[r]
              /\ status'[r] = "starting" /\ attempt'[r] = attempt[r]
<1> DEFINE Busy(w) == pc[w] # "idle" /\ job[w] = r /\ epoch[w] = a
           Claimed == /\ status[r] = "admitted" /\ a = attempt[r]
                      /\ status'[r] = "starting" /\ attempt'[r] = attempt[r]
<1>a. /\ pc \in [Workers -> WorkerStates] /\ job \in [Workers -> Runs \cup {None}]
      /\ epoch \in [Workers -> Nat] /\ status \in [Runs -> Stored \cup Missing]
      /\ attempt \in [Runs -> Nat] /\ None \notin Runs
  BY ConstantsAssumption DEF TypeOK
<1>b. Working(r, a) <=> (\E w \in Workers : Busy(w)) \/ (\E p \in alive : p[2] = r /\ p[3] = a)
  BY DEF Working
<1>c. (\E w \in Workers : Busy(w)') \/ (\E p \in alive' : p[2] = r /\ p[3] = a)
  BY DEF Working
<1>1. ASSUME NEW v \in Workers, Busy(v)' PROVE Busy(v) \/ Claimed
  <2> SUFFICES ASSUME UNCHANGED <<pc[v], job[v], epoch[v]>> => FALSE PROVE Busy(v) \/ Claimed
    BY <1>1
  <2>1. ASSUME NEW w \in Workers, NEW s \in Runs, Claim(w, s) PROVE Busy(v) \/ Claimed
    BY <1>1, <1>a, <2>1 DEF Claim, Goto
  <2>2. ASSUME NEW w \in Workers, Forget(w) PROVE Busy(v) \/ Claimed
    BY <1>1, <1>a, <2>2 DEF Forget, Goto
  <2>3. ASSUME NEW w \in Workers, NEW s, pc[w] # "idle", Goto(w, s), UNCHANGED <<job, epoch>>
        PROVE  Busy(v) \/ Claimed
    BY <1>1, <1>a, <2>3 DEF Goto
  <2>4. ASSUME NEW w \in Workers, \/ Launch(w) \/ PollCancel(w) \/ RunnerEnded(w)
                                  \/ ReadCancelRequested(w)
        PROVE  Busy(v) \/ Claimed
    BY <2>3, <2>4 DEF Launch, PollCancel, RunnerEnded, ReadCancelRequested, Supervising
  <2>5. ASSUME NEW w \in Workers, SetChildIdentity(w) PROVE Busy(v) \/ Claimed
    BY <2>2, <2>3, <2>5 DEF SetChildIdentity
  <2>6. ASSUME NEW w \in Workers, PersistRunnerEvent(w) PROVE Busy(v) \/ Claimed
    BY <2>2, <2>3, <2>6 DEF PersistRunnerEvent, Supervising
  <2>7. ASSUME NEW w \in Workers, Heartbeat(w) PROVE Busy(v) \/ Claimed
    BY <2>2, <2>7 DEF Heartbeat, workerVars
  <2>8. ASSUME NEW w \in Workers, \/ FinalizeCancelled(w) \/ FinalizeSuccess(w)
                                  \/ FinalizeFailure(w) \/ Abandon(w)
        PROVE  Busy(v) \/ Claimed
    BY <2>2, <2>8 DEF FinalizeCancelled, FinalizeSuccess, FinalizeFailure, Abandon
  <2>9. ASSUME UNCHANGED workerVars PROVE Busy(v) \/ Claimed
    BY <2>9 DEF workerVars
  <2>10. ASSUME NEW w \in Workers, KillRunner(w) \/ RecoverStaleLeases(w)
         PROVE  Busy(v) \/ Claimed
    BY <2>9, <2>10 DEF KillRunner, RecoverStaleLeases
  <2>11. ASSUME NEW s \in Runs, NEW t \in Tickers, Submit(s, t) PROVE Busy(v) \/ Claimed
    BY <2>9, <2>11 DEF Submit
  <2>12. ASSUME NEW s \in Runs, NEW new \in Runs, Retry(s, new) PROVE Busy(v) \/ Claimed
    BY <2>9, <2>12 DEF Retry
  <2>13. ASSUME NEW s \in Runs, \/ Cancel(s) \/ Delete(s) \/ SettleData(s) \/ AdmitOne(s)
                                \/ LeaseExpires(s)
         PROVE  Busy(v) \/ Claimed
    BY <2>9, <2>13 DEF Cancel, Delete, SettleData, AdmitOne, LeaseExpires
  <2>14. ASSUME NEW p \in alive, RunnerExits(p) PROVE Busy(v) \/ Claimed
    BY <2>9, <2>14 DEF RunnerExits
  <2>15. CASE UNCHANGED vars
    BY <2>9, <2>15 DEF vars
  <2> QED
    BY <2>1, <2>4, <2>5, <2>6, <2>7, <2>8, <2>10, <2>11, <2>12, <2>13, <2>14, <2>15, NextCases
<1>2. ASSUME NEW p \in alive', p[2] = r, p[3] = a PROVE Working(r, a)
  <2>1. CASE p \in alive
    BY <1>2, <2>1 DEF Working
  <2>2. ASSUME NEW w \in Workers, Launch(w), p \notin alive PROVE Working(r, a)
    <3>1. p = <<w, job[w], epoch[w]>> /\ pc[w] = "claimed"
      BY <1>2, <2>2 DEF Launch, ProcessOf
    <3> QED
      BY <1>2, <3>1 DEF Working
  <2>3. CASE p \notin alive /\ alive' \subseteq alive
    BY <1>2, <2>3
  <2>4. (\E w \in Workers : Launch(w)) \/ alive' \subseteq alive
    BY NextCases
    DEF vars, Submit, Retry, Cancel, Delete, SettleData, AdmitOne, LeaseExpires, RunnerExits,
        Claim, SetChildIdentity, PersistRunnerEvent, Heartbeat, PollCancel, KillRunner,
        RunnerEnded, ReadCancelRequested, FinalizeCancelled, FinalizeSuccess, FinalizeFailure,
        Abandon, RecoverStaleLeases
  <2> QED
    BY <2>1, <2>2, <2>3, <2>4
<1> QED
  BY <1>b, <1>c, <1>1, <1>2

\* An attempt that was claimed is never claimed again: recovery goes on with
\* another attempt, and no other step brings a run back to admitted.
LEMMA StartedStays ==
    ASSUME TypeOK, JobWhileBusy, WorkIsStarted, [Next]_vars,
           NEW r \in Runs, NEW a \in Nat, Started(r, a)
    PROVE  Started(r, a)'
<1>1. RunStep(r)
  BY RunSteps
<1>2. attempt[r] \in Nat /\ status[r] \in Stored \cup Missing
  BY DEF TypeOK
<1>3. CASE Nothing(r) \/ Created(r) \/ Removed(r) \/ Recovered(r)
  BY <1>2, <1>3 DEF Nothing, Created, Removed, Recovered, Started, Missing, Pending
<1>4. CASE Moved(r)
  <2>1. status'[r] \in Final \cup {"cancel_requested"} \cup Executing
    BY <1>4 DEF Moved, Started, Executing
  <2> QED
    BY <1>4, <2>1, StagesAreNew
    DEF Moved, Started, Final, Executing, Pending, CancelPending, Missing
<1> QED
  BY <1>1, <1>3, <1>4 DEF RunStep

\* Nobody ever executes an attempt that was not claimed.
LEMMA WorkIsStartedStep ==
    TypeOK /\ JobWhileBusy /\ WorkIsStarted /\ [Next]_vars => WorkIsStarted'
<1> SUFFICES ASSUME TypeOK, JobWhileBusy, WorkIsStarted, [Next]_vars,
                    NEW r \in Runs, NEW a \in Nat, Working(r, a)'
             PROVE  Started(r, a)'
  BY DEF WorkIsStarted
<1>1. CASE Working(r, a)
  BY <1>1, StartedStays DEF WorkIsStarted
<1>2. CASE /\ status[r] = "admitted" /\ a = attempt[r]
           /\ status'[r] = "starting" /\ attempt'[r] = attempt[r]
  BY <1>2 DEF Started, Pending
<1> QED
  BY <1>1, <1>2, NewWork

-----------------------------------------------------------------------------
(* The inductive invariant and the safety of runs and leases.              *)

\* A runner that a worker is about to launch does not exist yet.
NotYetLaunched ==
    \A w \in Workers : pc[w] = "claimed" =>
        \A p \in alive : ~(p[2] = job[w] /\ p[3] = epoch[w])

IInv ==
    /\ TypeOK
    /\ JobWhileBusy
    /\ WorkIsStarted
    /\ LeaseMatchesStatus
    /\ OneRunnerPerAttempt
    /\ NotYetLaunched
    /\ RetryFollowsEnd
    /\ ExclusionUnlessParked

LEMMA IInvInit == Init => IInv
<1> SUFFICES ASSUME Init PROVE IInv
  OBVIOUS
<1>1. TypeOK
  BY TypeInit
<1> QED
  BY <1>1, StagesAreNew
  DEF Init, IInv, JobWhileBusy, WorkIsStarted, Working, LeaseMatchesStatus,
      OneRunnerPerAttempt, NotYetLaunched, RetryFollowsEnd, ExclusionUnlessParked, ActiveRuns,
      Active, ACTIVE_RUN_STATUSES, Exists, Leased, Executing, CancelPending, Missing

LEMMA LeaseStep == IInv /\ [Next]_vars => LeaseMatchesStatus'
<1> SUFFICES ASSUME IInv, [Next]_vars, NEW r \in Runs
             PROVE  (/\ status[r] \in Executing => Leased(r)
                     /\ Leased(r) => status[r] \in Executing \cup {"cancel_requested",
                                                                   "needs_attention"}
                     /\ Leased(r) /\ status[r] = "needs_attention" => r \in parked
                     /\ ~Leased(r) => pid[r] = None /\ ~expired[r])'
  BY DEF LeaseMatchesStatus
<1>1. RunStep(r) /\ RowStep(r)
  BY RunSteps DEF IInv
<1>2. /\ status[r] \in Executing => Leased(r)
      /\ Leased(r) => status[r] \in Executing \cup {"cancel_requested", "needs_attention"}
      /\ Leased(r) /\ status[r] = "needs_attention" => r \in parked
      /\ ~Leased(r) => pid[r] = None /\ ~expired[r]
  BY DEF IInv, LeaseMatchesStatus
<1>3. Leased(r)' <=> owner'[r] # None
  BY DEF Leased
<1>4. CASE Nothing(r) \/ Created(r) \/ Removed(r) \/ Recovered(r)
  BY <1>1, <1>2, <1>3, <1>4, StagesAreNew
  DEF RowStep, Nothing, Created, Removed, Recovered, LeaseKept, LeaseCleared, Leased,
      Executing, Pending, TERMINAL_STATUSES, Final, Missing
<1>5. CASE Moved(r)
  BY <1>1, <1>2, <1>3, <1>5, StagesAreNew
  DEF RowStep, Moved, LeaseKept, LeaseCleared, Leased, Executing, Pending, CancelPending,
      TERMINAL_STATUSES, Final
<1> QED
  BY <1>1, <1>4, <1>5 DEF RunStep

\* Claims are the only way to get work, launches the only way to get a process.
LEMMA OneRunnerStep == IInv /\ [Next]_vars => OneRunnerPerAttempt' /\ NotYetLaunched'
<1> SUFFICES ASSUME IInv, [Next]_vars PROVE OneRunnerPerAttempt' /\ NotYetLaunched'
  OBVIOUS
<1> DEFINE Workers1 == \A v, w \in Workers :
                          pc[v] # "idle" /\ job[v] = job[w] /\ epoch[v] = epoch[w] => v = w
           Runners1 == \A p, q \in alive : p[2] = q[2] /\ p[3] = q[3] => p = q
           Fewer(w) == \/ UNCHANGED <<pc[w], job[w], epoch[w]>>
                       \/ pc'[w] = "idle"
                       \/ pc[w] # "idle" /\ pc'[w] # "claimed" /\ UNCHANGED <<job[w], epoch[w]>>
<1>a. /\ OneRunnerPerAttempt <=> Workers1 /\ Runners1
      /\ OneRunnerPerAttempt' <=> Workers1' /\ Runners1'
  BY DEF OneRunnerPerAttempt
<1>b. /\ TypeOK /\ JobWhileBusy /\ JobWhileBusy' /\ TypeOK'
      /\ pc \in [Workers -> WorkerStates] /\ job \in [Workers -> Runs \cup {None}]
      /\ epoch \in [Workers -> Nat] /\ status \in [Runs -> Stored \cup Missing]
      /\ attempt \in [Runs -> Nat] /\ None \notin Runs /\ alive \subseteq Process
  BY ConstantsAssumption, TypeStep, JobWhileBusyStep DEF IInv, TypeOK
<1>1. ASSUME \A w \in Workers : Fewer(w), alive' \subseteq alive
      PROVE  Workers1' /\ Runners1' /\ NotYetLaunched'
  <2>1. Runners1' /\ NotYetLaunched'
    BY <1>a, <1>1 DEF IInv, NotYetLaunched, Fewer
  <2>2. Workers1'
    BY <1>a, <1>b, <1>1 DEF IInv, JobWhileBusy, TypeOK, Fewer
  <2> QED
    BY <2>1, <2>2
<1>2. ASSUME NEW w \in Workers, Forget(w) PROVE \A v \in Workers : Fewer(v)
  BY <1>b, <1>2 DEF Forget, Goto
<1>3. ASSUME NEW w \in Workers, NEW s, s # "claimed", pc[w] # "idle", Goto(w, s),
             UNCHANGED <<job, epoch>>
      PROVE  \A v \in Workers : Fewer(v)
  BY <1>b, <1>3 DEF Goto
<1>4. ASSUME UNCHANGED <<pc, job, epoch>> PROVE \A v \in Workers : Fewer(v)
  BY <1>4
<1>5. ASSUME NEW w \in Workers, NEW r \in Runs, Claim(w, r)
      PROVE  Workers1' /\ Runners1' /\ NotYetLaunched'
  <2>1. /\ pc[w] = "idle" /\ alive' = alive
        /\ pc' = [pc EXCEPT ![w] = "claimed"] /\ job' = [job EXCEPT ![w] = r]
        /\ epoch' = [epoch EXCEPT ![w] = attempt[r]]
    BY <1>5 DEF Claim, Goto
  <2>2. ~Working(r, attempt[r])
    BY <1>5, <1>b DEF IInv, WorkIsStarted, Started, Claim
  <2>3. Workers1'
    BY <1>a, <1>b, <2>1, <2>2 DEF IInv, Working, JobWhileBusy
  <2>4. NotYetLaunched'
    BY <1>b, <2>1, <2>2 DEF IInv, Working, NotYetLaunched
  <2> QED
    BY <1>a, <2>1, <2>3, <2>4 DEF IInv
<1>6. ASSUME NEW w \in Workers, Launch(w) PROVE Workers1' /\ Runners1' /\ NotYetLaunched'
  <2>1. /\ pc[w] = "claimed" /\ pc' = [pc EXCEPT ![w] = "launched"]
        /\ UNCHANGED <<job, epoch>> /\ alive' = alive \cup {<<w, job[w], epoch[w]>>}
    BY <1>6 DEF Launch, Goto, ProcessOf
  <2>2. Workers1'
    BY <1>a, <1>b, <2>1 DEF IInv
  <2>3. Runners1'
    <3>1. \A p \in alive : ~(p[2] = job[w] /\ p[3] = epoch[w])
      BY <2>1 DEF IInv, NotYetLaunched
    <3> QED
      BY <1>a, <2>1, <3>1 DEF IInv
  <2>4. NotYetLaunched'
    <3> SUFFICES ASSUME NEW v \in Workers, pc'[v] = "claimed", NEW p \in alive',
                        p[2] = job'[v], p[3] = epoch'[v]
                 PROVE  FALSE
      BY DEF NotYetLaunched
    <3>1. v # w /\ pc[v] = "claimed" /\ job[v] = job'[v] /\ epoch[v] = epoch'[v]
      BY <1>b, <2>1
    <3>2. CASE p \in alive
      BY <3>1, <3>2 DEF IInv, NotYetLaunched
    <3>3. CASE p = <<w, job[w], epoch[w]>>
      BY <1>a, <3>1, <3>3 DEF IInv
    <3> QED
      BY <2>1, <3>2, <3>3
  <2> QED
    BY <2>2, <2>3, <2>4
<1>7. ASSUME NEW w \in Workers, \/ PollCancel(w) \/ RunnerEnded(w) \/ ReadCancelRequested(w)
      PROVE  (\A v \in Workers : Fewer(v)) /\ alive' \subseteq alive
  BY <1>3, <1>7 DEF PollCancel, RunnerEnded, ReadCancelRequested, Supervising
<1>8. ASSUME NEW w \in Workers, SetChildIdentity(w)
      PROVE  (\A v \in Workers : Fewer(v)) /\ alive' \subseteq alive
  BY <1>2, <1>3, <1>8 DEF SetChildIdentity
<1>9. ASSUME NEW w \in Workers, PersistRunnerEvent(w)
      PROVE  (\A v \in Workers : Fewer(v)) /\ alive' \subseteq alive
  BY <1>2, <1>3, <1>4, <1>9 DEF PersistRunnerEvent, Supervising
<1>10. ASSUME NEW w \in Workers, Heartbeat(w)
       PROVE  (\A v \in Workers : Fewer(v)) /\ alive' \subseteq alive
  BY <1>2, <1>4, <1>10 DEF Heartbeat, workerVars
<1>11. ASSUME NEW w \in Workers, \/ FinalizeCancelled(w) \/ FinalizeSuccess(w)
                                 \/ FinalizeFailure(w) \/ Abandon(w)
       PROVE  (\A v \in Workers : Fewer(v)) /\ alive' \subseteq alive
  BY <1>2, <1>11 DEF FinalizeCancelled, FinalizeSuccess, FinalizeFailure, Abandon
<1>12. ASSUME NEW w \in Workers, KillRunner(w) \/ RecoverStaleLeases(w)
       PROVE  (\A v \in Workers : Fewer(v)) /\ alive' \subseteq alive
  BY <1>4, <1>12 DEF KillRunner, RecoverStaleLeases, workerVars
<1>13. ASSUME NEW r \in Runs, \/ Cancel(r) \/ Delete(r) \/ SettleData(r) \/ AdmitOne(r)
                              \/ LeaseExpires(r)
       PROVE  (\A v \in Workers : Fewer(v)) /\ alive' \subseteq alive
  BY <1>4, <1>13 DEF Cancel, Delete, SettleData, AdmitOne, LeaseExpires, workerVars
<1>14. ASSUME NEW r \in Runs, NEW t \in Tickers, Submit(r, t)
       PROVE  (\A v \in Workers : Fewer(v)) /\ alive' \subseteq alive
  BY <1>4, <1>14 DEF Submit, workerVars
<1>15. ASSUME NEW r \in Runs, NEW new \in Runs, Retry(r, new)
       PROVE  (\A v \in Workers : Fewer(v)) /\ alive' \subseteq alive
  BY <1>4, <1>15 DEF Retry, workerVars
<1>16. ASSUME NEW p \in alive, RunnerExits(p)
       PROVE  (\A v \in Workers : Fewer(v)) /\ alive' \subseteq alive
  BY <1>4, <1>16 DEF RunnerExits, workerVars
<1>17. CASE UNCHANGED vars
  BY <1>1, <1>4, <1>a, <1>17 DEF vars, workerVars
<1> QED
  BY <1>a, <1>1, <1>5, <1>6, <1>7, <1>8, <1>9, <1>10, <1>11, <1>12, <1>13, <1>14, <1>15,
     <1>16, <1>17, NextCases

LEMMA RetryStep == IInv /\ [Next]_vars => RetryFollowsEnd'
<1> SUFFICES ASSUME IInv, [Next]_vars, NEW q \in Runs, Exists(q)', retryOf'[q] # None
             PROVE  \/ status'[retryOf'[q]] \in {"failed", "cancelled", "needs_attention"}
                    \/ retryOf'[q] \in parked'
  BY DEF RetryFollowsEnd
<1>1. RunStep(q) /\ RowStep(q)
  BY RunSteps DEF IInv
<1>2. CASE status[q] = "absent"
  <2>1. Created(q)
    BY <1>1, <1>2, StagesAreNew
    DEF RunStep, Nothing, Moved, Removed, Recovered, Exists, Missing, TERMINAL_STATUSES, Final,
        IInv, LeaseMatchesStatus, Executing, Pending, CancelPending
  <2> QED
    BY <2>1 DEF Created
<1>3. CASE status[q] # "absent"
  <2> DEFINE r == retryOf[q]
  <2>1. Exists(q) /\ retryOf'[q] = r
    BY <1>1, <1>3, StagesAreNew
    DEF RunStep, RowStep, Nothing, Created, Moved, Removed, Recovered, Exists, Missing,
        TERMINAL_STATUSES, Final, IInv, LeaseMatchesStatus, Executing, Pending, CancelPending
  <2>2. r \in Runs /\ (status[r] \in {"failed", "cancelled", "needs_attention"} \/ r \in parked)
    BY <2>1 DEF IInv, RetryFollowsEnd, TypeOK
  <2>3. RunStep(r) /\ RowStep(r) /\ ~Removed(r)
    BY <2>1, <2>2, RunSteps DEF IInv, Removed
  <2>4. CASE r \in parked
    BY <2>1, <2>3, <2>4 DEF RowStep
  <2>5. CASE status[r] \in {"failed", "cancelled", "needs_attention"}
    <3>1. ~Created(r) /\ ~Moved(r)
      BY <2>5, StagesAreNew
      DEF Created, Moved, Executing, Pending, CancelPending, TERMINAL_STATUSES, Final
    <3>2. CASE Nothing(r)
      BY <2>1, <2>5, <3>2 DEF Nothing
    <3>3. CASE Recovered(r)
      <4>1. /\ Leased(r) => status[r] \in Executing \cup {"cancel_requested", "needs_attention"}
            /\ Leased(r) /\ status[r] = "needs_attention" => r \in parked
        BY <2>2 DEF IInv, LeaseMatchesStatus
      <4>2. Leased(r)
        BY <3>3 DEF Recovered
      <4>3. status[r] \notin Executing
        BY <2>5, StagesAreNew DEF Executing, TERMINAL_STATUSES, Final
      <4>4. r \in parked
        BY <2>5, <4>1, <4>2, <4>3
      <4> QED
        BY <2>1, <2>3, <4>4 DEF RowStep
    <3> QED
      BY <2>3, <3>1, <3>2, <3>3 DEF RunStep
  <2> QED
    BY <2>2, <2>4, <2>5
<1> QED
  BY <1>2, <1>3

\* A run becomes active by being admitted, or by resuming after it was parked.
LEMMA Activation ==
    ASSUME IInv, [Next]_vars, NEW r \in Runs, Active(r)'
    PROVE  \/ Active(r)
           \/ Admitted(r)
           \/ r \in parked'
<1>1. RunStep(r) /\ RowStep(r)
  BY RunSteps DEF IInv
<1>2. CASE Nothing(r)
  BY <1>2 DEF Nothing, Active
<1>3. CASE Created(r) \/ Removed(r)
  BY <1>3, StagesAreNew
  DEF Created, Removed, Active, ACTIVE_RUN_STATUSES, Executing, Pending, CancelPending, Missing
<1>4. CASE Moved(r)
  BY <1>4, StagesAreNew
  DEF Moved, Active, ACTIVE_RUN_STATUSES, TERMINAL_STATUSES, Final, Executing, CancelPending,
      Pending
<1>5. CASE Recovered(r)
  BY <1>1, <1>5, StagesAreNew
  DEF Recovered, RowStep, Active, ACTIVE_RUN_STATUSES, IInv, LeaseMatchesStatus, Executing,
      CancelPending
<1> QED
  BY <1>1, <1>2, <1>3, <1>4, <1>5 DEF RunStep

LEMMA ExclusionStep == IInv /\ [Next]_vars => ExclusionUnlessParked'
<1> SUFFICES ASSUME IInv, [Next]_vars, NEW q \in Runs, NEW r \in Runs, Active(q)', Active(r)',
                    q # r, ticker'[q] = ticker'[r], q \notin parked', r \notin parked'
             PROVE  FALSE
  BY DEF ExclusionUnlessParked, ActiveRuns
<1>1. /\ RunStep(q) /\ RowStep(q) /\ RunStep(r) /\ RowStep(r)
      /\ q \notin parked /\ r \notin parked
  BY RunSteps DEF IInv, RowStep
<1>2. ASSUME NEW s \in Runs, Active(s)', RunStep(s), RowStep(s), s \notin parked'
      PROVE  ticker'[s] = ticker[s]
  <2>1. status[s] # "absent"
    BY <1>2, StagesAreNew
    DEF RunStep, Nothing, Created, Moved, Removed, Recovered, Active, ACTIVE_RUN_STATUSES,
        Executing, Pending, CancelPending, Missing, IInv, LeaseMatchesStatus, TERMINAL_STATUSES,
        Final
  <2> QED
    BY <1>2, <2>1 DEF RowStep
<1>3. ticker[q] = ticker[r]
  BY <1>1, <1>2
<1>4. CASE Active(q) /\ Active(r)
  BY <1>1, <1>3, <1>4 DEF IInv, ExclusionUnlessParked, ActiveRuns
<1>5. CASE ~Active(q) /\ Active(r)
  BY <1>3, <1>5, Activation DEF Admitted, ActiveRuns
<1>6. CASE Active(q) /\ ~Active(r)
  BY <1>3, <1>6, Activation DEF Admitted, ActiveRuns
<1>7. CASE ~Active(q) /\ ~Active(r)
  <2>1. Admitted(q)
    BY <1>7, Activation
  <2> QED
    BY <1>7, <2>1 DEF Admitted, Active
<1> QED
  BY <1>4, <1>5, <1>6, <1>7

LEMMA IInvStep == IInv /\ [Next]_vars => IInv'
BY TypeStep, JobWhileBusyStep, WorkIsStartedStep, LeaseStep, OneRunnerStep, RetryStep,
   ExclusionStep
DEF IInv

LEMMA Invariance == Spec => []IInv
BY IInvInit, IInvStep, PTL DEF Spec

\* Executing runs are leased, leases belong to executing, cancelled or parked
\* runs, in every reachable state.
THEOREM LeasesMatch == Spec => []LeaseMatchesStatus
<1>1. IInv => LeaseMatchesStatus
  BY DEF IInv
<1> QED
  BY <1>1, Invariance, PTL

\* No attempt of a run is executed twice.
THEOREM NoDoubleExecution == Spec => []OneRunnerPerAttempt
<1>1. IInv => OneRunnerPerAttempt
  BY DEF IInv
<1> QED
  BY <1>1, Invariance, PTL

\* admit_one excludes two runs of one ticker, except for those that recovery
\* parked.
THEOREM Exclusion == Spec => []ExclusionUnlessParked
<1>1. IInv => ExclusionUnlessParked
  BY DEF IInv
<1> QED
  BY <1>1, Invariance, PTL

\* A retried run has ended and stays.
THEOREM RetriesFollow == Spec => []RetryFollowsEnd
<1>1. IInv => RetryFollowsEnd
  BY DEF IInv
<1> QED
  BY <1>1, Invariance, PTL

\* Nothing rewrites the end of a run.
THEOREM Finality == Spec => FinalIsFinal
<1>1. ASSUME IInv, [Next]_vars, NEW r \in Runs, status[r] \in Final
      PROVE  status'[r] \in {status[r], "deleted"}
  <2>1. RunStep(r)
    BY <1>1, RunSteps DEF IInv
  <2>2. ~Leased(r)
    BY <1>1, StagesAreNew DEF IInv, LeaseMatchesStatus, Executing, TERMINAL_STATUSES, Final
  <2> QED
    BY <1>1, <2>1, <2>2, StagesAreNew
    DEF RunStep, Nothing, Created, Moved, Removed, Recovered, Final, TERMINAL_STATUSES,
        Executing, Pending, CancelPending
<1>2. IInv /\ [Next]_vars =>
          [\A r \in Runs : status[r] \in Final => status'[r] \in {status[r], "deleted"}]_vars
  BY <1>1
<1> QED
  BY <1>2, Invariance, PTL DEF Spec, FinalIsFinal

\* Outside recovery of expired leases and deletion the table of
\* domain/runs.py governs every move.
THEOREM TableGoverns == Spec => MovesFollowTable
<1>1. ASSUME IInv, [Next]_vars, NEW r \in Runs, status[r] \in Stored, status'[r] # status[r]
      PROVE  \/ Allowed(status[r], status'[r])
             \/ expired[r] /\ status'[r] \in {"admitted", "needs_attention"}
             \/ status[r] \in TERMINAL_STATUSES /\ status'[r] = "deleted"
  <2>1. RunStep(r)
    BY <1>1, RunSteps DEF IInv
  <2>2. status[r] # "absent"
    BY <1>1, StagesAreNew
    DEF Stored, Pending, Executing, CancelPending, TERMINAL_STATUSES, Final, Missing
  <2> QED
    BY <1>1, <2>1, <2>2 DEF RunStep, Nothing, Created, Moved, Removed, Recovered
<1>2. IInv /\ [Next]_vars =>
          [\A r \in Runs :
              status[r] \in Stored /\ status'[r] # status[r] =>
                  \/ Allowed(status[r], status'[r])
                  \/ expired[r] /\ status'[r] \in {"admitted", "needs_attention"}
                  \/ status[r] \in TERMINAL_STATUSES /\ status'[r] = "deleted"]_vars
  BY <1>1
<1> QED
  BY <1>2, Invariance, PTL DEF Spec, MovesFollowTable

-----------------------------------------------------------------------------
(* The progress of a run and the events that are stored for it.            *)

\* A stage is reached from the one before it, the result from the last one.
LEMMA StageMoves ==
    ASSUME NEW s
    PROVE  /\ \A i \in DOMAIN Pipeline : Allowed(s, Pipeline[i]) =>
                 i = 1 \/ (i - 1 \in DOMAIN Pipeline /\ s = Pipeline[i - 1])
           /\ Allowed(s, "finalizing") => s = Pipeline[Len(Pipeline)]
<1>0. /\ DOMAIN Pipeline = 1 .. Len(Pipeline) /\ Len(Pipeline) \in Nat /\ Len(Pipeline) >= 1
      /\ \A i, j \in DOMAIN Pipeline : Pipeline[i] = Pipeline[j] => i = j
      /\ \A i \in DOMAIN Pipeline : Pipeline[i] \in Stages
  BY PipelineAssumption DEF Stages
<1>1. ASSUME NEW i \in DOMAIN Pipeline, Allowed(s, Pipeline[i])
      PROVE  i = 1 \/ (i - 1 \in DOMAIN Pipeline /\ s = Pipeline[i - 1])
  <2>1. \/ Pipeline[i] = Pipeline[1]
        \/ \E j \in 1 .. (Len(Pipeline) - 1) : Pipeline[i] = Pipeline[j + 1] /\ s = Pipeline[j]
    BY <1>0, <1>1, StagesAreNew
    DEF Allowed, ALLOWED_TRANSITIONS, Executing, Pending, CancelPending, TERMINAL_STATUSES, Final
  <2>2. CASE Pipeline[i] = Pipeline[1]
    BY <1>0, <2>2
  <2>3. ASSUME NEW j \in 1 .. (Len(Pipeline) - 1), Pipeline[i] = Pipeline[j + 1], s = Pipeline[j]
        PROVE  i - 1 \in DOMAIN Pipeline /\ s = Pipeline[i - 1]
    <3>1. i = j + 1
      BY <1>0, <2>3
    <3> QED
      BY <1>0, <2>3, <3>1
  <2> QED
    BY <2>1, <2>2, <2>3
<1>2. ASSUME Allowed(s, "finalizing") PROVE s = Pipeline[Len(Pipeline)]
  <2>1. "finalizing" \notin Stages
    BY StagesAreNew
  <2>2. \A i \in 1 .. (Len(Pipeline) - 1) : Pipeline[i + 1] # "finalizing"
    BY <1>0, <2>1
  <2>3. Pipeline[1] # "finalizing"
    BY <1>0, <2>1
  <2> QED
    BY <1>2, <2>2, <2>3 DEF Allowed, ALLOWED_TRANSITIONS
<1> QED
  BY <1>1, <1>2

\* Statuses that stand for progress.
Progressed(r) == status[r] \in Stages \cup {"finalizing", "succeeded"}

\* What a step does to the events on record for a run, beside its status.
Silent(r) ==
    /\ durable'[r] = durable[r]
    /\ \/ status'[r] = status[r]
       \/ status[r] = "finalizing" /\ status'[r] = "succeeded"
       \/ ~Progressed(r)'

Counted(r) ==
    /\ durable'[r] = durable[r] + 1
    /\ \/ status'[r] = status[r]
       \/ Allowed(status[r], status'[r]) /\ status'[r] \in Stages \cup {"finalizing"}

Reset(r) == durable'[r] = 0 /\ ~Progressed(r)'

\* Events are counted where a run moves on, and forgotten where it starts again.
LEMMA EventSteps ==
    ASSUME TypeOK, JobWhileBusy, [Next]_vars, NEW q \in Runs
    PROVE  Silent(q) \/ Counted(q) \/ Reset(q)
<1>a. /\ status \in [Runs -> Stored \cup Missing] /\ durable \in [Runs -> Nat]
      /\ \A w \in Workers : pc[w] # "idle" => job[w] \in Runs
  BY DEF TypeOK, JobWhileBusy
<1>b. (Pending \cup CancelPending \cup Missing
       \cup {"admitted", "starting", "failed", "cancelled", "needs_attention"})
          \cap (Stages \cup {"finalizing", "succeeded"}) = {}
  BY StagesAreNew DEF Pending, CancelPending, Missing, TERMINAL_STATUSES, Final
<1>1. ASSUME UNCHANGED <<status, durable>> PROVE Silent(q)
  BY <1>1 DEF Silent
<1>2. ASSUME NEW r \in Runs, NEW s, status' = [status EXCEPT ![r] = s], UNCHANGED durable,
             s \notin Stages \cup {"finalizing", "succeeded"}
      PROVE  Silent(q)
  BY <1>a, <1>2 DEF Silent, Progressed
<1>3. ASSUME NEW r \in Runs, NEW t \in Tickers, Submit(r, t) PROVE Silent(q) \/ Reset(q)
  BY <1>a, <1>b, <1>3 DEF Submit, CreateRun, Silent, Reset, Progressed
<1>4. ASSUME NEW r \in Runs, NEW new \in Runs, Retry(r, new) PROVE Silent(q) \/ Reset(q)
  BY <1>a, <1>b, <1>4 DEF Retry, CreateRun, Silent, Reset, Progressed
<1>5. ASSUME NEW r \in Runs, Cancel(r) PROVE Silent(q)
  BY <1>b, <1>2, <1>5 DEF Cancel, CancelPending
<1>6. ASSUME NEW r \in Runs, Delete(r) \/ SettleData(r) \/ AdmitOne(r) PROVE Silent(q)
  BY <1>b, <1>2, <1>6 DEF Delete, SettleData, AdmitOne, Missing, Pending
<1>7. ASSUME NEW w \in Workers, NEW r \in Runs, Claim(w, r) PROVE Silent(q)
  BY <1>b, <1>2, <1>7 DEF Claim
<1>8. ASSUME NEW w \in Workers, PersistRunnerEvent(w) PROVE Silent(q) \/ Counted(q)
  <2>1. \/ UNCHANGED <<status, durable>>
        \/ \E event \in Events : /\ Accepts(w, event)
                                 /\ durable' = [durable EXCEPT ![job[w]] = @ + 1]
                                 /\ status' = [status EXCEPT ![job[w]] = After(@, event)]
    BY <1>8 DEF PersistRunnerEvent
  <2>2. ASSUME NEW event \in Events, Accepts(w, event), q = job[w],
               durable' = [durable EXCEPT ![job[w]] = @ + 1],
               status' = [status EXCEPT ![job[w]] = After(@, event)]
        PROVE  Counted(q)
    <3>1. durable'[q] = durable[q] + 1 /\ status'[q] = After(status[q], event)
      BY <1>a, <2>2
    <3>2. CASE status[q] \in CancelPending \/ event \in Errors
      BY <3>1, <3>2 DEF After, Counted
    <3>3. CASE ~(status[q] \in CancelPending \/ event \in Errors)
      <4>1. status'[q] = event /\ event \in Stages \cup {"finalizing"}
        BY <3>1, <3>3 DEF After, Events
      <4>2. event = status[q] \/ Allowed(status[q], event)
        BY <2>2, <3>3 DEF Accepts
      <4> QED
        BY <3>1, <4>1, <4>2 DEF Counted
    <3> QED
      BY <3>2, <3>3
  <2>3. ASSUME NEW event \in Events, q # job[w],
               durable' = [durable EXCEPT ![job[w]] = @ + 1],
               status' = [status EXCEPT ![job[w]] = After(@, event)]
        PROVE  Silent(q)
    BY <1>a, <2>3 DEF Silent
  <2> QED
    BY <1>1, <2>1, <2>2, <2>3
<1>9. ASSUME NEW w \in Workers, FinalizeCancelled(w) \/ FinalizeSuccess(w) PROVE Silent(q)
  <2>1. CASE UNCHANGED <<runVars, leaseVars>>
    BY <1>1, <2>1 DEF runVars
  <2>2. CASE FinalizeCancelled(w) /\ Settle(job[w], "cancelled")
    BY <1>a, <1>b, <1>2, <2>2 DEF FinalizeCancelled, Settle
  <2>3. CASE status[job[w]] = "finalizing" /\ Settle(job[w], "succeeded")
    BY <1>a, <2>3 DEF Settle, Silent
  <2> QED
    BY <1>9, <2>1, <2>2, <2>3 DEF FinalizeCancelled, FinalizeSuccess
<1>10. ASSUME NEW w \in Workers, FinalizeFailure(w) PROVE Silent(q) \/ Reset(q)
  <2>1. job[w] \in Runs
    BY <1>a, <1>10 DEF FinalizeFailure
  <2>2. CASE UNCHANGED <<runVars, leaseVars>>
    BY <1>1, <2>2 DEF runVars
  <2>3. CASE Settle(job[w], "cancelled") \/ Settle(job[w], "failed")
    BY <1>b, <1>2, <2>1, <2>3 DEF Settle
  <2>4. ASSUME NEW new \in Runs, FailAndRetry(job[w], new) PROVE Silent(q) \/ Reset(q)
    BY <1>a, <1>b, <2>1, <2>4 DEF FailAndRetry, Silent, Reset, Progressed, Pending
  <2> QED
    BY <1>10, <2>2, <2>3, <2>4 DEF FinalizeFailure
<1>11. ASSUME NEW w \in Workers, RecoverStaleLeases(w) PROVE Silent(q) \/ Reset(q)
  <2>1. PICK S \in SUBSET Stale, seen \in SUBSET Stale :
            /\ status' = [r \in Runs |-> IF r \in seen THEN "needs_attention"
                            ELSE IF r \in {s \in S \ seen : Exists(s)} THEN "admitted"
                            ELSE status[r]]
            /\ durable' = [r \in Runs |-> IF r \in {s \in S \ seen : Exists(s)} THEN 0
                                          ELSE durable[r]]
    BY <1>11 DEF RecoverStaleLeases
  <2> DEFINE requeued == {s \in S \ seen : Exists(s)}
  <2>2. CASE q \in requeued
    BY <1>b, <2>1, <2>2 DEF Reset, Progressed
  <2>3. CASE q \notin requeued /\ q \in seen
    BY <1>b, <2>1, <2>3 DEF Silent, Progressed
  <2>4. CASE q \notin requeued /\ q \notin seen
    BY <2>1, <2>4 DEF Silent
  <2> QED
    BY <2>2, <2>3, <2>4
<1>12. ASSUME NEW w \in Workers, \/ Launch(w) \/ SetChildIdentity(w) \/ Heartbeat(w)
                                 \/ PollCancel(w) \/ KillRunner(w) \/ RunnerEnded(w)
                                 \/ ReadCancelRequested(w) \/ Abandon(w)
       PROVE  Silent(q)
  BY <1>1, <1>12
  DEF Launch, SetChildIdentity, Heartbeat, PollCancel, KillRunner, RunnerEnded,
      ReadCancelRequested, Abandon, runVars
<1>13. ASSUME NEW r \in Runs, LeaseExpires(r) PROVE Silent(q)
  BY <1>1, <1>13 DEF LeaseExpires, runVars
<1>14. ASSUME NEW p \in alive, RunnerExits(p) PROVE Silent(q)
  BY <1>1, <1>14 DEF RunnerExits, runVars
<1>15. CASE UNCHANGED vars
  BY <1>1, <1>15 DEF vars, runVars
<1> QED
  BY <1>3, <1>4, <1>5, <1>6, <1>7, <1>8, <1>9, <1>10, <1>11, <1>12, <1>13, <1>14, <1>15,
     NextCases

LEMMA ProgressStep ==
    TypeOK /\ JobWhileBusy /\ ProgressIsRecorded /\ [Next]_vars => ProgressIsRecorded'
<1> SUFFICES ASSUME TypeOK, JobWhileBusy, ProgressIsRecorded, [Next]_vars, NEW r \in Runs
             PROVE  /\ \A i \in DOMAIN Pipeline : status'[r] = Pipeline[i] => durable'[r] >= i
                    /\ status'[r] \in {"finalizing", "succeeded"} => durable'[r] > Len(Pipeline)
  BY DEF ProgressIsRecorded
<1>1. /\ \A i \in DOMAIN Pipeline : status[r] = Pipeline[i] => durable[r] >= i
      /\ status[r] \in {"finalizing", "succeeded"} => durable[r] > Len(Pipeline)
      /\ durable[r] \in Nat
  BY DEF ProgressIsRecorded, TypeOK
<1>2. /\ DOMAIN Pipeline = 1 .. Len(Pipeline) /\ Len(Pipeline) \in Nat /\ Len(Pipeline) >= 1
      /\ \A i \in DOMAIN Pipeline : Pipeline[i] \in Stages
  BY PipelineAssumption DEF Stages
<1>3. CASE Silent(r)
  <2>1. "succeeded" \notin Stages
    BY StagesAreNew DEF TERMINAL_STATUSES, Final
  <2> QED
    BY <1>1, <1>2, <1>3, <2>1 DEF Silent, Progressed
<1>4. CASE Counted(r)
  <2>1. CASE status'[r] = status[r]
    BY <1>1, <1>2, <1>4, <2>1 DEF Counted
  <2>2. CASE Allowed(status[r], status'[r]) /\ status'[r] \in Stages \cup {"finalizing"}
    <3>1. ASSUME NEW i \in DOMAIN Pipeline, status'[r] = Pipeline[i] PROVE durable'[r] >= i
      <4>1. i = 1 \/ (i - 1 \in DOMAIN Pipeline /\ status[r] = Pipeline[i - 1])
        BY <2>2, <3>1, StageMoves
      <4> QED
        BY <1>1, <1>2, <1>4, <4>1 DEF Counted
    <3>2. ASSUME status'[r] \in {"finalizing", "succeeded"} PROVE durable'[r] > Len(Pipeline)
      <4>1. status'[r] = "finalizing"
        BY <2>2, <3>2, StagesAreNew DEF TERMINAL_STATUSES, Final
      <4>2. status[r] = Pipeline[Len(Pipeline)]
        BY <2>2, <4>1, StageMoves
      <4> QED
        BY <1>1, <1>2, <1>4, <4>2 DEF Counted
    <3> QED
      BY <3>1, <3>2
  <2> QED
    BY <1>4, <2>1, <2>2 DEF Counted
<1>5. CASE Reset(r)
  BY <1>2, <1>5 DEF Reset, Progressed
<1> QED
  BY <1>3, <1>4, <1>5, EventSteps

\* A run at stage i has at least i events of its current attempt on record, and one
\* that succeeds one more than there are stages, although workers of an earlier attempt
\* may store theirs: persist_runner_event lets no run skip a stage.  (It takes the event
\* of the stage the run is at once more, so that there may be more of them.)
THEOREM Progress == Spec => []ProgressIsRecorded
<1>1. Init => TypeOK /\ JobWhileBusy /\ ProgressIsRecorded
  <2>1. Init => ProgressIsRecorded
    <3>1. \A i \in DOMAIN Pipeline : Pipeline[i] # "absent"
      BY StagesAreNew DEF Stages, Missing
    <3> QED
      BY <3>1 DEF Init, ProgressIsRecorded
  <2> QED
    BY <2>1, TypeInit DEF Init, JobWhileBusy
<1> QED
  BY <1>1, TypeStep, JobWhileBusyStep, ProgressStep, PTL DEF Spec

-----------------------------------------------------------------------------
(***************************************************************************)
(* RunExecution implements TickerSchedule under the mapping PhaseOf: the   *)
(* initial states map to initial states, and every step maps to a step of  *)
(* the abstract schedule or to none.  That the abstract Start finds its    *)
(* ticker free and the number of active runs below the limit is what the   *)
(* platform promises of admission.                                         *)
(***************************************************************************)

\* PhaseOf as a function of what it depends on.
Phase(s, leased) ==
    IF s = "absent" THEN "none"
    ELSE IF s = "deleted" THEN "removed"
    ELSE IF s \in Pending THEN "pending"
    ELSE IF s \in ACTIVE_RUN_STATUSES THEN "active"
    ELSE IF leased THEN "parked" ELSE "done"

Map == [r \in Runs |-> PhaseOf(r)]

\* What a status means to the schedule.
LEMMA PhaseValues ==
    ASSUME NEW s, NEW leased \in BOOLEAN
    PROVE  /\ Phase("absent", leased) = "none"
           /\ Phase("deleted", leased) = "removed"
           /\ s \in Pending => Phase(s, leased) = "pending"
           /\ s \in {"admitted"} \cup Executing \cup CancelPending => Phase(s, leased) = "active"
           /\ s \in TERMINAL_STATUSES =>
                  Phase(s, leased) = IF leased THEN "parked" ELSE "done"
<1>1. /\ s \in Pending => s \notin Missing
      /\ s \in ACTIVE_RUN_STATUSES => s \notin Missing \cup Pending
      /\ s \in TERMINAL_STATUSES => s \notin Missing \cup Pending \cup ACTIVE_RUN_STATUSES
  BY StagesAreNew
  DEF Pending, Missing, ACTIVE_RUN_STATUSES, Executing, CancelPending, TERMINAL_STATUSES, Final
<1>2. {"admitted"} \cup Executing \cup CancelPending = ACTIVE_RUN_STATUSES
  BY DEF ACTIVE_RUN_STATUSES
<1> QED
  BY <1>1, <1>2 DEF Phase, Missing

\* The phases before and after a step, by the statuses and leases.
LEMMA PhaseBefore ==
    ASSUME NEW r \in Runs
    PROVE  /\ Map[r] = PhaseOf(r)
           /\ status[r] = "absent" => Map[r] = "none"
           /\ status[r] = "deleted" => Map[r] = "removed"
           /\ status[r] \in Pending => Map[r] = "pending"
           /\ status[r] \in {"admitted"} \cup Executing \cup CancelPending => Map[r] = "active"
           /\ status[r] \in TERMINAL_STATUSES => Map[r] = IF Leased(r) THEN "parked" ELSE "done"
<1>1. Map[r] = Phase(status[r], Leased(r)) /\ Leased(r) \in BOOLEAN /\ Map[r] = PhaseOf(r)
  BY DEF PhaseOf, Phase, Active, Map, Leased
<1> QED
  BY <1>1, PhaseValues

LEMMA PhaseAfter ==
    ASSUME NEW r \in Runs
    PROVE  /\ Map'[r] = PhaseOf(r)'
           /\ status'[r] \in Pending => PhaseOf(r)' = "pending"
           /\ status'[r] = "deleted" => PhaseOf(r)' = "removed"
           /\ status'[r] \in {"admitted"} \cup Executing \cup CancelPending =>
                  PhaseOf(r)' = "active"
           /\ status'[r] \in TERMINAL_STATUSES /\ owner'[r] = None => PhaseOf(r)' = "done"
           /\ status'[r] \in TERMINAL_STATUSES /\ owner'[r] # None => PhaseOf(r)' = "parked"
<1>1. /\ PhaseOf(r)' = Phase(status'[r], Leased(r)') /\ Leased(r)' \in BOOLEAN
      /\ Leased(r)' <=> owner'[r] # None
      /\ Map'[r] = PhaseOf(r)'
  BY DEF PhaseOf, Phase, Active, Map, Leased
<1> QED
  BY <1>1, PhaseValues

\* A run keeps its phase with its status and its lease.
LEMMA PhaseKept ==
    ASSUME NEW r \in Runs, status'[r] = status[r], Leased(r)' <=> Leased(r)
    PROVE  PhaseOf(r)' = Map[r]
BY DEF PhaseOf, Map, Active

\* Active runs are those the schedule takes for active.
LEMMA ActiveInSchedule ==
    ASSUME NEW r \in Runs
    PROVE  Map[r] = "active" <=> Active(r)
<1>1. CASE Active(r)
  BY <1>1, PhaseBefore DEF Active, ACTIVE_RUN_STATUSES
<1>2. CASE ~Active(r)
  BY <1>2, PhaseBefore DEF PhaseOf
<1> QED
  BY <1>1, <1>2

\* A step that moves one run at most changes the phase of no other one.
LEMMA OneMoves ==
    ASSUME NEW r \in Runs,
           \A q \in Runs \ {r} : status'[q] = status[q] /\ (Leased(q)' <=> Leased(q))
    PROVE  Map' = [Map EXCEPT ![r] = PhaseOf(r)']
<1>1. ASSUME NEW q \in Runs, q # r PROVE PhaseOf(q)' = Map[q]
  BY <1>1, PhaseKept
<1> QED
  BY <1>1, PhaseAfter DEF Map

\* A step that neither changes a status nor gives or takes a lease changes no phase.
LEMMA NoneMoves ==
    ASSUME UNCHANGED status, UNCHANGED owner
    PROVE  Map' = Map
<1>1. ASSUME NEW q \in Runs PROVE PhaseOf(q)' = Map[q]
  BY PhaseKept DEF Leased
<1> QED
  BY <1>1, PhaseAfter DEF Map

-----------------------------------------------------------------------------
(* The steps of the schedule.                                              *)

Moves(r, from, to) ==
    Map[r] = from /\ Map' = [Map EXCEPT ![r] = to]

LEMMA ScheduleSteps ==
    ASSUME NEW r \in Runs
    PROVE  /\ \A t \in Tickers :
                  Moves(r, "none", "pending") /\ ticker' = [ticker EXCEPT ![r] = t]
                  => Schedule!Next
           /\ Moves(r, "pending", "done") /\ UNCHANGED ticker => Schedule!Next
           /\ Moves(r, "active", "done") /\ UNCHANGED ticker => Schedule!Next
           /\ Moves(r, "done", "removed") /\ UNCHANGED ticker => Schedule!Next
<1> USE DEF Moves, Map, Schedule!Move
<1>1. ASSUME NEW t \in Tickers, Moves(r, "none", "pending"), ticker' = [ticker EXCEPT ![r] = t]
      PROVE  Schedule!Next
  <2>1. Schedule!Request(r, t)
    BY <1>1 DEF Schedule!Request
  <2> QED
    BY <2>1 DEF Schedule!Next
<1>2. ASSUME Moves(r, "pending", "done"), UNCHANGED ticker PROVE Schedule!Next
  <2>1. Schedule!Drop(r)
    BY <1>2 DEF Schedule!Drop
  <2> QED
    BY <2>1 DEF Schedule!Next
<1>3. ASSUME Moves(r, "active", "done"), UNCHANGED ticker PROVE Schedule!Next
  <2>1. Schedule!Finish(r)
    BY <1>3 DEF Schedule!Finish
  <2> QED
    BY <2>1 DEF Schedule!Next
<1>4. ASSUME Moves(r, "done", "removed"), UNCHANGED ticker PROVE Schedule!Next
  <2>1. Schedule!Remove(r)
    BY <1>4 DEF Schedule!Remove
  <2> QED
    BY <2>1 DEF Schedule!Next
<1> QED
  BY <1>1, <1>2, <1>3, <1>4

\* TickerSchedule counts as RunExecution does.
LEMMA SameCount == \A S : Schedule!Cardinality(S) = Cardinality(S)
BY DEF Cardinality, Schedule!Cardinality

LEMMA ScheduleStart ==
    ASSUME NEW r \in Runs, Moves(r, "pending", "active"), UNCHANGED ticker,
           \A q \in ActiveRuns : ticker[q] # ticker[r], Cardinality(ActiveRuns) < MaxRunning
    PROVE  Schedule!Next
<1>1. Schedule!In("active") = {q \in Runs : Map[q] = "active"}
  BY DEF Schedule!In, Map
<1>2. Schedule!In("active") = ActiveRuns
  BY <1>1, ActiveInSchedule DEF ActiveRuns
<1>3. Schedule!Start(r)
  BY <1>2, SameCount DEF Schedule!Start, Schedule!Move, Moves, Map
<1> QED
  BY <1>3 DEF Schedule!Next

LEMMA ScheduleRetry ==
    ASSUME NEW r \in Runs, NEW new \in Runs, Map[r] = "active", Map[new] = "none",
           Map' = [Map EXCEPT ![r] = "done", ![new] = "pending"],
           ticker' = [ticker EXCEPT ![new] = ticker[r]]
    PROVE  Schedule!Next
<1>1. Schedule!FinishAndRequest(r, new)
  BY DEF Schedule!FinishAndRequest, Map
<1> QED
  BY <1>1 DEF Schedule!Next

LEMMA ScheduleRecovery ==
    ASSUME NEW parking \in SUBSET Runs, NEW resuming \in SUBSET Runs, UNCHANGED ticker,
           \A r \in parking : Map[r] = "active", \A r \in resuming : Map[r] = "parked",
           \A r \in Runs : Map'[r] = IF r \in parking THEN "parked"
                                     ELSE IF r \in resuming THEN "active" ELSE Map[r]
    PROVE  Schedule!Next
<1>1. parking \subseteq Schedule!In("active") /\ resuming \subseteq Schedule!In("parked")
  BY DEF Schedule!In, Map
<1>2. Map' = [r \in Runs |-> IF r \in parking THEN "parked"
                             ELSE IF r \in resuming THEN "active" ELSE Map[r]]
  BY DEF Map
<1>3. Schedule!Recover(parking, resuming)
  BY <1>1, <1>2 DEF Schedule!Recover, Map
<1> QED
  BY <1>3 DEF Schedule!Next

-----------------------------------------------------------------------------
(* Every action maps to a step of the schedule.                            *)

\* Rows of runs that were never leased while pending or terminal, and workers whose
\* run was claimed.
LEMMA Facts ==
    ASSUME IInv
    PROVE  /\ status \in [Runs -> Stored \cup Missing] /\ attempt \in [Runs -> Nat]
           /\ owner \in [Runs -> Workers \cup {None}] /\ ticker \in [Runs -> Tickers \cup {None}]
           /\ \A r \in Runs : /\ status[r] \in Pending \cup Final => ~Leased(r)
                              /\ Leased(r) => status[r] \in Executing \cup {"cancel_requested",
                                                                            "needs_attention"}
           /\ \A w \in Workers : pc[w] # "idle" =>
                  job[w] \in Runs /\ status[job[w]] \notin Pending \cup {"absent"}
<1>1. \A w \in Workers : pc[w] # "idle" =>
          job[w] \in Runs /\ status[job[w]] \notin Pending \cup {"absent"}
  BY DEF IInv, TypeOK, JobWhileBusy, WorkIsStarted, Working, Started
<1>2. ASSUME NEW r \in Runs, status[r] \in Pending \cup Final PROVE ~Leased(r)
  BY <1>2, StagesAreNew
  DEF IInv, LeaseMatchesStatus, Pending, Final, Executing, TERMINAL_STATUSES
<1> QED
  BY <1>1, <1>2 DEF IInv, TypeOK, LeaseMatchesStatus

\* A run that was requested has a ticker.
TickersAreKnown == \A r \in Runs : status[r] # "absent" => ticker[r] \in Tickers

Implemented == Schedule!Next \/ UNCHANGED <<Map, ticker>>

LEMMA CreationImplemented ==
    ASSUME IInv, NEW r \in Runs, NEW t \in Tickers, NEW source, NEW nth, NEW initial \in Pending,
           CreateRun(r, t, source, nth, initial), UNCHANGED owner
    PROVE  Implemented
<1>1. /\ status[r] = "absent" /\ status' = [status EXCEPT ![r] = initial]
      /\ ticker' = [ticker EXCEPT ![r] = t]
  BY DEF CreateRun
<1>2. status'[r] = initial
  BY <1>1, Facts
<1>3. Map[r] = "none" /\ PhaseOf(r)' = "pending"
  BY <1>1, <1>2, PhaseBefore, PhaseAfter
<1>4. Map' = [Map EXCEPT ![r] = PhaseOf(r)']
  BY <1>1, Facts, OneMoves DEF Leased
<1> QED
  BY <1>1, <1>3, <1>4, ScheduleSteps DEF Moves, Implemented

LEMMA ApiImplemented ==
    ASSUME IInv, TickersAreKnown, ApiStep \/ \E r \in Runs : SettleData(r)
    PROVE  Implemented
<1>1. ASSUME NEW r \in Runs, NEW t \in Tickers, Submit(r, t) PROVE Implemented
  BY <1>1, CreationImplemented DEF Submit, leaseVars
<1>2. ASSUME NEW r \in Runs, NEW new \in Runs, Retry(r, new) PROVE Implemented
  <2>1. ticker[r] \in Tickers
    BY <1>2 DEF Retry, TickersAreKnown
  <2> QED
    BY <1>2, <2>1, CreationImplemented DEF Retry, leaseVars
<1>3. ASSUME NEW r \in Runs, NEW target, status' = [status EXCEPT ![r] = target], UNCHANGED owner
      PROVE  /\ Map' = [Map EXCEPT ![r] = PhaseOf(r)'] /\ status'[r] = target
             /\ PhaseOf(r)' = Map[r] => Map' = Map
             /\ owner'[r] = None <=> ~Leased(r)
  <2>1. Map' = [Map EXCEPT ![r] = PhaseOf(r)']
    BY <1>3, Facts, OneMoves DEF Leased
  <2>2. [Map EXCEPT ![r] = Map[r]] = Map
    BY DEF Map
  <2> QED
    BY <1>3, <2>1, <2>2, Facts DEF Leased
<1>5. ASSUME NEW r \in Runs, Cancel(r) PROVE Implemented
  <2>1. UNCHANGED owner /\ UNCHANGED ticker
    BY <1>5 DEF Cancel, leaseVars
  <2>2. CASE status[r] \in Pending
    <3>1. status' = [status EXCEPT ![r] = "cancelled"]
      BY <1>5, <2>2 DEF Cancel
    <3>2. PhaseOf(r)' = "done" /\ Map[r] = "pending"
      BY <1>3, <2>1, <2>2, <3>1, Facts, PhaseBefore, PhaseAfter DEF TERMINAL_STATUSES, Final
    <3> QED
      BY <1>3, <2>1, <3>1, <3>2, ScheduleSteps DEF Implemented, Moves
  <2>3. CASE status[r] \in {"admitted"} \cup Executing
    <3>1. status' = [status EXCEPT ![r] = "cancel_requested"]
      BY <1>5, <2>3, StagesAreNew DEF Cancel, Pending, Executing
    <3>2. PhaseOf(r)' = Map[r]
      BY <1>3, <2>1, <2>3, <3>1, PhaseBefore, PhaseAfter DEF CancelPending
    <3> QED
      BY <1>3, <2>1, <3>1, <3>2 DEF Implemented
  <2> QED
    BY <1>5, <2>2, <2>3 DEF Cancel
<1>6. ASSUME NEW r \in Runs, Delete(r) PROVE Implemented
  <2>1. /\ UNCHANGED owner /\ UNCHANGED ticker /\ ~Leased(r) /\ status[r] \in TERMINAL_STATUSES
        /\ status' = [status EXCEPT ![r] = "deleted"]
    BY <1>6 DEF Delete, leaseVars
  <2>2. PhaseOf(r)' = "removed" /\ Map[r] = "done"
    BY <1>3, <2>1, PhaseBefore, PhaseAfter
  <2> QED
    BY <1>3, <2>1, <2>2, ScheduleSteps DEF Implemented, Moves
<1>7. ASSUME NEW r \in Runs, SettleData(r) PROVE Implemented
  <2>1. /\ UNCHANGED owner /\ UNCHANGED ticker /\ status[r] \in Pending /\ ~Leased(r)
    BY <1>7, Facts DEF SettleData, leaseVars, Pending
  <2>2. PICK target \in {"queued", "failed", "needs_attention"} :
            status' = [status EXCEPT ![r] = target]
    BY <1>7 DEF SettleData
  <2>3. CASE target = "queued"
    <3>1. PhaseOf(r)' = Map[r]
      BY <1>3, <2>1, <2>2, <2>3, PhaseBefore, PhaseAfter DEF Pending
    <3> QED
      BY <1>3, <2>1, <2>2, <3>1 DEF Implemented
  <2>4. CASE target \in TERMINAL_STATUSES
    <3>1. PhaseOf(r)' = "done" /\ Map[r] = "pending"
      BY <1>3, <2>1, <2>2, <2>4, PhaseBefore, PhaseAfter
    <3> QED
      BY <1>3, <2>1, <2>2, <3>1, ScheduleSteps DEF Implemented, Moves
  <2> QED
    BY <2>2, <2>3, <2>4 DEF TERMINAL_STATUSES, Final
<1> QED
  BY <1>1, <1>2, <1>5, <1>6, <1>7 DEF ApiStep

LEMMA AdmissionImplemented ==
    ASSUME IInv, NEW r \in Runs, AdmitOne(r)
    PROVE  Implemented
<1>1. /\ status[r] = "queued" /\ status' = [status EXCEPT ![r] = "admitted"]
      /\ UNCHANGED owner /\ UNCHANGED ticker
      /\ \A q \in ActiveRuns : ticker[q] # ticker[r]
      /\ Cardinality(ActiveRuns) < MaxRunning
  BY DEF AdmitOne, leaseVars
<1>2. Map[r] = "pending" /\ PhaseOf(r)' = "active"
  BY <1>1, Facts, PhaseBefore, PhaseAfter DEF Pending
<1>3. Map' = [Map EXCEPT ![r] = PhaseOf(r)']
  BY <1>1, Facts, OneMoves DEF Leased
<1> QED
  BY <1>1, <1>2, <1>3, ScheduleStart DEF Moves, Implemented

\* The end of a run by its worker.
LEMMA SettleImplemented ==
    ASSUME IInv, NEW r \in Runs, NEW final \in Final, Settle(r, final),
           status[r] \in Executing \cup CancelPending
    PROVE  Implemented
<1>1. /\ status' = [status EXCEPT ![r] = final] /\ owner' = [owner EXCEPT ![r] = None]
      /\ UNCHANGED ticker
  BY DEF Settle, ReleaseLease
<1>2. Map[r] = "active" /\ PhaseOf(r)' = "done"
  BY <1>1, Facts, PhaseBefore, PhaseAfter DEF TERMINAL_STATUSES
<1>3. Map' = [Map EXCEPT ![r] = PhaseOf(r)']
  BY <1>1, Facts, OneMoves DEF Leased
<1> QED
  BY <1>1, <1>2, <1>3, ScheduleSteps DEF Moves, Implemented

\* What a worker does before it settles its run.
LEMMA WorkImplemented ==
    ASSUME IInv, NEW w \in Workers,
           \/ \E r \in Runs : Claim(w, r)
           \/ PersistRunnerEvent(w)
    PROVE  Implemented
<1>1. ASSUME NEW r \in Runs, Claim(w, r) PROVE Implemented
  <2>1. /\ status[r] = "admitted" /\ status' = [status EXCEPT ![r] = "starting"]
        /\ owner' = [owner EXCEPT ![r] = w] /\ UNCHANGED ticker
    BY <1>1 DEF Claim
  <2>2. Map[r] = "active" /\ PhaseOf(r)' = "active"
    BY <2>1, Facts, PhaseBefore, PhaseAfter DEF Executing
  <2>3. Map' = [Map EXCEPT ![r] = PhaseOf(r)']
    BY <2>1, Facts, OneMoves DEF Leased
  <2>4. Map' = Map
    BY <2>2, <2>3 DEF Map
  <2> QED
    BY <2>1, <2>4 DEF Implemented
<1>2. ASSUME PersistRunnerEvent(w) PROVE Implemented
  <2>1. UNCHANGED owner /\ UNCHANGED ticker /\ pc[w] # "idle"
    BY <1>2 DEF PersistRunnerEvent, leaseVars, Supervising
  <2>2. PICK r \in Runs : r = job[w]
    BY <2>1, Facts
  <2>3. CASE UNCHANGED status
    BY <2>1, <2>3, NoneMoves DEF Implemented
  <2>4. ASSUME NEW event \in Events, Accepts(w, event),
               status' = [status EXCEPT ![r] = After(@, event)]
        PROVE  Implemented
    <3>1. status'[r] = After(status[r], event)
      BY <2>4, Facts
    <3>2. CASE After(status[r], event) = status[r]
      <4>1. UNCHANGED status
        BY <2>4, <3>2, Facts
      <4> QED
        BY <2>3, <4>1
    <3>3. CASE After(status[r], event) # status[r]
      <4>1. /\ status[r] \notin CancelPending /\ event \in Stages \cup {"finalizing"}
            /\ status'[r] = event /\ event # status[r] /\ event \notin Errors
        BY <3>1, <3>3 DEF After, Events
      <4>2. Allowed(status[r], event)
        BY <2>2, <2>4, <4>1 DEF Accepts
      <4>3. status[r] \in Executing /\ event \in Executing
        BY <4>1, <4>2, AllowedMoves DEF Executing
      <4>4. Map[r] = "active" /\ PhaseOf(r)' = "active"
        BY <4>1, <4>3, PhaseBefore, PhaseAfter
      <4>5. Map' = [Map EXCEPT ![r] = PhaseOf(r)']
        BY <2>1, <2>4, Facts, OneMoves DEF Leased
      <4>6. Map' = Map
        BY <4>4, <4>5 DEF Map
      <4> QED
        BY <2>1, <4>6 DEF Implemented
    <3> QED
      BY <3>2, <3>3
  <2> QED
    BY <1>2, <2>2, <2>3, <2>4 DEF PersistRunnerEvent
<1> QED
  BY <1>1, <1>2

LEMMA FinalizationImplemented ==
    ASSUME IInv, NEW w \in Workers, Finalize(w)
    PROVE  Implemented
<1>1. pc[w] # "idle" /\ job[w] \in Runs /\ status[job[w]] \notin Pending \cup {"absent"}
  BY Facts DEF Finalize, FinalizeCancelled, FinalizeSuccess, FinalizeFailure
<1>2. CASE UNCHANGED <<runVars, leaseVars>>
  BY <1>2, NoneMoves DEF runVars, leaseVars, Implemented
<1>3. ASSUME Allowed(status[job[w]], "failed") PROVE status[job[w]] \in Executing
  BY <1>1, <1>3, AllowedMoves DEF Pending
<1>4. ASSUME NEW new \in Runs, Allowed(status[job[w]], "failed"), FailAndRetry(job[w], new)
      PROVE  Implemented
  <2>0. PICK r \in Runs : r = job[w]
    BY <1>1
  <2>1. /\ r # new /\ status[new] = "absent" /\ status[r] \in Executing
        /\ status' = [status EXCEPT ![r] = "failed", ![new] = "queued"]
        /\ ticker' = [ticker EXCEPT ![new] = ticker[r]]
        /\ owner' = [owner EXCEPT ![r] = None]
    BY <1>1, <1>3, <1>4, <2>0, StagesAreNew DEF FailAndRetry, ReleaseLease, Executing, Missing
  <2>2. Map[r] = "active" /\ Map[new] = "none"
    BY <2>1, PhaseBefore
  <2>3. PhaseOf(r)' = "done" /\ PhaseOf(new)' = "pending"
    BY <2>1, Facts, PhaseAfter DEF TERMINAL_STATUSES, Final, Pending
  <2>4. ASSUME NEW q \in Runs, q # r, q # new PROVE PhaseOf(q)' = Map[q]
    BY <2>1, <2>4, Facts, PhaseKept DEF Leased
  <2>5. Map' = [Map EXCEPT ![r] = "done", ![new] = "pending"]
    BY <2>1, <2>3, <2>4, PhaseAfter DEF Map
  <2> QED
    BY <2>1, <2>2, <2>5, ScheduleRetry DEF Implemented
<1>5. CASE FinalizeCancelled(w)
  BY <1>1, <1>2, <1>5, SettleImplemented DEF FinalizeCancelled, Final
<1>6. CASE FinalizeSuccess(w)
  BY <1>1, <1>2, <1>6, SettleImplemented DEF FinalizeSuccess, Final, Executing
<1>7. CASE FinalizeFailure(w)
  BY <1>1, <1>2, <1>3, <1>4, <1>7, SettleImplemented DEF FinalizeFailure, Final
<1> QED
  BY <1>5, <1>6, <1>7 DEF Finalize

\* Whatever else happens, no run and no lease changes hands.
LEMMA OthersImplemented ==
    ASSUME \/ \E r \in Runs : LeaseExpires(r)
           \/ \E p \in alive : RunnerExits(p)
           \/ \E w \in Workers : \/ Launch(w) \/ SetChildIdentity(w) \/ Heartbeat(w)
                                 \/ PollCancel(w) \/ KillRunner(w) \/ RunnerEnded(w)
                                 \/ ReadCancelRequested(w) \/ Abandon(w)
           \/ UNCHANGED vars
    PROVE  Implemented
<1>1. UNCHANGED status /\ UNCHANGED owner /\ UNCHANGED ticker
  BY DEF LeaseExpires, RunnerExits, Launch, SetChildIdentity, Heartbeat, PollCancel, KillRunner,
         RunnerEnded, ReadCancelRequested, Abandon, runVars, leaseVars, vars
<1> QED
  BY <1>1, NoneMoves DEF Implemented

\* Recovery parks active runs and resumes parked ones; the other stale leases are of
\* runs that go on as active ones or stay parked.
LEMMA RecoveryImplemented ==
    ASSUME IInv, NEW w \in Workers, RecoverStaleLeases(w)
    PROVE  Implemented
<1>1. PICK S \in SUBSET Stale : \E seen \in SUBSET {r \in S : Exists(r) /\ pid[r] # None} :
          LET reclaimed == S \ seen
              requeued  == {r \in reclaimed : Exists(r)} IN
          /\ status' = [r \in Runs |-> IF r \in seen THEN "needs_attention"
                                       ELSE IF r \in requeued THEN "admitted" ELSE status[r]]
          /\ owner' = [r \in Runs |-> IF r \in reclaimed THEN None ELSE owner[r]]
  BY DEF RecoverStaleLeases
<1>2. PICK seen \in SUBSET S :
          /\ status' = [r \in Runs |-> IF r \in seen THEN "needs_attention"
                                       ELSE IF r \in S \ seen /\ Exists(r) THEN "admitted"
                                       ELSE status[r]]
          /\ owner' = [r \in Runs |-> IF r \in S \ seen THEN None ELSE owner[r]]
  BY <1>1
<1>3. S \subseteq Runs /\ \A r \in S : Leased(r)
  BY DEF Stale
<1>4. ASSUME NEW r \in S
      PROVE  /\ Exists(r)
             /\ Map[r] \in {"active", "parked"}
  <2>1. status[r] \in Executing \cup {"cancel_requested", "needs_attention"}
    BY <1>3, Facts
  <2> QED
    BY <1>3, <2>1, PhaseBefore, StagesAreNew
    DEF Exists, Missing, Executing, CancelPending, TERMINAL_STATUSES
<1> DEFINE parking == {r \in seen : Map[r] = "active"}
           resuming == {r \in S \ seen : Map[r] = "parked"}
<1>5. UNCHANGED ticker
  BY DEF RecoverStaleLeases
<1>6. ASSUME NEW r \in Runs
      PROVE  Map'[r] = IF r \in parking THEN "parked"
                       ELSE IF r \in resuming THEN "active" ELSE Map[r]
  <2>1. CASE r \in seen
    <3>1. status'[r] = "needs_attention" /\ owner'[r] # None
      BY <1>2, <1>3, <2>1 DEF Leased
    <3>2. Map'[r] = "parked"
      BY <3>1, PhaseAfter DEF TERMINAL_STATUSES
    <3> QED
      BY <1>4, <2>1, <3>2
  <2>2. CASE r \in S \ seen
    <3>1. status'[r] = "admitted"
      BY <1>2, <1>4, <2>2
    <3>2. Map'[r] = "active"
      BY <3>1, PhaseAfter
    <3> QED
      BY <1>4, <2>2, <3>2
  <2>3. CASE r \notin S
    <3>1. PhaseOf(r)' = Map[r]
      BY <1>2, <2>3, PhaseKept DEF Leased
    <3> QED
      BY <2>3, <3>1, PhaseAfter
  <2> QED
    BY <2>1, <2>2, <2>3
<1>7. /\ parking \in SUBSET Runs /\ resuming \in SUBSET Runs
      /\ \A r \in parking : Map[r] = "active"
      /\ \A r \in resuming : Map[r] = "parked"
  BY <1>2, <1>3
<1> HIDE DEF parking, resuming
<1> QED
  BY <1>5, <1>6, <1>7, ScheduleRecovery DEF Implemented

-----------------------------------------------------------------------------
(* The theorem.                                                            *)

LEMMA TickersInit == Init => TickersAreKnown
BY DEF Init, TickersAreKnown

LEMMA TickersStep ==
    ASSUME IInv, TickersAreKnown, [Next]_vars
    PROVE  TickersAreKnown'
<1> SUFFICES ASSUME NEW q \in Runs, status'[q] # "absent" PROVE ticker'[q] \in Tickers
  BY DEF TickersAreKnown
<1>1. CASE status[q] # "absent"
  BY <1>1, RunSteps DEF IInv, RowStep, TickersAreKnown
<1>2. CASE status[q] = "absent"
  <2>1. ASSUME NEW r \in Runs, NEW t \in Tickers, NEW source, NEW nth, NEW initial,
               CreateRun(r, t, source, nth, initial)
        PROVE  ticker'[q] \in Tickers
    BY <1>2, <2>1, Facts DEF CreateRun
  <2>2. ASSUME NEW r \in Runs, NEW t \in Tickers, Submit(r, t) PROVE ticker'[q] \in Tickers
    BY <2>1, <2>2 DEF Submit
  <2>3. ASSUME NEW r \in Runs, NEW new \in Runs, Retry(r, new) PROVE ticker'[q] \in Tickers
    <3>1. ticker[r] \in Tickers
      BY <2>3 DEF Retry, TickersAreKnown
    <3> QED
      BY <2>1, <2>3, <3>1 DEF Retry
  <2>4. ASSUME NEW w \in Workers, NEW new \in Runs, pc[w] # "idle", FailAndRetry(job[w], new)
        PROVE  ticker'[q] \in Tickers
    <3>1. job[w] \in Runs /\ status[job[w]] # "absent" /\ ticker[job[w]] \in Tickers
      BY <2>4, Facts DEF TickersAreKnown
    <3> QED
      BY <1>2, <2>4, <3>1, Facts DEF FailAndRetry
  <2>5. ASSUME NEW r \in Runs, status[r] # "absent",
               \A p \in Runs \ {r} : status'[p] = status[p]
        PROVE  FALSE
    BY <1>2, <2>5
  <2>6. ASSUME NEW r \in Runs, Cancel(r) \/ Delete(r) \/ SettleData(r) \/ AdmitOne(r)
        PROVE  FALSE
    BY <2>5, <2>6, Facts, StagesAreNew
    DEF Cancel, Delete, SettleData, AdmitOne, Pending, TERMINAL_STATUSES, Final, Executing, Missing
  <2>7. ASSUME NEW w \in Workers, NEW r \in Runs, Claim(w, r) PROVE FALSE
    BY <2>5, <2>7, Facts DEF Claim
  <2>8. ASSUME NEW w \in Workers, PersistRunnerEvent(w) PROVE FALSE
    <3>1. pc[w] # "idle"
      BY <2>8 DEF PersistRunnerEvent, Supervising
    <3> QED
      BY <1>2, <2>5, <2>8, <3>1, Facts DEF PersistRunnerEvent
  <2>9. ASSUME NEW w \in Workers, Finalize(w) PROVE ticker'[q] \in Tickers
    <3>1. /\ pc[w] # "idle" /\ job[w] \in Runs /\ status[job[w]] # "absent"
      BY <2>9, Facts DEF Finalize, FinalizeCancelled, FinalizeSuccess, FinalizeFailure
    <3>2. ASSUME NEW final, Settle(job[w], final) PROVE FALSE
      BY <2>5, <3>1, <3>2, Facts DEF Settle
    <3>3. ~UNCHANGED <<runVars, leaseVars>>
      BY <1>2 DEF runVars
    <3> QED
      BY <2>4, <2>9, <3>1, <3>2, <3>3
      DEF Finalize, FinalizeCancelled, FinalizeSuccess, FinalizeFailure
  <2>10. ASSUME NEW w \in Workers, RecoverStaleLeases(w) PROVE FALSE
    BY <1>2, <2>10 DEF RecoverStaleLeases, Exists, Missing
  <2>11. ~UNCHANGED status
    BY <1>2
  <2>12. CASE UNCHANGED vars
    BY <2>11, <2>12 DEF vars, runVars
  <2>13. CASE Next
    BY <2>2, <2>3, <2>6, <2>7, <2>8, <2>9, <2>10, <2>11, <2>13, NextCases
    DEF LeaseExpires, RunnerExits, Launch, SetChildIdentity, Heartbeat, PollCancel, KillRunner,
        RunnerEnded, ReadCancelRequested, Abandon, runVars, Finalize
  <2> QED
    BY <2>12, <2>13
<1> QED
  BY <1>1, <1>2

LEMMA StepImplemented ==
    ASSUME IInv, TickersAreKnown, [Next]_vars
    PROVE  Implemented
<1>1. CASE UNCHANGED vars
  BY <1>1, OthersImplemented
<1>2. CASE Next
  BY <1>2, NextCases, ApiImplemented, AdmissionImplemented, WorkImplemented,
     FinalizationImplemented, OthersImplemented, RecoveryImplemented
  DEF ApiStep, Finalize
<1> QED
  BY <1>1, <1>2

\* Admission, execution by workers, failures and recovery together keep the promise
\* about tickers and about the limit: of whatever the platform does, the schedule sees
\* a step of its own or nothing.
THEOREM Refinement == Spec => ImplementsSchedule
<1>1. Init => Schedule!Init
  BY DEF Init, Schedule!Init, PhaseOf
<1>2. IInv /\ TickersAreKnown /\ [Next]_vars => TickersAreKnown'
  BY TickersStep
<1>3. IInv /\ TickersAreKnown /\ [Next]_vars =>
          [Schedule!Next]_<<[r \in Runs |-> PhaseOf(r)], ticker>>
  BY StepImplemented DEF Implemented, Map
<1> QED
  BY <1>1, <1>2, <1>3, TickersInit, Invariance, PTL DEF Spec, ImplementsSchedule, Schedule!Spec

=============================================================================
