---------------------------- MODULE RunExecution ----------------------------
(***************************************************************************)
(* Execution of assessment runs: the API (submit, cancel, retry, delete),  *)
(* the data gate, the scheduler's admission, the pool of workers with the  *)
(* runner process each of them supervises, and the lease recovery every    *)
(* idle worker performs.                                                   *)
(*                                                                         *)
(* One action is one database transaction (a `session.begin()` block): the *)
(* rows it decides on are locked, so transactions are atomic.  What the    *)
(* code does between two transactions of the same coroutine is the pc of   *)
(* the worker, and everything another process does may happen there.       *)
(***************************************************************************)
EXTENDS RunStatus, FiniteSets

CONSTANTS
    Runs,             \* assessment_runs rows that may ever exist
    Tickers,          \* canonical tickers
    Workers,          \* worker service instances
    MaxRunning,       \* policy.max_running_total
    MaxAutoRetries,   \* alpha_vantage_auto_retry_attempts
    PidReuse,         \* may an exited runner's pid be seen in /proc again?
    MaxAttempts,      \* bound: leases stop expiring in this attempt of a run
    MaxEvents,        \* bound: events one runner process emits
    None              \* no ticker, no worker, no run, no process

ASSUME ConstantsAssumption ==
    /\ MaxRunning \in Nat \ {0}
    /\ MaxAutoRetries \in Nat
    /\ PidReuse \in BOOLEAN
    /\ MaxAttempts \in Nat \ {0}
    /\ MaxEvents \in Nat
    /\ None \notin Runs \cup Workers \cup Tickers

VARIABLES
    status,     \* assessment_runs.status
    attempt,    \* assessment_runs.attempt
    ticker,     \* canonical ticker of the run's request
    retryOf,    \* assessment_runs.retry_of_run_id
    durable,    \* runner events stored for the run's current attempt
    owner,      \* worker_leases.worker_id, None when the run has no lease row
    pid,        \* worker_leases.child_pid, None while it is NULL
    expired,    \* worker_leases.lease_expires_at < now
    pc,         \* what the worker's run_once is about to do
    job,        \* claim.run_id
    epoch,      \* attempt of the run when the worker claimed it
    sequence,   \* RunnerProtocol.expected_sequence - 1
    outcome,    \* what the runner has told: saw_result, then failure_code
    alive,      \* runner processes that exist
    parked      \* history: runs that were ever needs_attention with a lease

runVars    == <<status, attempt, ticker, retryOf, durable>>
leaseVars  == <<owner, pid, expired>>
workerVars == <<pc, job, epoch, sequence, outcome>>
vars       == <<runVars, leaseVars, workerVars, alive, parked>>

\* A runner process, named by who launched it for which attempt of which run.
Process == Workers \X Runs \X Nat
ProcessOf(w) == <<w, job[w], epoch[w]>>

\* Program counters of run_once.  From "exited" on the worker supervises
\* nothing any more: it only has to write the result down.
WorkerStates == {"idle", "claimed", "launched", "reading", "cancelling", "killing",
                 "exited", "finalize", "finalize_cancel"}
Outcomes == {"none", "result", "vendor_error", "error"}

Exists(r)  == status[r] \notin Missing
Active(r)  == status[r] \in ACTIVE_RUN_STATUSES
Leased(r)  == owner[r] # None
ActiveRuns == {r \in Runs : Active(r)}

Supervising(w) == pc[w] \in {"reading", "cancelling"}

TypeOK ==
    /\ status \in [Runs -> Stored \cup Missing]
    /\ attempt \in [Runs -> Nat]
    /\ ticker \in [Runs -> Tickers \cup {None}]
    /\ retryOf \in [Runs -> Runs \cup {None}]
    /\ durable \in [Runs -> Nat]
    /\ owner \in [Runs -> Workers \cup {None}]
    /\ pid \in [Runs -> Process \cup {None}]
    /\ expired \in [Runs -> BOOLEAN]
    /\ pc \in [Workers -> WorkerStates]
    /\ job \in [Workers -> Runs \cup {None}]
    /\ epoch \in [Workers -> Nat]
    /\ sequence \in [Workers -> Nat]
    /\ outcome \in [Workers -> Outcomes]
    /\ alive \subseteq Process
    /\ parked \subseteq Runs

Init ==
    /\ status = [r \in Runs |-> "absent"]
    /\ attempt = [r \in Runs |-> 0]
    /\ ticker = [r \in Runs |-> None]
    /\ retryOf = [r \in Runs |-> None]
    /\ durable = [r \in Runs |-> 0]
    /\ owner = [r \in Runs |-> None]
    /\ pid = [r \in Runs |-> None]
    /\ expired = [r \in Runs |-> FALSE]
    /\ pc = [w \in Workers |-> "idle"]
    /\ job = [w \in Workers |-> None]
    /\ epoch = [w \in Workers |-> 0]
    /\ sequence = [w \in Workers |-> 0]
    /\ outcome = [w \in Workers |-> "none"]
    /\ alive = {}
    /\ parked = {}

-----------------------------------------------------------------------------
(* The API and the data gate.                                              *)

\* create_request_and_run / create_retry: a new row, queued or gated on data.
CreateRun(r, t, source, nth, initial) ==
    /\ status[r] = "absent"
    /\ status' = [status EXCEPT ![r] = initial]
    /\ attempt' = [attempt EXCEPT ![r] = nth]
    /\ ticker' = [ticker EXCEPT ![r] = t]
    /\ retryOf' = [retryOf EXCEPT ![r] = source]
    /\ durable' = [durable EXCEPT ![r] = 0]

Submit(r, t) ==
    /\ \E initial \in Pending : CreateRun(r, t, None, 1, initial)
    /\ UNCHANGED <<leaseVars, workerVars, alive, parked>>

RetryUnfinished(r, new) ==
    /\ Exists(r)
    /\ \E initial \in Pending : CreateRun(new, ticker[r], r, attempt[r] + 1, initial)
    /\ UNCHANGED <<leaseVars, workerVars, alive, parked>>

\* The user asks again for a run that failed, was cancelled or was parked.
\* Without a pinned manifest the new run passes the data gate again.
Retry(r, new) ==
    /\ status[r] \in {"failed", "cancelled", "needs_attention"}
    /\ \E initial \in Pending : CreateRun(new, ticker[r], r, attempt[r] + 1, initial)
    /\ UNCHANGED <<leaseVars, workerVars, alive, parked>>

\* A request to cancel: immediate for a run nobody has started on, a request
\* to the worker otherwise, and without effect on a terminal run or when the
\* run is being cancelled already.
Cancel(r) ==
    /\ status[r] \in Pending \cup {"admitted"} \cup Executing
    /\ status' = [status EXCEPT ![r] =
                    IF status[r] \in Pending THEN "cancelled" ELSE "cancel_requested"]
    /\ UNCHANGED <<attempt, ticker, retryOf, durable, leaseVars, workerVars, alive, parked>>

DeleteLeased(r) ==
    /\ status[r] \in TERMINAL_STATUSES
    /\ \A q \in Runs : retryOf[q] = r => ~Exists(q)
    /\ status' = [status EXCEPT ![r] = "deleted"]
    /\ UNCHANGED <<attempt, ticker, retryOf, durable, leaseVars, workerVars, alive, parked>>

\* An administrator deletes a terminal run that no lease and no later run
\* refers to.
Delete(r) ==
    /\ status[r] \in TERMINAL_STATUSES
    /\ ~Leased(r)
    /\ \A q \in Runs : retryOf[q] = r => ~Exists(q)
    /\ status' = [status EXCEPT ![r] = "deleted"]
    /\ UNCHANGED <<attempt, ticker, retryOf, durable, leaseVars, workerVars, alive, parked>>

\* The data readiness worker settles the gate of a waiting run.
SettleData(r) ==
    /\ status[r] = "waiting_for_data"
    /\ \E result \in {"queued", "failed", "needs_attention"} :
           status' = [status EXCEPT ![r] = result]
    /\ UNCHANGED <<attempt, ticker, retryOf, durable, leaseVars, workerVars, alive, parked>>

-----------------------------------------------------------------------------
(* The scheduler.                                                          *)

AdmitSameTicker(r) ==
    /\ status[r] = "queued"
    /\ Cardinality(ActiveRuns) < MaxRunning
    /\ status' = [status EXCEPT ![r] = "admitted"]
    /\ UNCHANGED <<attempt, ticker, retryOf, durable, leaseVars, workerVars, alive, parked>>

\* admit_one: a queued run whose ticker has no active run, below the limit.
\* Candidates are visited in order of creation, but a row another transaction
\* has locked is skipped, so any of them may be the one that is admitted.
AdmitOne(r) ==
    /\ status[r] = "queued"
    /\ \A q \in ActiveRuns : ticker[q] # ticker[r]
    /\ Cardinality(ActiveRuns) < MaxRunning
    /\ status' = [status EXCEPT ![r] = "admitted"]
    /\ UNCHANGED <<attempt, ticker, retryOf, durable, leaseVars, workerVars, alive, parked>>

-----------------------------------------------------------------------------
(* A worker executing a run: WorkerService.run_once.                       *)

Goto(w, state) == pc' = [pc EXCEPT ![w] = state]

\* run_once returns, normally or by an exception: nothing of it survives.
Forget(w) ==
    /\ Goto(w, "idle")
    /\ job' = [job EXCEPT ![w] = None]
    /\ epoch' = [epoch EXCEPT ![w] = 0]
    /\ sequence' = [sequence EXCEPT ![w] = 0]
    /\ outcome' = [outcome EXCEPT ![w] = "none"]

ClaimFirstAttempt(w, r) ==
    /\ pc[w] = "idle"
    /\ status[r] = "admitted" /\ attempt[r] = 1
    /\ ~Leased(r)
    /\ status' = [status EXCEPT ![r] = "starting"]
    /\ owner' = [owner EXCEPT ![r] = w]
    /\ Goto(w, "claimed")
    /\ job' = [job EXCEPT ![w] = r]
    /\ epoch' = [epoch EXCEPT ![w] = attempt[r]]
    /\ UNCHANGED <<attempt, ticker, retryOf, durable, pid, expired, sequence, outcome,
                   alive, parked>>

\* An admitted run starts under a lease of its own.  The oldest one whose row
\* is not locked is taken; worker_leases.run_id is unique.
Claim(w, r) ==
    /\ pc[w] = "idle"
    /\ status[r] = "admitted"
    /\ ~Leased(r)
    /\ status' = [status EXCEPT ![r] = "starting"]
    /\ owner' = [owner EXCEPT ![r] = w]
    /\ Goto(w, "claimed")
    /\ job' = [job EXCEPT ![w] = r]
    /\ epoch' = [epoch EXCEPT ![w] = attempt[r]]
    /\ UNCHANGED <<attempt, ticker, retryOf, durable, pid, expired, sequence, outcome,
                   alive, parked>>

\* ProcessController.launch: the runner exists before any row says so.
Launch(w) ==
    /\ pc[w] = "claimed"
    /\ Goto(w, "launched")
    /\ alive' = alive \cup {ProcessOf(w)}
    /\ UNCHANGED <<runVars, leaseVars, job, epoch, sequence, outcome, parked>>

\* set_child_identity looks the lease up by run alone: it may be the lease of
\* another worker by now.  Without any lease the worker gives up.
SetChildIdentity(w) ==
    /\ pc[w] = "launched"
    /\ IF Leased(job[w])
       THEN /\ pid' = [pid EXCEPT ![job[w]] = ProcessOf(w)]
            /\ Goto(w, "reading")
            /\ UNCHANGED <<job, epoch, sequence, outcome>>
       ELSE /\ Forget(w)
            /\ UNCHANGED pid
    /\ UNCHANGED <<runVars, owner, expired, alive, parked>>

\* Every ten seconds, while it reads the runner's output.
Heartbeat(w) ==
    /\ Supervising(w)
    /\ IF owner[job[w]] = w
       THEN /\ expired' = [expired EXCEPT ![job[w]] = FALSE]
            /\ UNCHANGED workerVars
       ELSE /\ Forget(w)
            /\ UNCHANGED expired
    /\ UNCHANGED <<runVars, owner, pid, alive, parked>>

\* The cancellation poll: a task that signals the runner is started once.
PollCancel(w) ==
    /\ pc[w] = "reading"
    /\ status[job[w]] \in CancelPending
    /\ Goto(w, "cancelling")
    /\ UNCHANGED <<runVars, leaseVars, job, epoch, sequence, outcome, alive, parked>>

\* CancellationController.cancel: SIGTERM, then SIGKILL, to that very process.
KillRunner(w) ==
    /\ pc[w] \in {"cancelling", "killing"}
    /\ ProcessOf(w) \in alive
    /\ alive' = alive \ {ProcessOf(w)}
    /\ UNCHANGED <<runVars, leaseVars, workerVars, parked>>

\* Events of a runner: a stage event with that status, "finalizing" for the
\* result event, and error events by the class of the error they report.
Errors == {"vendor_error", "error"}
Events == Stages \cup {"finalizing"} \cup Errors

ToldStatus(event) == event

\* What a worker has been told by an event that is not about a stage.
Told(event) == IF event = "finalizing" THEN "result" ELSE event

AcceptsAnyStage(w, event) == sequence[w] = durable[job[w]]

\* Would persist_runner_event accept the worker's next event?
Accepts(w, event) ==
    LET r == job[w] IN
    /\ sequence[w] = durable[r]
    /\ \/ status[r] \in CancelPending
       \/ event \in Errors
       \/ event \in Stages /\ event = status[r]
       \/ Allowed(status[r], event)

\* Only stage and result events move a run, and none moves a run that is being
\* cancelled.
After(current, event) ==
    IF current \in CancelPending \/ event \in Errors THEN current ELSE event

\* The worker reads one event of the runner and stores it, also while the run
\* is being cancelled (then without moving the run).  The runner may have
\* exited meanwhile: its output is still in the pipe.
PersistRunnerEvent(w) ==
    /\ Supervising(w)
    /\ outcome[w] = "none"
    /\ sequence[w] < MaxEvents
    /\ \E event \in Events :
          \/ /\ Exists(job[w])
             /\ Accepts(w, event)
             /\ durable' = [durable EXCEPT ![job[w]] = @ + 1]
             /\ status' = [status EXCEPT ![job[w]] = After(@, event)]
             /\ sequence' = [sequence EXCEPT ![w] = @ + 1]
             /\ outcome' = [outcome EXCEPT ![w] = IF event \in Stages THEN @ ELSE Told(event)]
             /\ UNCHANGED <<pc, job, epoch>>
          \/ /\ Exists(job[w])
             /\ ~Accepts(w, event)
             /\ Goto(w, "killing")
             /\ outcome' = [outcome EXCEPT ![w] = "error"]
             /\ UNCHANGED <<status, durable, job, epoch, sequence>>
          \/ /\ ~Exists(job[w])
             /\ Forget(w)
             /\ UNCHANGED <<status, durable>>
    /\ UNCHANGED <<attempt, ticker, retryOf, leaseVars, alive, parked>>

\* End of output and wait(): the exit status, and whether a result was seen.
\* The protocol state is of no use from here on.
RunnerEnded(w) ==
    /\ Supervising(w) \/ pc[w] = "killing"
    /\ ProcessOf(w) \notin alive
    /\ \E code \in Outcomes \ {"none"} :
          /\ code = outcome[w] \/ (code = "error" /\ outcome[w] \in {"none", "result"})
          /\ outcome' = [outcome EXCEPT ![w] = code]
    /\ Goto(w, "exited")
    /\ sequence' = [sequence EXCEPT ![w] = 0]
    /\ UNCHANGED <<runVars, leaseVars, job, epoch, alive, parked>>

\* The separate read of the status that decides how to finalize.
ReadCancelRequested(w) ==
    /\ pc[w] = "exited"
    /\ Goto(w, IF status[job[w]] \in CancelPending THEN "finalize_cancel" ELSE "finalize")
    /\ UNCHANGED <<runVars, leaseVars, job, epoch, sequence, outcome, alive, parked>>

-----------------------------------------------------------------------------
(* Finalization.  None of it asks whose lease the run is under.            *)

KeepLease(r) == UNCHANGED leaseVars

ReleaseLease(r) ==
    /\ owner' = [owner EXCEPT ![r] = None]
    /\ pid' = [pid EXCEPT ![r] = None]
    /\ expired' = [expired EXCEPT ![r] = FALSE]

Settle(r, final) ==
    /\ status' = [status EXCEPT ![r] = final]
    /\ ReleaseLease(r)
    /\ UNCHANGED <<attempt, ticker, retryOf, durable>>

\* finalize_cancelled passes through cancelling inside its transaction.
FinalizeCancelled(w) ==
    /\ pc[w] = "finalize_cancel"
    /\ IF status[job[w]] \in CancelPending
       THEN Settle(job[w], "cancelled")
       ELSE UNCHANGED <<runVars, leaseVars>>
    /\ Forget(w)
    /\ UNCHANGED <<alive, parked>>

SucceedUnchecked(w) ==
    /\ pc[w] = "finalize"
    /\ outcome[w] = "result"
    /\ Settle(job[w], "succeeded")
    /\ Forget(w)
    /\ UNCHANGED <<alive, parked>>

FinalizeSuccess(w) ==
    /\ pc[w] = "finalize"
    /\ outcome[w] = "result"
    /\ IF status[job[w]] = "finalizing"
       THEN Settle(job[w], "succeeded")
       ELSE UNCHANGED <<runVars, leaseVars>>
    /\ Forget(w)
    /\ UNCHANGED <<alive, parked>>

\* schedule_automatic_retry, in the transaction that fails the run: only for a
\* vendor error, up to the configured number, and once per run.
RetryDue(w) ==
    /\ outcome[w] = "vendor_error"
    /\ attempt[job[w]] <= MaxAutoRetries
    /\ \A q \in Runs : retryOf[q] = job[w] => ~Exists(q)

RequeueFailed(r, new) ==
    /\ status' = [status EXCEPT ![r] = "queued"]
    /\ attempt' = [attempt EXCEPT ![r] = @ + 1]
    /\ durable' = [durable EXCEPT ![r] = 0]
    /\ UNCHANGED <<ticker, retryOf>>
    /\ ReleaseLease(r)

FailAndRetry(r, new) ==
    /\ status[new] = "absent"
    /\ status' = [status EXCEPT ![r] = "failed", ![new] = "queued"]
    /\ attempt' = [attempt EXCEPT ![new] = attempt[r] + 1]
    /\ ticker' = [ticker EXCEPT ![new] = ticker[r]]
    /\ retryOf' = [retryOf EXCEPT ![new] = r]
    /\ durable' = [durable EXCEPT ![new] = 0]
    /\ ReleaseLease(r)

\* Bound: no retry is created once every row of Runs is in use.
FinalizeFailure(w) ==
    /\ pc[w] = "finalize"
    /\ outcome[w] # "result"
    /\ \/ /\ status[job[w]] \in CancelPending
          /\ Settle(job[w], "cancelled")
       \/ /\ Allowed(status[job[w]], "failed")
          /\ RetryDue(w)
          /\ \E new \in Runs : FailAndRetry(job[w], new)
       \/ /\ Allowed(status[job[w]], "failed")
          /\ ~RetryDue(w) \/ \A q \in Runs : status[q] # "absent"
          /\ Settle(job[w], "failed")
       \/ /\ status[job[w]] \notin CancelPending
          /\ ~Allowed(status[job[w]], "failed")
          /\ UNCHANGED <<runVars, leaseVars>>
    /\ Forget(w)
    /\ UNCHANGED <<alive, parked>>

\* An exception leaves run_once (the database or the archive fails, a file is
\* unreadable) or the service dies and systemd starts it again: the worker
\* polls for work as before, its runner and its lease are left to themselves.
Abandon(w) ==
    /\ pc[w] # "idle"
    /\ Forget(w)
    /\ UNCHANGED <<runVars, leaseVars, alive, parked>>

-----------------------------------------------------------------------------
(* Time, processes and recovery.                                           *)

\* A runner exits or crashes, or is killed with its worker's control group.
RunnerExits(p) ==
    /\ p \in alive
    /\ alive' = alive \ {p}
    /\ UNCHANGED <<runVars, leaseVars, workerVars, parked>>

\* Sixty seconds pass without a heartbeat of the lease's worker: it is gone,
\* waiting for something else, or slow.
LeaseExpires(r) ==
    /\ Leased(r)
    /\ ~expired[r]
    /\ attempt[r] < MaxAttempts
    /\ expired' = [expired EXCEPT ![r] = TRUE]
    /\ UNCHANGED <<runVars, owner, pid, workerVars, alive, parked>>

StaleWithChild == {r \in Runs : Leased(r) /\ expired[r] /\ pid[r] # None}

Stale == {r \in Runs : Leased(r) /\ expired[r]}

\* Runs whose recorded runner still has a /proc entry.
ProcessSeen(r) == pid[r] \in alive

SameAttempt(r) == attempt[r]

NextAttempt(r) == attempt[r] + 1

\* recover_stale_leases, by a worker that found nothing to claim, over the
\* stale leases that are not locked (S).  A run whose recorded process seems
\* to exist is parked and keeps its lease; every other run goes back to
\* admitted for a new attempt, whatever its status was.
RecoverStaleLeases(w) ==
    /\ pc[w] = "idle"
    /\ \E S \in (SUBSET Stale) \ {{}} :
       \E seen \in SUBSET {r \in S : Exists(r) /\ pid[r] # None} :
          LET reclaimed == S \ seen
              requeued  == {r \in reclaimed : Exists(r)} IN
          /\ \A r \in S : Exists(r) /\ ProcessSeen(r) => r \in seen
          /\ PidReuse \/ \A r \in seen : ProcessSeen(r)
          /\ status' = [r \in Runs |-> IF r \in seen THEN "needs_attention"
                                       ELSE IF r \in requeued THEN "admitted" ELSE status[r]]
          /\ attempt' = [r \in Runs |-> IF r \in requeued THEN NextAttempt(r) ELSE attempt[r]]
          /\ durable' = [r \in Runs |-> IF r \in requeued THEN 0 ELSE durable[r]]
          /\ owner' = [r \in Runs |-> IF r \in reclaimed THEN None ELSE owner[r]]
          /\ pid' = [r \in Runs |-> IF r \in reclaimed THEN None ELSE pid[r]]
          /\ expired' = [r \in Runs |-> expired[r] /\ r \notin reclaimed]
          /\ parked' = parked \cup seen
    /\ UNCHANGED <<ticker, retryOf, workerVars, alive>>

-----------------------------------------------------------------------------

ApiStep ==
    \/ \E r \in Runs, t \in Tickers : Submit(r, t)
    \/ \E r, new \in Runs : Retry(r, new)
    \/ \E r \in Runs : Cancel(r) \/ Delete(r)

Finalize(w) == FinalizeCancelled(w) \/ FinalizeSuccess(w) \/ FinalizeFailure(w)

\* What run_once does next when nothing goes wrong around it.
RunOnce(w) ==
    \/ Launch(w) \/ SetChildIdentity(w)
    \/ PersistRunnerEvent(w) \/ Heartbeat(w) \/ PollCancel(w) \/ KillRunner(w)
    \/ RunnerEnded(w) \/ ReadCancelRequested(w) \/ Finalize(w)

WorkerStep(w) ==
    \/ \E r \in Runs : Claim(w, r)
    \/ RunOnce(w)
    \/ Abandon(w)
    \/ RecoverStaleLeases(w)

Next ==
    \/ ApiStep
    \/ \E r \in Runs : SettleData(r) \/ AdmitOne(r) \/ LeaseExpires(r)
    \/ \E p \in alive : RunnerExits(p)
    \/ \E w \in Workers : WorkerStep(w)

Spec == Init /\ [][Next]_vars

-----------------------------------------------------------------------------
(* Safety.                                                                 *)

\* A run that executes is under a lease, and a lease row belongs to a run that
\* executes, that its worker has to cancel, or that recovery has parked: the
\* rows of two tables that six transactions of four processes write.
LeaseMatchesStatus ==
    \A r \in Runs :
        /\ status[r] \in Executing => Leased(r)
        /\ Leased(r) => status[r] \in Executing \cup {"cancel_requested", "needs_attention"}
        /\ Leased(r) /\ status[r] = "needs_attention" => r \in parked
        /\ ~Leased(r) => pid[r] = None /\ ~expired[r]

\* One attempt of a run is executed by one worker and by one runner process,
\* although claims, lease recovery and abandoned runners interleave freely and
\* workers write to runs without asking whose lease they are under.
OneRunnerPerAttempt ==
    /\ \A v, w \in Workers :
          pc[v] # "idle" /\ job[v] = job[w] /\ epoch[v] = epoch[w] => v = w
    /\ \A p, q \in alive : p[2] = q[2] /\ p[3] = q[3] => p = q

\* Two runs of one ticker are active together only if recovery parked one of
\* them: parking takes a run out of ACTIVE_RUN_STATUSES while it holds its
\* lease, and resuming it does not pass through admit_one.
ExclusionUnlessParked ==
    \A q, r \in ActiveRuns : q # r /\ ticker[q] = ticker[r] => q \in parked \/ r \in parked

\* A run is retried after it has ended, whether a user or the failing worker
\* creates the retry, and outlives neither its end nor its row: the retried
\* run exists and stays ended (unless it was parked, see above).
RetryFollowsEnd ==
    \A q \in Runs :
        Exists(q) /\ retryOf[q] # None =>
            \/ status[retryOf[q]] \in {"failed", "cancelled", "needs_attention"}
            \/ retryOf[q] \in parked

\* A run advances only by the events stored for its current attempt, one stage
\* at a time: whichever worker stored them, a run that is at stage i has at least
\* i of them (the event of the stage it is at is stored again when it comes again),
\* and a run that succeeds has at least one for every stage and the result.
ProgressIsRecorded ==
    \A r \in Runs :
        /\ \A i \in DOMAIN Pipeline : status[r] = Pipeline[i] => durable[r] >= i
        /\ status[r] \in {"finalizing", "succeeded"} => durable[r] > Len(Pipeline)

\* The end of a run is final: no late event, late cancellation, finalization by
\* a worker that lost its lease, or recovery writes it again.
FinalIsFinal ==
    [][\A r \in Runs : status[r] \in Final => status'[r] \in {status[r], "deleted"}]_vars

\* README: "Queue-aware concurrency from 1 to 32 assessments, with per-ticker
\* exclusion."  A run that recovery parked and then resumes breaks it.
TickerExclusion == \A q, r \in ActiveRuns : ticker[q] = ticker[r] => q = r

\* Every move of a stored run is one assert_transition allows, with three
\* exceptions: recovery of a run whose lease has expired, cancellation of a run
\* by its worker (it passes through cancelling inside one transaction), and
\* deletion.
MovesFollowTable ==
    [][\A r \in Runs :
        status[r] \in Stored /\ status'[r] # status[r] =>
            \/ Allowed(status[r], status'[r])
            \/ expired[r] /\ status'[r] \in {"admitted", "needs_attention"}
            \/ status[r] \in TERMINAL_STATUSES /\ status'[r] = "deleted"]_vars

-----------------------------------------------------------------------------
(* Liveness.  What is assumed: a worker whose transactions commit gets on    *)
(* with its run, an idle one polls every two seconds (claims, and recovers   *)
(* stale leases when there is nothing to claim), runner processes end, and a *)
(* lease nobody renews expires.  Nothing is assumed of users, of the data    *)
(* gate, of admission, or of faults not happening.                           *)

GetsOn(w) == \/ Launch(w) \/ SetChildIdentity(w) \/ RunnerEnded(w)
             \/ ReadCancelRequested(w) \/ Finalize(w)

\* No worker works on the lease any more, so no heartbeat renews it.
Orphaned(r) == Leased(r) /\ \A w \in Workers : ~(owner[r] = w /\ job[w] = r)

Fairness ==
    /\ \A w \in Workers : WF_vars(GetsOn(w)) /\ WF_vars(RecoverStaleLeases(w))
                          /\ WF_vars(\E r \in Runs : Claim(w, r))
    /\ \A r \in Runs : WF_vars(Orphaned(r) /\ LeaseExpires(r))
    /\ \A p \in Workers \X Runs \X (1 .. MaxAttempts) : WF_vars(RunnerExits(p))

FairSpec == Spec /\ Fairness

\* Every attempt ends, whatever goes wrong in it: its worker settles the run or
\* recovery takes the run from it.  (In attempt MaxAttempts the bound keeps
\* leases from expiring.)
AttemptEnds ==
    \A r \in Runs : \A a \in 1 .. (MaxAttempts - 1) :
        (Leased(r) /\ attempt[r] = a) ~> ~(Leased(r) /\ attempt[r] = a)

\* An admitted run does not wait forever for a worker, also when it was admitted
\* by recovery.
AdmittedIsTaken ==
    \A r \in Runs : (status[r] = "admitted") ~> (status[r] # "admitted")

\* No run is stuck in an attempt, or before its first one.
AttemptsGoOn == AttemptEnds /\ AdmittedIsTaken

\* What submitters are told of a cancellation: that it is requested, hence that
\* it takes place.  It does not for a run that was admitted but not claimed.
CancelSettles ==
    \A r \in Runs : (status[r] = "cancel_requested") ~> (status[r] # "cancel_requested")

-----------------------------------------------------------------------------
(* The same behaviours as TickerSchedule sees them.                        *)

PhaseOf(r) ==
    IF status[r] = "absent" THEN "none"
    ELSE IF status[r] = "deleted" THEN "removed"
    ELSE IF status[r] \in Pending THEN "pending"
    ELSE IF Active(r) THEN "active"
    ELSE IF Leased(r) THEN "parked" ELSE "done"

Schedule == INSTANCE TickerSchedule WITH
    Jobs <- Runs, Symbols <- Tickers, Limit <- MaxRunning, NoSymbol <- None,
    phase <- [r \in Runs |-> PhaseOf(r)], symbol <- ticker

\* The scheduler, the workers and recovery together keep the promise about
\* tickers, with no step that TickerSchedule does not allow.
ImplementsSchedule == Schedule!Spec

=============================================================================
