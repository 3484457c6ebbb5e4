# MarketQuorum: a formal model of the platform

MarketQuorum accepts requests to assess a stock or a fund, waits for the data,
runs a multi-agent analysis in a process of its own, and later compares the
decision with what the market did. It is a set of processes that share one MySQL
database and two local services (the Codex gateway and the Alpha Vantage broker).
Nearly all of what can go wrong in it is a matter of order: rows that four
processes write, leases that expire while their holder still works, coroutines
that resume in a world that has changed, scripts that stop half-way, facts that
were true on another day.

This directory holds TLA+ modules that model those parts, TLC configurations
that check them on small instances, and TLAPS proofs for every size of them.
`PROJECT.json` maps every definition to the lines it models and lists runs,
mutants, hazards, findings and theorems.

In this text `P` stands for `src/platform/src/tradingng_platform` and `G` for
`src/gateway/src/codex_gateway`.

## 1. Inventory of the system

The systemd units (`src/systemd/user`) run: the API (with MCP) behind Caddy, one
scheduler, several workers (`worker@`), one data-readiness reconciler, one
validation worker, the Alpha Vantage broker, the Codex gateway, and the
containers (MySQL, Keycloak). All restart on exit (`Restart=always`). No unit
starts the webhook worker. Operators run three scripts by hand (`src/scripts`).

| Component | State it keeps | Operations | Talks to |
|---|---|---|---|
| API: assessments (`P/assessments`) | runs, requests, batches, events | submit, cancel, retry, delete, clean reassessment | database; StockLean at submission |
| Scheduler (`P/scheduler`) | admission lock, circuit breakers | `admit_one`, gateway samples, name enrichment | database; gateway status; memory and load probes; SEC |
| Worker (`P/worker`) | leases, the run it executes | claim, launch, heartbeat, store events, finalize, recover stale leases | database; its runner process by a pipe and signals |
| Runner (`P/runner`) | a checkpoint, evidence, a health file, a verdict | the analysis under point-in-time guards: stages, result or error | its worker; gateway; vendors |
| Data readiness (`P/data_readiness`) | data requirements under a lease | claim, ask StockLean, apply the answer | database; StockLean |
| Validation (`P/validation`) | validations and price bases under leases | schedule, claim, complete, retry, fail; calculate outcomes | database; price providers |
| Circuit breakers (`P/scheduler/circuits.py`) | a row per dependency | samples, blockers, probes | written by scheduler and workers, read by admission |
| Alpha Vantage broker (`P/vendors`) | pending fetches, quota coordinator, cache | query | Alpha Vantage; all runners |
| Codex gateway (`G`) | one app-server process, turns | start, stop, restart, complete | the app-server; runners |
| Webhooks (`P/webhooks`) | deliveries under a claim | enqueue, claim, send, complete, recover | database; endpoints |
| Identity (`P/identity`) | users and roles, mirrored from Keycloak | provision, list, open, create, change | Keycloak; database |
| Instrument names (`P/instruments/names.py`) | names, their resolution and history, a cache on disk | due, resolve, mark | SEC EDGAR; scheduler and backfill |
| Integrity (`P/integrity`, `P/memory`) | verdicts, clean reassessments, memory snapshots | audit, reassess, select a memory | artifacts of runs; database |
| Scripts (`src/scripts`) | state files, the realm of Keycloak | sequential batch, monthly audit, realm synchronisation | the API; Keycloak; database |
| Others | | retention, model routing, records, authentication, MCP, web console, migrations | see `components` in PROJECT.json |

### Hard behaviours, and what makes each component correct

* **Run execution.** A worker reads the runner's pipe without a transaction, its
  lease expires after sixty seconds without a heartbeat, and finalization does
  not ask whose lease the run is under. Recovery returns a run to `admitted`, or
  parks it as `needs_attention` when a process with the recorded id exists, and
  never consults the table of transitions. A user may cancel, retry or delete at
  any moment. Correct means: an attempt is executed once, an end is final, leases
  and statuses agree, tickers exclude each other, every attempt ends.
* **Data gate.** Cancellation locks the run and then its requirement, the
  reconciler the requirement and then the run. Answers come when their claim is
  long lost. Correct means: run and requirement agree, a late answer is dropped,
  a manifest that the reconciler lets through was verified, every waiting run is decided.
* **Validation.** Prices are fetched outside of any transaction under a
  lease that is never renewed, and settlement does not ask for the owner;
  providers report prices in two conventions, and splits fall anywhere. Correct
  means: a stored result is final but for its direction, which a new release may
  judge again, what it was computed from is on record, every row gets its turn, and
  the outcome is what the market did.
* **Circuit breakers.** Samples are applied when a run ends, hours after they
  were taken. Correct means: one probe at a time, escalation that starts anew
  after a recovery, and a pause that ends.
* **Broker.** Callers share a fetch, and fetches share a dispatcher that sleeps.
  Correct means: one fetch per key, exact books, no lost wake-up.
* **Gateway.** Exits, restarts, stop and timeouts overlap at every await. Correct
  means: one server, no caller stranded, a stop that is quiet, an exit that is
  made good.
* **Webhooks.** A claim runs out while the endpoint answers, and the process may die
  between the answer and its record. Correct means: a row that counts as delivered
  was accepted in that attempt, and every event is settled.
* **Identity.** A change is a series of Keycloak calls inside a transaction, reads of
  Keycloak are stale when they are written, and two administrators may act at once.
  Correct means: an administrator remains, rows follow Keycloak, nobody waits for
  ever.
* **Names.** Two processes look at one instrument and write what they have read
  before the other wrote. Correct means: a name of SEC is never lost, and a new one
  is caught.
* **Integrity and memory.** The routes of vendors are patched in nested contexts
  around an analysis that may cross midnight and be resumed by another attempt;
  memory is built from runs that are audited, reassessed and deleted meanwhile.
  Correct means: guards that hold, verdicts that are founded, no reference that
  dangles, a memory that reaches back only.
* **Scripts.** They stop anywhere and are started again, beside requests they have
  given up. Correct means: nothing is asked for twice or out of order, what is passed
  is proven, nobody loses a role.

The full list, each at its line, is `hazards` in PROJECT.json.

## 2. Modules

| Module | Models | Runs |
|---|---|---|
| `RunStatus` | `domain/runs.py`: statuses, `ALLOWED_TRANSITIONS`, `ACTIVE_RUN_STATUSES` | |
| `TickerSchedule` | abstract specification: what the platform promises about tickers and the limit | |
| `RunExecution` | API operations, data gate (in one step), admission, workers, runners, recovery | `RunExecution*` |
| `DataReadiness` | the data gate in detail | `Services` |
| `ValidationJobs` | validation rows and price bases | `Services` |
| `WebhookDelivery` | deliveries, their claims and attempts | `Services` |
| `CircuitBreakers` | breakers and the admissions they hold back | `Services`, `CircuitBreakersPause` |
| `AlphaVantageBroker` | broker and quota coordinator | `AlphaVantageBroker` |
| `CodexRuntime` | runtime and transport of the gateway | `Upstreams` |
| `InstrumentNames` | both enrichers, the cache, the rows | `Upstreams` |
| `IdentityAdmin` | administration of users against Keycloak | `Operations`, `IdentityLastAdmin` |
| `KeycloakSync` | the synchronisation of the realm | `Operations` |
| `Submission` | idempotent submission of one assessment, and the life of its run | |
| `SequentialBatch`, `MonthlyAudit` | the two batch scripts; both EXTEND `Submission` | `Operations` |
| `PointInTime` | guards, evidence, verdict and audit of one run | `Operations` |
| `IntegrityLedger` | verdicts, memory, reassessment and deletion over many runs | `Operations` |
| `PriceOutcomes` | what a validation calculates | `Operations`, `PriceTargets` |
| `MCRunExecution`, `MCAlphaVantageBroker` | pipelines, keys and symmetry for TLC | |
| `MCServices`, `MCUpstreams`, `MCOperations` | several independent systems in one run | `Services`, `Upstreams`, `Operations` |
| `RunExecutionProofs` | theorems about `RunExecution`, and that it implements `TickerSchedule` | |
| `ValidationJobsProofs`, `WebhookDeliveryProofs`, `AlphaVantageBrokerProofs`, `IntegrityLedgerProofs` | theorems about the module of that name | |
| `UpstreamsProofs` | theorems about `CodexRuntime` and `InstrumentNames`, and that `MCUpstreams` does what each of them does | |
| `ServicesProofs` | theorems about `MCServices`: `DataReadiness`, `CircuitBreakers`, and `ValidationJobs` and `WebhookDelivery` by instances of their proofs | |
| `OperationsProofs` | theorems about `MCOperations`: `IdentityAdmin`, `PointInTime`, `KeycloakSync`, `Submission`, `SequentialBatch`, `MonthlyAudit`, `PriceOutcomes`, and `IntegrityLedger` by an instance of `IntegrityLedgerProofs` | |

`RunExecution` EXTENDS `RunStatus` and instantiates `TickerSchedule` under the
mapping `PhaseOf`. Names are those of the source where TLA+ allows it
(`Claim`, `SetChildIdentity`, `RecoverStaleLeases`, `_apply_sample`'s `Close` and
`Reopen`, ...). A definition that stands directly before another one and has its
parameters plus a defect (`SucceedUnchecked` before `FinalizeSuccess`) is a
mutated form, used only to see that the properties notice it.

`MCServices`, `MCUpstreams` and `MCOperations` bring together systems that share no
state. A variable `focus` is chosen at the start and says whose steps are taken, so
that the reachable states are the sum and not the product of those of the systems.
Nothing is lost: a step of one system neither enables nor disables one of another,
and every property speaks of one system. Fairness takes the same form: as only one
system ever moves in a behaviour, one condition of strong fairness may stand for
an action of each (`SF(A \/ B)` with `A` of one system and `B` of another is `SF(A)` in
the behaviours of the first and `SF(B)` in those of the second).

### What is one step

*Database.* A `session.begin()` block is one action. The rows that matter are read
`FOR UPDATE`; where a block reads without a lock and then writes a run, it also
appends an event, and `(run_id, sequence)` is unique (`models/assessments.py:95`),
so a transaction that was overtaken is rolled back. A rollback is `Abandon` for a
worker (the exception leaves `run_once`), and no step for a recovery pass. Four
exceptions are modelled in finer steps because the order of their locks or reads
matters: the claim of a validation (`CountRunning`, then `TakeJob`), the lock
of a requirement against the lock of a run (`Lock`, `Apply`, `CancelLocks`,
`Cancel`), the guarded transactions of `IdentityAdmin` (snapshot, guard, row, every
call to Keycloak, commit), and a submission (`FindBatch`, then `Create`).
`Snapshots = TRUE` is MySQL's REPEATABLE READ, which nothing in the code changes.

*asyncio.* In the broker and the gateway, what a coroutine does between two awaits
that can suspend is one action, and anything else may run at the await.

*Scripts.* A request to the API or to Keycloak and a save of the state file are one
step each, and a script may stop before any of them.

### `RunExecution`

| Variable | Code |
|---|---|
| `status`, `attempt`, `ticker`, `retryOf`, `durable` | `assessment_runs` (and the event sequence that `persist_runner_event` compares) |
| `owner`, `pid`, `expired` | `worker_leases`: worker, child process, and whether the heartbeat is over sixty seconds old |
| `pc`, `job`, `epoch`, `sequence`, `outcome` | local state of `WorkerService.run_once`: the await it is at, the claimed run and its attempt, the protocol state, the result or error seen |
| `alive` | runner processes, named by worker, run and attempt |
| `parked` | history: runs that recovery has parked |

`Submit`, `Retry`, `Cancel`, `Delete` are the API; `SettleData` the gate;
`AdmitOne` the scheduler; `Claim`, `Launch`, `SetChildIdentity`, `Heartbeat`,
`PollCancel`, `KillRunner`, `PersistRunnerEvent`, `RunnerEnded`,
`ReadCancelRequested`, `FinalizeSuccess`, `FinalizeFailure`, `FinalizeCancelled`
are `run_once` from beginning to end; `RecoverStaleLeases` the pass of an idle
worker; `Abandon`, `RunnerExits` and `LeaseExpires` the faults and the clock.
`Abandon` stands both for a crash of the service and for any exception out of
`run_once`; the worker's loop goes on in both cases. A runner may survive its
worker (`Abandon` leaves `alive` alone) or die with it (`RunnerExits`).
`PidReuse` lets a recorded process id be taken by a stranger.

Left out: rows that only describe a run (steps, artifacts, decisions, audit,
configuration versions), the busy/idle column of workers,
reasons that only delay an admission (memory, load, gateway), and changes of
`max_running_total` while the system runs.

### The other modules

*`DataReadiness`*: `status` and `config` (the pinned manifest: none, sound,
damaged) of the runs, `req` (the requirement: status, poll due, lease holder,
lease expired), `poller` (idle, asking, answered, locked), `cancelling` (runs a
cancellation has locked while it waits for the requirement). Every change of a
requirement raises its version, so that "version and owner as claimed" is "still
the holder". A deadlock ends with the rollback of either side: `CancelIsVictim`
or `Crash`. What follows admission is reduced to what it does to the status of the
gate: `End`, and the recovery that parks a run as `needs_attention` (`Park`) and takes
it up again (`Resume`). A run the gate itself has parked has no lease, and recovery
does not find it.

*`ValidationJobs`*: `job`, `basis` (rows with status, due, lease, what a result was
computed from, and whose judgement its direction is) and `worker`.
`RecomputeDirections` judges completed rows again and merges the judgement into the
stored result; which rows it changes depends on their returns and on the rule of the
release, and is a choice here. It has no route in the API
(`docs/reports/2026-07-27-tsla-monthly-audit.md:14` tells of its use), so it may come
at any time. Of a refused completion the model keeps what the
code does with it: the exception is classified like any other and the row is
failed. The code treats data-quality errors as final, although the design document
(`docs/superpowers/specs/2026-07-26-multi-source-validation-v2-design.md:93`)
retries them first; both are outcomes of `JobFails`.

*`PriceOutcomes`*: `bars` (the closed sessions as traded, with splits and dividends),
`decision`, `basis` (`DecisionPriceBasis`), `claim` (the series the worker has
fetched) and `outcome`. Prices are exact fractions. A provider answers what was
traded and the splits, or what it has divided by every split since; normalisation,
total return, excursions, direction and the rebased target follow the code's order
of operations. The true outcome is calculated from `bars` by another road. Every
result is brought to lowest terms (`Reduced`), so that equal numbers are equal pairs,
and a product over days is a recursive function of the day (`Product`), so that both
can be reasoned about.

*`CircuitBreakers`*: `breaker` (status, deadline none/ahead/over, pause, failures on
record), `run` and a history of probes. The times of samples are abstracted to
what `_apply_sample` does with them: within a minute of the earlier failures or
not (`near`), and reported before or after the deadline they would set (`late`).
The failure count is capped at the threshold of three.

*`AlphaVantageBroker`*: `caller`, `fetch`, `pending`, `cached`, and the coordinator
(`queue`, `state`, `blocked`, `probing`, `inFlight`, `paced`, `awake`, `timer`) for
one API key. Bodies under the two locks never suspend. `close()` and cancellation
of a caller are left out: the first happens when the process ends, the second is
not done by the HTTP layer.

*`CodexRuntime`*: `current`, `ready`, `stopping`, `lock`, `pc` (of start, the
restart loop and stop), `proc` and `exit` of every transport, and `call` with the
turn the app-server runs for it. Transport objects nobody refers to are reused,
which keeps the state finite. `LoopHasTurned` is the one assumption about time: the
first restart delay (0.5 s) outlasts the callbacks that are already queued.
`start()` is called once, by the lifespan of the
application (`app.py:96`), so that `_start_transport` never meets a previous
transport (`TypeOK` says so of the restart loop) and its replacement of one is left
out. A second `start()` while an exit is being noticed would leave `_ready` set on a
transport that is not initialized; nothing in the repository makes one.

*`InstrumentNames`*: `row` (name, exchange, by whom, retry and refresh times, history),
`sec` (the filers SEC lists for a ticker now), `document` (the cache and whether its
TTL holds) and `pass` (what each enricher has read). SEC's index and its submissions
are one document. An instrument is read by `next_due`, asked for and marked in three
steps, and the other enricher, a classification, SEC and the clock move in between.

*`WebhookDelivery`*: `webhook`, `recorded` (run events), `delivery` (status, attempt,
next time), `sender` (where a worker is in `run_once`), and two histories: the
attempts an endpoint has accepted and the claims that ran out.

*`IdentityAdmin`*: `keycloak`, `local` (rows of users), `request` (what each request of
an administrator has still to do, what it has read, which snapshot it counts in) and
`faults`. Locks are implied: the guard is held by the requests of kind `guarded`,
`change` and `created`, a row by those of kind `change` and `get`.

*`KeycloakSync`, `SequentialBatch`, `MonthlyAudit`*: what exists in the realm or on the
platform, the state file, where the script is. `Submission` gives the API side of
both batch scripts: a request whose client has given up goes on in the server,
beside the next one with the same key.

*`PointInTime`*: `patched` (the routes and functions the four contexts replace) and
`saved` (what each has found to put back), `recorder`, `checkpoint` and `evidence` of
the attempts, `context` (what the agents were told), `today`, `document` and
`verdicts`. Tools are taken by class, as the policy takes them, and an answer is
reduced to the statements in it and whether it tells of a later day.

*`IntegrityLedger`*: `ledger` (runs of one ticker with lineage, verdicts, matured
horizons and their memory snapshot), `batches`, `snapshots`. Horizons mature in any
order: a short one may wait in `retry_wait` while a longer one completes. `Delete` asks
for the status and for dependent runs, as the code does under its locks, and not whether
a lease or a validation is running (`has_active_work`): the model deletes more. A snapshot
is a copy, and a run it names may be deleted later.

## 3. Runs

`tlc -workers 2 -config X.cfg M` with the module and configuration that
PROJECT.json names. A passing run explores its whole state space. Deadlock is
not checked in any run: a system without requests, or whose bounded counters are
used up, has nothing left to do. (`SomeRequestProceeds` is the freedom from deadlock
of user administration.)

| Run | Instance | What it shows |
|---|---|---|
| `RunExecution` | 2 runs of one ticker, 2 workers, limit 2, 2 attempts, 1 event, reused process ids | two runs are active on one ticker only if one was parked; what is retried has ended and stays so |
| `RunExecutionSchedule` | 2 runs, 2 tickers, 1 worker, limit 1, 2 events | the limit holds but for parked runs; `RunExecution` implements `TickerSchedule` |
| `RunExecutionStages` | 1 run through the five stages of the code, 2 workers, 2 attempts, fair | leases agree with statuses; one worker and one runner per attempt; progress is on record; ends are final; moves follow the table; every attempt ends; every admitted run is taken |
| `RunExecutionExclusion` (violation) | 2 runs, 1 ticker | the README's "per-ticker exclusion" does not hold once recovery has parked and resumed a run |
| `RunExecutionCancel` (violation) | 1 run, fair | a run cancelled between admission and claim stays `cancel_requested` for ever |
| `Services`, gate | 2 runs (the second may be a retry of the first), 1 poller, 2 crashes | run and requirement agree; a late answer is dropped; what is settled stays, through parking and resumption too; every waiting run is decided |
| `Services`, validation | 1 run with a price target, 2 horizons, 1 worker | results are final but for a direction that is recomputed, and what they used is on record; due rows are claimed and claims end |
| `Services`, webhooks | 1 webhook, 1 event, 2 workers, 2 attempts, 1 claim that runs out | what counts as delivered was accepted in that attempt; attempts are limited; every event is settled |
| `Services`, breakers | gateway and one vendor, 2 runs at a time | rows are well formed, escalation is forgotten on closing, one run per probe; if every run reports on what is on probe, no pause lasts |
| `CircuitBreakersPause` (violation) | the breakers, and a run may end without a sample | admission is paused for ever |
| `AlphaVantageBroker` | 3 calls, 2 or 3 keys, 2 leases, 2 attempts, fair | one fetch per key, no ended fetch is joined afresh, exact books, every call returns |
| `Upstreams`, gateway | 3 transports, 1 call under a timeout, stop at any time | one server, no stranded caller, quiet stop, an outcome is kept; every call returns, an exit is made good |
| `Upstreams`, names | 1 instrument, both enrichers, 5 filings of SEC with 1 change, 2 exchanges | names of SEC are replaced by names of SEC only, none is forgotten (`NamesAreKept`); the new name of a company is caught (with the gateway's liveness, `UpstreamsGoOn`) |
| `Operations`, identity | 2 users, 1 founder, 2 requests, 1 failure anywhere | the last administrator goes only by a decision on rows Keycloak did not agree with; rows follow Keycloak; some request proceeds |
| `Operations`, scripts | 2 members of the realm with any roles; 2 symbols or months with 2 dates, 2 requests in the server, 1 or 2 stops | nobody loses a role and one run converges; one batch per key, dates in order; what is passed is proven |
| `Operations`, integrity | 1 run on its day or up to one day later, 2 attempts, 2 answers, its audit | guards hold, a safe verdict knows its tools, an audit that says safe is founded |
| `Operations`, ledger | 3 runs, 2 days, 2 horizons, memory of 1 entry, 2 verdicts a run | no dangling reference, one clean reassessment, memory reaches back and is what statistics count |
| `Operations`, prices | 4 sessions in 6 days, every mix of rises, splits and dividends, 2 conventions | returns, direction and excursions are what the market did, and so is the target if its basis is sound |
| `PriceTargets` (violation) | the same | a target whose basis was frozen from a close that Yahoo had divided by a later split is judged by another price |
| `IdentityLastAdmin` (violation) | 2 administrators, 2 requests, no failure | both are demoted at once and none is left |

### Bounds

* `MaxAttempts = 2`: a second attempt exists beside the worker and runner of the
  first, which is where all the races of lease recovery lie. A third attempt adds
  another stale worker of the same kind. In the last attempt leases do not expire,
  so `AttemptEnds` speaks of the earlier ones.
* `MaxEvents`: in `RunExecutionStages` all six events that a successful run sends.
  Runs about tickers and limits use a pipeline of one stage with the same shape.
* Two runs are what it takes for exclusion, retries and the limit; two workers for
  a lost lease. Symmetry under permutations of runs and workers is used in the
  safety runs only.
* `MaxCrashes = 2` in the data gate: one crash in the claim that a lease expiry
  recovers, one more in the recovered claim.
* `MaxSamples` with the failures on record carried over: the third failure may
  come from the same file, the next one or the scheduler.
* `MaxLapses = 1` of a webhook claim: the answer of the first claim meets the second.
* Broker: two leases make answers overlap; the third call shares a key with the
  first or waits for capacity. One more attempt than one, to retry.
* Three transports: the one in use, the one that is being given up, the new one.
* One instrument and `MaxScan = 1`: the oldest; what the younger ones get is below
  under "Seen while modelling". One change of SEC between any two reads.
* Identity: one failure may strike any call; two requests are what it takes to
  overtake one another.
* Scripts: one stop may fall at every point, and two requests in the server are the
  one that was given up and its successor.
* Ledger: three runs are a source, what is derived from it (retry or reassessment)
  and what is derived from that.
* Prices: entry, exit, the reference session and one session after the exit, with at
  most one event each.

### Fairness

Every liveness property is checked under conditions that say what is assumed:

* `RunExecution`: a worker gets on with its run (its loop has no other way to
  spend time), an idle one claims and recovers (it polls every two seconds),
  runner processes end (an assumption about the environment: without a timeout in
  the code a runner may hang as long as its model does), a lease nobody renews
  expires. Nothing is assumed of users, of the data gate, of admission or of the
  absence of faults.
* Data gate: time passes; a due requirement is claimed in its turn
  (`claim_due` orders by poll time, the reason for strong fairness); StockLean
  decides in the end while the claim is held; a lock that is waited for is granted
  (InnoDB queues waiters).
* Validation: time passes and the worker runs. A row that failed waits for
  minutes, so bases and older jobs leave passes for the others (strong fairness of
  `TakeJob`, which takes rows by `scheduled_for`), and not every pass is killed.
* Webhooks: a started worker takes its steps, claims and retry times run out, and not
  every pass dies before it has enqueued or claimed. No unit starts this worker; the
  assumption is that of a deployment that does.
* Breakers: runs are submitted, admitted and end; pauses run out.
* Broker, gateway: the event loop runs what is ready; requests
  are answered or time out; the app-server, if it is launched again and again, is
  up in the end (strong fairness of `Launch` and `Initialized` of the restart loop).
* Names: times come, the loops go on, older instruments wait for minutes and leave the
  others their turn, and neither SEC nor the database fails in every pass.

### Mutants

For every property of a passing run, `mutants` names a definition and a plausible
defect of the code it models (`CancelLeavingRequirement`, `ClaimUnleased`,
`ContextsSwapped`, ...). With the defect in place, the run finds that property
violated.

### What the violation runs found

1. *Exclusion.* Recovery parks an executing run if a process with the recorded id
   exists. A parked run is not in `ACTIVE_RUN_STATUSES`, so its ticker and its
   place are free; a later pass resumes it as `admitted` without asking the
   scheduler. The README promises exclusion without an exception.
   `ExclusionUnlessParked` and `TickerSchedule` state what does hold.
2. *Cancellation.* A run that is `admitted` becomes `cancel_requested`; workers claim
   `admitted` runs, and only the worker of a run ends a cancellation.
3. *Breakers.* The run that puts a breaker on probe may end without a sample for it,
   and `half_open` blocks without a deadline.
4. *The last administrator.* `acquire_transaction_lock` reads before it locks, so that
   the snapshot in which a transaction counts the administrators is older than the
   guard it waits for. Two that demote each other both count two.
5. *Targets.* `prepare_target_basis` divides the target by the reference close of
   whichever series answers. StockLean's gives that close as it was traded, Yahoo's
   divided by every split up to the day it is asked. A basis that is prepared after a
   split (for a day long past, or in a retry) gets a multiple that depends on the
   provider, and the calculation, which rebases the target by the splits of its own
   series, does not make up for it. The test of the calculation
   (`tests/unit/validation/test_calculator_v2.py:78`) begins with a sound basis.

Seen while modelling, not runs of their own: a minute limit that arrives late
shortens the daily cooldown of the broker; a call that times out before
`turn/start` is answered sends no `turn/interrupt`; with two validation workers the
late completion of an expired claim rewrites a result (`CompletedIsFinal` is
refuted; one worker is deployed). An instrument that moves to another exchange ends in
`exchange_mismatch` every day, although the design document
(`docs/superpowers/specs/2026-07-28-sec-official-instrument-names-design.md:94`) has
the weekly check catch such a move; `next_due` reads the 500 oldest instruments only.
The basis of a target may be frozen before the session of the analysis day has closed,
from the price of the moment. The README (line 280) says the scheduler rejects any run
that lacks a verified manifest: it checks the form of the hash, which only the
reconciler recomputes, and a run that is ready at submission never passes the
reconciler. Directions of stored results are recomputed, although the design of
validation.v2 (line 95) wants no successful result to be overwritten. An
`InvalidDataError` of one provider ends a validation instead of passing on to the next
one. An analysis that starts on its day and ends on the next runs without the guards of
a historical one, and its verdict does not say so. `sync_keycloak_user_management`, if
it stops between the migration of a user and the logout, plans no logout afterwards.

## 4. Proofs

Each module is checked with `tlapm <module>.tla`. All theorems are invariants or
properties of the steps, for every value of the constants.

| Module | Theorems | Assumed of the constants |
|---|---|---|
| `RunExecutionProofs` | `Typing`, `LeasesMatch`, `NoDoubleExecution`, `Exclusion`, `RetriesFollow`, `Progress`, `Finality`, `TableGoverns`, `Refinement` (`Spec => ImplementsSchedule`) | those of `RunExecution`: identifiers without `None`, natural bounds, a pipeline of distinct stage names that are no other status |
| `ServicesProofs` | `Typing`, `GateAgreement`, `Verification`, `Claiming`, `Finality` (of `DataReadiness`) | that of `DataReadiness`: `None` is neither a run nor a poller |
| | `Probes` | `MaxSamples` is a natural number |
| | `Accepted` | at least one attempt is allowed |
| | `Stand` | `OneWorker`, as below |
| | `ServicesTyping` | at least one attempt is allowed; the bounds are natural numbers |
| `UpstreamsProofs` | `Supervision`, `Waiters`, `Outcomes` | `NoneIsApart`: `None` is neither a transport nor a coroutine |
| | `OfficialNames` | `NamesAssumption`: `None` is not the name of a filer, an exchange may be unknown, and changes are bounded by a number |
| | `SideBySide` | nothing |
| `AlphaVantageBrokerProofs` | `Accounting`, `Sharing` | that of `AlphaVantageBroker`; finitely many callers |
| `WebhookDeliveryProofs` | `Delivered`, `Limits`, `OneSender`, `Typing` | at least one attempt is allowed; for the last, `MaxLapses` is a natural number |
| `IntegrityLedgerProofs` | `Lineage`, `Remembering`, `RowsAreProper`, `MemoryHasEnded` | `RowsAssumption`: there is room for at least one run; for the last, `NumbersAssumption`: days, horizons and the limit of the memory are numbers |
| `OperationsProofs` | `CurrentSync`, `Founded` | nothing |
| | `Miscounted` | `Snapshots = TRUE`, MySQL's default |
| | `Lineage`, `Memory` | those of `IntegrityLedgerProofs` |
| | `Scripts` | `ScriptsAssumption`: at least one date and one symbol, natural bounds, `None` is no status; the realm has finitely many members |
| | `WellFormed` | those of `Scripts`, `RowsAssumption`, and `RunAssumption`: days and attempts are bounded by numbers |
| | `TrueReturns`, `TrueOutcomes` | `PricesAssumption`: below, under *Prices* |
| `ValidationJobsProofs` | `Targets`, `Results` | `OneWorker`: no two validation workers, as deployed |
| | `Typing` | nothing |

### Run execution

`TypeOK` is inductive together with `JobWhileBusy` (a worker has a job exactly while
it is inside `run_once`). The safety properties are not inductive one by one; the
inductive invariant `IInv` is their conjunction with `TypeOK`, `JobWhileBusy` and two
facts about attempts:

* `WorkIsStarted`: whatever a worker or a runner process executes was claimed. It
  says of a worker that lost its lease that its run has gone on to a later
  attempt, or is past `admitted` in this one. Without it a worker could be about
  to store an event of, or finalize, a run that nobody has claimed yet, and
  `LeaseMatchesStatus` would not be preserved: finalization never looks at the
  lease.
* `NotYetLaunched`: a runner that a worker is about to launch does not exist, which
  is what makes `OneRunnerPerAttempt` survive `Launch`.

The argument has two levels. `RunSteps` shows once that every action treats every
run in one of five ways (`Nothing`, `Created`, `Moved`, `Removed`, `Recovered`), with
what that means for its lease; `NewWork` shows that new work begins only with a claim
of an admitted run or the launch of what was claimed. The steps of the conjuncts
(`LeaseStep`, `OneRunnerStep`, `RetryStep`, `ExclusionStep`) and the action
properties follow from these lemmas instead of from twenty actions each. The
table of transitions is unfolded in two lemmas only (`AllowedMoves`,
`AllowedByCode`).

`Progress` says that a run at stage `i` has at least `i` events of its attempt on record
(at least, because an event that repeats the current status is stored once more). It has
an argument of its own: an event is accepted at the number the run has
on record, and the stage an event tells is the one that follows (`StageMoves`); every
other step either leaves the events of a run alone or puts the run back to where none
is stored (`EventSteps`).

*Refinement.* `PhaseOf` maps a run to the abstract phases none, pending, active,
parked, done and removed by its status and its lease. Every action is shown to be one
abstract step, or a stutter (`ApiImplemented`, `AdmissionImplemented`,
`WorkImplemented`, `FinalizationImplemented`, `RecoveryImplemented`, ...). Admission
is the step that matters: the abstract `Start` asks that the ticker is free and the
active runs are fewer than the limit, which is what `admit_one` has counted. `Facts`
takes from `IInv` what a leased run can be; `TickersAreKnown` says that a run keeps
the ticker it was submitted with.

### The data gate

The inductive invariant adds five facts to the properties. `Unused`: a row without a
run has no requirement, and before the gate no manifest is pinned; without it a
submission could leave an old requirement beside a new run, and a decision could
replace a manifest. `TurnedDown`: a run whose requirement failed, was parked or was
cancelled has that status and no manifest. `HeldIsWaiting`: only a waiting requirement has a holder, so that
the comparison in `_locked` also says that nothing was decided since the claim, which
is what `WriterHoldsClaim` needs. `CancelledIsWaiting`: the run that a cancellation
has locked still waits when the cancellation goes on. `BusyWithRun`: a busy poller
has a run and, after the answer, an answer.

`RowSteps` shows that every action treats every run in one of five ways (`Kept`,
`Created`, `Polled`, `Decided`, `GoesOn`), from which the agreement of the rows, the
verification and the finality follow. `GoesOn` is the one way that touches a run past
the gate, and it covers the recovery that parks and resumes it; what it resumes has a pinned
manifest, which a run the gate has turned down never has, so that `Finality` holds of the
latter and of what has ended, and not of a run that is merely parked; `PollerSteps` shows of every action that it
takes the run of a locked poller neither by a claim nor by a decision of somebody
else.

### The gateway

`Supervision` covers start, the restart loop and stop, which meet at every await.
The invariant says where each coroutine can be and what it then holds: `Places`
(before the environment is checked there is nothing; once stop has begun, the
restart loop starts nothing more), `LockHolds` (the lock is held by the one
coroutine that starts or stops a transport), `StartsAlone` (the transport that is
being started serves nobody), `CurrentServes` (only the current transport has a
process; its exit is seen after the process is gone), `WaitsInTurn` (a caller waits
on a transport only while its turn is on). `OneServer` and `NoWaiterIsStranded`
follow: whoever gives a transport up has failed the callers that wait on it, or its
exit handler is still to come. Each action is a lemma (`UndoInv`, `HandleExitInv`,
...); those of the life cycle share what they do to calls (`CallsStay`).

### The names

`NamesAreKept` speaks of two enrichers that write what they read earlier. `NamedRow` says
what a row may be: a name has somebody who gave it, one of SEC was given to a filer on the
row's exchange, and an unresolved row has no name. `Replaced` says it of a step. An
enricher may hold a finding that is old, but only one that SEC has listed at some time
and for an instrument that exists, which is why a late write does no more than a timely one
(`NamesInv`). `SideBySide` takes both systems to the composition that is run.

### The broker

`Accounting` needs cardinalities: a lease is granted by the dispatcher (the count
goes up with the set), and returned by `release` (both go down, `FS_RemoveElement`).
The invariant has `LeaseIsHeld`, the books themselves, and `QueueWaits`: a fetch that
waits is in the queue once, so that no fetch is granted two leases. The queue is in
the order of priorities; `Inserted` shows that a place in the middle keeps it without
repetition. `Sharing` follows from `FetchOnRecord`: a fetch is in `_pending` under its
key from its creation until the caller that created it has resumed.

### Webhooks

The row counts attempts, and a claim takes the next number: `ClaimsAreCounted` says
that no worker's number is above the row's, so that the number of a new claim is
nobody else's (`OneSender`) and completion, which compares it, stores the answer to
that attempt (`AnswersAreTrue`, `Delivered`). `OneAttemptLeft` counts the claims that
ran out: `recover_stale` puts a row back whatever its number, so that the limit holds
up to those (`Limits`), and with the bound on the claims that run out the numbers stay
within their type (`Typing`).

### The ledger

`RefersToRuns` and `NothingIsLeft` are about deletion, which must leave a run that
others refer to and takes its batch and its snapshot along; `OneClean` is the
unique key of a clean reassessment. A new row takes the least free place, whose
existence is an induction on the naturals (`LeastOf`, from the well-foundedness of
`<`). `Remembering` needs `PinnedOnce`: before its admission a run has no snapshot.

`MemoryHasEnded` says of every state that what a run remembers was over on its day, that
no run is remembered twice, that the memory keeps its limit, and that a clean
reassessment, or a retry of one, remembers nothing. It is the
last that needs an invariant: `IsClean` follows `retryOf` to the first of a chain of retries, while
admission looks at the key of the batch. `Origins` says that a batch is a clean one
exactly if its runs are a clean reassessment or retries of one, and `Ranked` that a chain
of retries comes to an end although the places of deleted runs are taken again; the
rest of `MInv` is what the days are and what `PinnedWell` asks of a snapshot.

`RowsAreProper` is the type invariant: a verdict is recorded once, a run is pinned to one
snapshot at most, and only horizons mature.

### Validation

`_retry` and `_terminal_error` look neither at the status nor at the owner of the row,
so that all depends on who can complete it meanwhile. `HoldsUnsettled` says that the
row a worker holds, or has been refused, is not completed: with one worker nobody else
completes rows, whatever a retry or an expired lease does to it. `HasItsBasis` says the
same of the basis it has read. `RecomputeDirections` touches completed rows, and nothing
but their direction, so that it stands in nobody's way. `OneWorker` is a hypothesis of both theorems, and
without it they are false. `Typing` needs neither: its invariant is the typing alone,
since every statement that sets a status sets the lease columns with it.

### Breakers

A report applies one sample after the other (`Record`, a recursive function on the
number of samples applied). `RecordIs` says what all of them together do: the rows are
well formed, a closed breaker has the short pause, and a breaker on probe was on probe
before (`InOrder`). It goes up the samples by `UpTo`: a set of numbers that goes on from
each number to the next has them all, for there is no least one missing. So that only
`admit_one` puts a breaker on probe, and it does so to breakers that were open while none
was on probe; the run it admits is the only one until the breaker leaves the probe
(`Probes`). `CircuitsInv` is inductive as it stands: what the runs are doing, and how old
their samples are, does not come into it.

### The services side by side

`ServiceSteps` takes a step of the composition to a step, or a stutter, of each service.
`SameJobs` and `SameDeliveries` say that the jobs and the deliveries of the composition
are those of `ValidationJobsProofs` and `WebhookDeliveryProofs`, whose invariants carry
`Accepted`, `Stand` and `ServicesTyping`.

### Administration, guards and scripts

`OperationsProofs` is about the composition that `Operations` runs. `OperationsStep`
takes a step of it to a step of the part that `focus` names, and to none of the others;
each part has its own inductive invariant, and the theorems are about `OperationsSpec`.

*Administration.* `Steps` shows that every action turns the record of one request into
another in one of seven ways (`Begins`, `Creates`, `Decides`, `Makes`, `Reads`, `Guards`,
`Ends`). The locks are not variables: `LocksHold` says that the records which stand for
a lock of a row, or of the guard, exclude each other. `CurrentSync` follows because what
a holder of the row has read is what Keycloak has until it lets go (`FoundersAreRead`;
nobody is created under the name of one who exists). `Miscounted` needs two more facts:
whoever changes a user is an administrator in the snapshot of the change
(`ActorIsCounted`), and a change that counted what is still so when the guard came leaves
another administrator (`ChangeLeavesOne`). It says that the last administrator goes only
by a change that was `misled`, the one of finding 4.

*Guards of a run.* `Routing` says that in the graph of a historical attempt all eight
routes are guarded, or that the attempt is not historical and nothing is patched. What
the four contexts save on the way in they put back in reverse; `FoundIs` computes what is
found under every patch. `Heard` relates what the agents were told, in this attempt or in
one whose checkpoint is resumed, to the evidence and the recorder; `SafeIsFounded`
concludes that an audit that says safe has no answer with a later day in it. The
theorem holds for any number of attempts, days and answers.

*Ledger.* The composed module renames one variable, so that its theorems are those of
`IntegrityLedgerProofs` under an instance (`SameLedger`, `LedgerStep`).

*Synchronisation.* The list of calls still to be made is the state of the script. `Ordered`
says that nothing is taken from a member who has no formal role unless a call before it
gives one, which a prefix that has been carried out preserves and a new plan establishes
(`PlanIs`); `Finishing`, that what is not yet as it should be is on the list, so that an
empty list is a realm that needs no plan (`NothingLeft`).

*Batch.* A request that its client has given up still creates the run of its key; so
`InTurn`, that every earlier date of the symbol succeeded, is an invariant of the runs
*and* of the requests in the server, and `RecordsAreTrue` says that the state file is
never ahead of the platform.

*Audit.* `AuditProceeds` follows the date at hand: the run has succeeded before its
validations are looked at, these are completed before the checkpoint is, and no run,
request or turn exists for a date before the earlier ones are assessed
(`AssessedBefore`). `PassedIsProven` is kept by a restart because a passed checkpoint is
not asked for again.

*Types.* The invariants of the parts are together inductive (`PartsInv`) and bound every
variable. One part of `PointInTime`'s is more than a type: outside of the graph nothing is
patched, so that the four contexts, left in reverse, restore what was there before the
first was entered. `PutBackIs` unfolds what they put back for
whatever they found, and `Restores` does so for what they find, on whichever side of
midnight (`RunInv`). `WellFormed` puts the parts together.

### Prices

`TrueReturns` says of every outcome that its returns, its direction and its excursions are
those of the market; `TrueOutcomes` adds the target, on the condition of `BasisIsSound`: its
basis was frozen from a session that had closed and from a close no later split had
divided. The code freezes other bases too (finding 5), so that the condition is needed.

Both compare two calculations. The code takes a series of one provider, turns
its prices into shares of the last session by the later splits if they are as traded, and
divides; the market is what `bars` says, day by day. The assumptions are about the data, and
TLC evaluates them on the run: sessions, dates and targets are numbers, the calendar
has an exit session for every analysis date, a share costs something, and what is traded lies
between the low and the high of its session (`PricesAssumption`).

*Fractions.* `SameValue` is equality by cross-multiplication, `Reduced` chooses the lowest
denominator. `ReducedSame` says that the same number has the same lowest terms, so that
`TimesIs`, `OverSame` and `SumsAgree` let an expression be rearranged, and a comparison does
not depend on how a number is written (`AtMostSame`).

*Products.* `Product` goes from one day to the next; `ProductJoins` splits the product over
two disjoint sets of days, by induction over days (`Induct`, from the well-foundedness of
`<`). `FoldsJoin` is its use: the shares of session `u` for one of `s` are those of `m` for one
of `s` times those of `u` for one of `m`. Every price of a series is the market's price in
shares of one basis (`AdjustedIs`): the last session of the series if it is as traded, the
day it was published if it is not. In a quotient the basis cancels, which is why the
instrument may come from one provider and its benchmark from the other (`PriceReturnIs`,
`TotalReturnIs`, where each day's link is what a share grew by, `LinkIs`).

*Excursions and target.* A window has a highest high and a lowest low (`GreatestIs`, by
induction over days), values of one of its sessions (`ValuesAre`). The target is stored as a
multiple of a reference close and multiplied with that close in the series at hand; for a
sound basis it compares with a price as it did with the worth of a share then
(`RebasedIs`, `ReachedIs`).

*Time.* A basis is frozen, a validation claimed and its prices asked for on different days,
and the market goes on in between. `PricesInv` says of a completed basis which close and
which splits it was made of (`BasisHolds`), of a claim that its basis is the one on record and
its series what a provider had (`ClaimHolds`), of an outcome that it is earned
(`OutcomeHolds`). A day that ends preserves all three because what has closed
stays (`MarketGrows`, `SplitsStay`, `TotalStays`); only the soundness of a basis may end, and a
basis that is sound now was so before (`NoSplitsBefore`).

### Only model-checked, and why

* liveness under fairness (`AttemptsGoOn`, `UpstreamsGoOn`, `EveryCallReturns`,
  `WaitingIsDecided`, `JobsGoOn`, `EventIsSettled`, `PauseIsTemporary`), and everything
  about `ENABLED` (`SomeRequestProceeds`): no backend for it;
* assumptions that a theorem names are evaluated by TLC where they are an `ASSUME` of a
  module that is run (`NamesAssumption`, `PricesAreSensible`, those of `RunExecution`,
  `DataReadiness` and `AlphaVantageBroker`); the others are read off the configurations.

Every other property of a passing run is stated by a theorem. The installed provers cannot
instantiate the library's induction theorems over data; where a proof needs a recursive
function, it unfolds it along an invariant that bounds its depth (`IsClean`), or goes up a
set of numbers of which none is the least one missing (`Record`, `Product`).

## 5. What is not modelled, and why

* Computations without shared state: the analysis graph, validation.v1 and the
  rounding of stored outcomes, the calendars of exchanges (a set of sessions here),
  parsing, rendering of memory and reports.
* I/O: HTTP clients, the gateway's audit files, logging and metrics. The rate gate
  between processes (`vendors/alpha_vantage_client.py`) serves a client without a
  broker; the configuration always names one (`P/config.py:96`), so that path is dead.
* Artifacts and retention: files are written once, and every row of an artifact is
  stored as permanent, so that retention finds nothing to delete.
* Model routing and scheduler settings: one versioned row each, read and written in one
  transaction under its lock.
* Read-only views, authentication, the web console, deployment, migrations
  (`migrate_platform_database.py` copies a database that is at rest).
* Locks of the database below the grain described above (the `FOR UPDATE` of a user's row
  also locks the rows of `roles` it joins); the busy/idle column of
  workers; changes made in Keycloak's own console.

## 6. What is left to do

* Bounds: a second instrument beside the first (`next_due` with a queue), a third
  worker, two validation workers with the owner's check that would make them safe.
* `DataReadiness` as a refinement of `SettleData` in `RunExecution`, which takes the gate
  as one step.
* validation.v1 and the rounding of stored results, with how far a rounded return may be
  from the exact one that `TrueOutcomes` speaks of.
