---------------------------- MODULE ValidationJobs ----------------------------
(***************************************************************************)
(* The validation jobs of successful runs, one row per run and horizon,    *)
(* and the target-price bases they use, one row per run.  Workers claim    *)
(* rows under a lease, fetch prices with no transaction open, and settle   *)
(* the row in a later transaction.                                         *)
(*                                                                         *)
(* A session.begin() block is one action, except the claim of a job: it    *)
(* counts the running rows with an unlocked read before it takes one.      *)
(***************************************************************************)
EXTENDS Integers, FiniteSets

CONSTANTS
    Runs,          \* successful runs
    Targeted,      \* those whose decision has a price target
    Horizons,
    Workers,       \* validation worker processes
    MaxRunning     \* max_running_validation

VARIABLES
    job,      \* rows of validations
    basis,    \* rows of decision_price_bases
    worker    \* what each worker process is doing

vars == <<job, basis, worker>>
Jobs == Runs \X Horizons
RunOf(j) == j[1]

\* due: scheduled_for or next_attempt_at has passed.  used: what the stored
\* result was computed from, with or without the target-price basis.  direction:
\* whether the judgement of the rating is that of the computation or a later one.
Row == [status : {"absent", "scheduled", "running", "retry_wait", "completed",
                  "unavailable", "failed"},
        due : BOOLEAN, lease : {"none", "held", "expired"},
        used : {"nothing", "basis", "no basis"},
        direction : {"none", "computed", "recomputed"}]

Fresh == [status |-> "absent", due |-> FALSE, lease |-> "none", used |-> "nothing",
          direction |-> "none"]

Idle == [pc |-> "idle"]

\* A claim in progress (counted), the work on a claimed row, and a completion
\* the row refused.
Work ==
    [pc : {"idle", "looking", "counted"}]
    \cup [pc : {"basis", "basis refused"}, on : Runs]
    \cup [pc : {"job", "job refused"}, on : Jobs, with : {"basis", "no basis"}]

\* The rows are well formed, and carry lease columns while they are running and
\* at no other time, so that a claim can always be found and returned.
TypeOK ==
    /\ job \in [Jobs -> Row]
    /\ basis \in [Runs -> Row]
    /\ worker \in [Workers -> Work]
    /\ \A j \in Jobs : job[j].status = "running" <=> job[j].lease # "none"
    /\ \A r \in Runs : basis[r].status = "running" <=> basis[r].lease # "none"

Init ==
    /\ job = [j \in Jobs |-> Fresh]
    /\ basis = [r \in Runs |-> Fresh]
    /\ worker = [w \in Workers |-> Idle]

Running == {j \in Jobs : job[j].status = "running"}

Goes(w, work) == worker' = [worker EXCEPT ![w] = work]

ReleasedKeepingLease(row, status) == [row EXCEPT !.status = status, !.due = FALSE]

\* A row whose lease columns are cleared as it gets its next status.
Released(row, status) == [row EXCEPT !.status = status, !.lease = "none", !.due = FALSE]
Claimed(row) == [row EXCEPT !.status = "running", !.lease = "held", !.due = FALSE]
Expired(row) == row.status = "running" /\ row.lease # "held"
Reset(row, status) == [Released(row, status) EXCEPT !.due = TRUE]
Claimable(row) == row.status \in {"scheduled", "retry_wait"} /\ row.due

-----------------------------------------------------------------------------
(* The API and the end of a run *)

ScheduleReplacing(r, hs) ==
    /\ job' = [j \in Jobs |-> IF RunOf(j) = r /\ j[2] \in hs
                              THEN [Fresh EXCEPT !.status = "scheduled"] ELSE job[j]]
    /\ UNCHANGED <<basis, worker>>

\* schedule_validations: both inserts ignore rows that exist.
Schedule(r, hs) ==
    /\ job' = [j \in Jobs |-> IF /\ RunOf(j) = r /\ j[2] \in hs
                                 /\ job[j].status = "absent"
                              THEN [Fresh EXCEPT !.status = "scheduled"] ELSE job[j]]
    /\ basis' = [basis EXCEPT ![r] =
                     IF r \in Targeted /\ @.status = "absent"
                     THEN [Fresh EXCEPT !.status = "scheduled", !.due = TRUE] ELSE @]
    /\ UNCHANGED worker

\* ValidationRepository.retry, an administrator's.
Retry(j) ==
    /\ job[j].status \in {"failed", "unavailable"} \/ Expired(job[j])
    /\ job' = [job EXCEPT ![j] = Reset(@, "scheduled")]
    /\ UNCHANGED <<basis, worker>>

RecomputeFromScratch(rs) ==
    /\ \E js \in SUBSET {j \in Jobs : RunOf(j) \in rs /\ job[j].status = "completed"} :
          /\ js # {}
          /\ job' = [j \in Jobs |-> IF j \in js
                                   THEN [job[j] EXCEPT !.direction = "recomputed",
                                                       !.used = "no basis"] ELSE job[j]]
    /\ UNCHANGED <<basis, worker>>

\* recompute_directions, an administrator's: of the completed rows of some runs,
\* those whose rating the rule of this release judges otherwise from the stored
\* returns, or which are without the names it adds.
RecomputeDirections(rs) ==
    /\ \E js \in SUBSET {j \in Jobs : RunOf(j) \in rs /\ job[j].status = "completed"} :
          /\ js # {}
          /\ job' = [j \in Jobs |-> IF j \in js
                                   THEN [job[j] EXCEPT !.direction = "recomputed"]
                                   ELSE job[j]]
    /\ UNCHANGED <<basis, worker>>

-----------------------------------------------------------------------------
(* Target-price bases: status "pending" is called scheduled here *)

RecoveredBases ==
    [r \in Runs |-> IF Expired(basis[r]) THEN Reset(basis[r], "scheduled") ELSE basis[r]]

\* _claim_basis: expired claims are returned, then one row is claimed.
ClaimBasis(w) ==
    /\ worker[w] = Idle
    /\ \E r \in Runs :
          /\ Claimable(RecoveredBases[r])
          /\ basis' = [RecoveredBases EXCEPT ![r] = Claimed(@)]
          /\ Goes(w, [pc |-> "basis", on |-> r])
    /\ UNCHANGED job

FindsNoBasis(w) ==
    /\ worker[w] = Idle
    /\ \A r \in Runs : ~Claimable(RecoveredBases[r])
    /\ basis' = RecoveredBases
    /\ Goes(w, [pc |-> "looking"])
    /\ UNCHANGED job

\* _complete_basis: a row that is no longer running is refused.
CompleteBasis(w) ==
    /\ worker[w].pc = "basis"
    /\ LET r == worker[w].on IN
       \/ /\ basis[r].status = "running"
          /\ basis' = [basis EXCEPT ![r] = Released(@, "completed")]
          /\ Goes(w, Idle)
       \/ /\ basis[r].status # "running"
          /\ Goes(w, [pc |-> "basis refused", on |-> r])
          /\ UNCHANGED basis
    /\ UNCHANGED job

\* _retry_basis and _terminal_basis look at no status and no owner.
BasisFails(w) ==
    /\ worker[w].pc \in {"basis", "basis refused"}
    /\ \E status \in {"retry_wait", "unavailable"} :
          /\ worker[w].pc = "basis refused" => status = "unavailable"
          /\ basis' = [basis EXCEPT ![worker[w].on] = Released(@, status)]
    /\ Goes(w, Idle)
    /\ UNCHANGED job

-----------------------------------------------------------------------------
(* Jobs *)

CountForgettingExpired(w) ==
    /\ worker[w].pc = "looking"
    /\ Goes(w, IF Cardinality(Running) < MaxRunning
               THEN [pc |-> "counted"] ELSE Idle)
    /\ UNCHANGED <<job, basis>>

\* _claim up to its count: expired claims are returned (their locks last until
\* the commit; here others see them a little earlier), the others are counted.
CountRunning(w) ==
    /\ worker[w].pc = "looking"
    /\ job' = [j \in Jobs |-> IF Expired(job[j]) THEN Reset(job[j], "scheduled") ELSE job[j]]
    /\ LET running == {j \in Running : ~Expired(job[j])} IN
       Goes(w, IF Cardinality(running) < MaxRunning THEN [pc |-> "counted"] ELSE Idle)
    /\ UNCHANGED basis

TakeJobWithAnyBasis(w, j) ==
    /\ worker[w].pc = "counted"
    /\ Claimable(job[j])
    /\ job' = [job EXCEPT ![j] = Claimed(@)]
    /\ Goes(w, [pc |-> "job", on |-> j,
                with |-> IF basis[RunOf(j)].status # "absent"
                         THEN "basis" ELSE "no basis"])
    /\ UNCHANGED basis

TakeOnlyScheduled(w, j) ==
    /\ worker[w].pc = "counted"
    /\ Claimable(job[j]) /\ job[j].status = "scheduled"
    /\ job' = [job EXCEPT ![j] = Claimed(@)]
    /\ Goes(w, [pc |-> "job", on |-> j,
                with |-> IF basis[RunOf(j)].status = "completed"
                         THEN "basis" ELSE "no basis"])
    /\ UNCHANGED basis

\* The rest of _claim: skip_locked passes over a row another claim holds.
TakeJob(w, j) ==
    /\ worker[w].pc = "counted"
    /\ Claimable(job[j])
    /\ job' = [job EXCEPT ![j] = Claimed(@)]
    /\ Goes(w, [pc |-> "job", on |-> j,
                with |-> IF basis[RunOf(j)].status = "completed"
                         THEN "basis" ELSE "no basis"])
    /\ UNCHANGED basis

FindsNoJob(w) ==
    /\ worker[w].pc = "counted"
    /\ \A j \in Jobs : ~Claimable(job[j])
    /\ Goes(w, Idle)
    /\ UNCHANGED <<job, basis>>

\* _complete and _complete_v2.
CompleteJob(w) ==
    /\ worker[w].pc = "job"
    /\ LET j == worker[w].on IN
       \/ /\ job[j].status = "running"
          /\ job' = [job EXCEPT ![j] =
                         [Released(@, "completed") EXCEPT !.used = worker[w].with,
                                                          !.direction = "computed"]]
          /\ Goes(w, Idle)
       \/ /\ job[j].status # "running"
          /\ Goes(w, [worker[w] EXCEPT !.pc = "job refused"])
          /\ UNCHANGED job
    /\ UNCHANGED basis

\* _retry and _terminal_error look at no status and no owner; the refusal of a
\* completion is an exception like any other, and run_once fails the row.
JobFails(w) ==
    /\ worker[w].pc \in {"job", "job refused"}
    /\ \E status \in {"retry_wait", "unavailable", "failed"} :
          /\ worker[w].pc = "job refused" => status = "failed"
          /\ job' = [job EXCEPT ![worker[w].on] = Released(@, status)]
    /\ Goes(w, Idle)
    /\ UNCHANGED basis

-----------------------------------------------------------------------------
(* Time and crashes *)

\* The process dies, or an exception leaves run_once: the row keeps its lease.
Abandon(w) ==
    /\ worker[w] # Idle
    /\ Goes(w, Idle)
    /\ UNCHANGED <<job, basis>>

JobDue(j) ==
    /\ job[j].status \in {"scheduled", "retry_wait"} /\ ~job[j].due
    /\ job' = [job EXCEPT ![j].due = TRUE]
    /\ UNCHANGED <<basis, worker>>

BasisDue(r) ==
    /\ basis[r].status = "retry_wait" /\ ~basis[r].due
    /\ basis' = [basis EXCEPT ![r].due = TRUE]
    /\ UNCHANGED <<job, worker>>

JobLeaseExpires(j) ==
    /\ job[j].lease = "held"
    /\ job' = [job EXCEPT ![j].lease = "expired"]
    /\ UNCHANGED <<basis, worker>>

BasisLeaseExpires(r) ==
    /\ basis[r].lease = "held"
    /\ basis' = [basis EXCEPT ![r].lease = "expired"]
    /\ UNCHANGED <<job, worker>>

-----------------------------------------------------------------------------

\* run_once after its claim.
Settle(w) == CompleteBasis(w) \/ BasisFails(w) \/ CompleteJob(w) \/ JobFails(w)

RunOnce(w) ==
    \/ ClaimBasis(w) \/ FindsNoBasis(w)
    \/ CountRunning(w) \/ FindsNoJob(w)
    \/ \E j \in Jobs : TakeJob(w, j)
    \/ Settle(w)

Next ==
    \/ \E r \in Runs, hs \in SUBSET Horizons : Schedule(r, hs)
    \/ \E rs \in SUBSET Runs : RecomputeDirections(rs)
    \/ \E j \in Jobs : Retry(j) \/ JobDue(j) \/ JobLeaseExpires(j)
    \/ \E r \in Runs : BasisDue(r) \/ BasisLeaseExpires(r)
    \/ \E w \in Workers : RunOnce(w) \/ Abandon(w)

Spec == Init /\ [][Next]_vars

-----------------------------------------------------------------------------
(* Properties *)

\* The stored result of a validation, its prices, returns and target, and the
\* frozen basis of a run are never rewritten: not by a late worker, a recovery, a
\* retry or a second schedule.  The direction of a result is, but by its
\* recomputation only, which leaves the rest of the row as it is.
CompletedIsFinal ==
    [][/\ \A j \in Jobs : job[j].status = "completed" =>
              job'[j] \in {job[j], [job[j] EXCEPT !.direction = "recomputed"]}
       /\ \A r \in Runs : basis[r].status = "completed" => basis'[r] = basis[r]]_vars

\* A result that was computed from the target-price basis of its run has a
\* completed basis to show for it.
TargetIsOnRecord ==
    \A j \in Jobs : job[j].used = "basis" => basis[RunOf(j)].status = "completed"

\* A row that is due is eventually claimed.
DueIsClaimed ==
    \A j \in Jobs : Claimable(job[j]) ~> ~Claimable(job[j])

\* A claim never holds a row, and its place among the running ones, for good.
ClaimEnds ==
    \A j \in Jobs : job[j].status = "running" ~> job[j].status # "running"
=============================================================================
