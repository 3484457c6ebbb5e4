------------------------ MODULE ValidationJobsProofs ------------------------
(***************************************************************************)
(* Proofs about the validation jobs: their rows are well formed whatever   *)
(* the workers, and with the one worker the deployment starts a stored     *)
(* result is final, but for its direction, which is recomputed only on     *)
(* purpose, and has the basis it was computed from on record.              *)
(***************************************************************************)
EXTENDS ValidationJobs, TLAPS

\* systemd/user/tradingng-platform-validation.service is one process, and nothing
\* starts another.
OneWorker == \A v, w \in Workers : v = w

\* A worker that is about to settle a row, or has been refused, holds one that is
\* not completed.  _retry_basis, _terminal_basis, _retry and _terminal_error ask
\* for no status, so this is all that keeps them off a result.
HoldsUnsettled ==
    \A w \in Workers :
        /\ worker[w].pc \in {"job", "job refused"} => job[worker[w].on].status # "completed"
        /\ worker[w].pc \in {"basis", "basis refused"} => basis[worker[w].on].status # "completed"

\* A worker that computes with a basis has read a completed one.
HasItsBasis ==
    \A w \in Workers :
        worker[w].pc \in {"job", "job refused"} /\ worker[w].with = "basis"
        => basis[RunOf(worker[w].on)].status = "completed"

IInv == TypeOK /\ HoldsUnsettled /\ HasItsBasis /\ TargetIsOnRecord

-----------------------------------------------------------------------------
(* Rows *)

\* The lease columns are set while a row is running and at no other time.
GoodRow(row) == row \in Row /\ (row.status = "running" <=> row.lease # "none")

LEMMA FreshRow ==
    /\ GoodRow(Fresh) /\ Fresh.status = "absent" /\ Fresh.used = "nothing"
    /\ GoodRow([Fresh EXCEPT !.status = "scheduled"])
    /\ [Fresh EXCEPT !.status = "scheduled"].used = "nothing"
    /\ GoodRow([Fresh EXCEPT !.status = "scheduled", !.due = TRUE])
    /\ [Fresh EXCEPT !.status = "scheduled"].status = "scheduled"
    /\ [Fresh EXCEPT !.status = "scheduled", !.due = TRUE].status = "scheduled"
BY DEF GoodRow, Row, Fresh

LEMMA ReleasedRow ==
    ASSUME NEW row \in Row,
           NEW s \in {"scheduled", "retry_wait", "completed", "unavailable", "failed"}
    PROVE  /\ GoodRow(Released(row, s)) /\ Released(row, s).status = s
           /\ Released(row, s).used = row.used
BY DEF GoodRow, Row, Released

LEMMA ResetRow ==
    ASSUME NEW row \in Row
    PROVE  /\ GoodRow(Reset(row, "scheduled")) /\ Reset(row, "scheduled").status = "scheduled"
           /\ Reset(row, "scheduled").used = row.used
BY DEF GoodRow, Row, Released, Reset

LEMMA ClaimedRow ==
    ASSUME NEW row \in Row
    PROVE  GoodRow(Claimed(row)) /\ Claimed(row).status = "running" /\ Claimed(row).used = row.used
BY DEF GoodRow, Row, Claimed

LEMMA UsedRow ==
    ASSUME NEW row \in Row, GoodRow(row), NEW u \in {"basis", "no basis"}
    PROVE  LET new == [row EXCEPT !.used = u, !.direction = "computed"]
           IN  GoodRow(new) /\ new.status = row.status /\ new.used = u
BY DEF GoodRow, Row

\* What recompute_directions leaves of a completed row.
LEMMA RecomputedRow ==
    ASSUME NEW row \in Row, GoodRow(row)
    PROVE  LET new == [row EXCEPT !.direction = "recomputed"]
           IN  GoodRow(new) /\ new.status = row.status /\ new.used = row.used
BY DEF GoodRow, Row

LEMMA DueRow ==
    ASSUME NEW row \in Row, GoodRow(row)
    PROVE  LET new == [row EXCEPT !.due = TRUE]
           IN  GoodRow(new) /\ new.status = row.status /\ new.used = row.used
BY DEF GoodRow, Row

LEMMA ExpiredRow ==
    ASSUME NEW row \in Row, GoodRow(row), row.lease = "held"
    PROVE  LET new == [row EXCEPT !.lease = "expired"]
           IN  GoodRow(new) /\ new.status = row.status /\ new.used = row.used
BY DEF GoodRow, Row

LEMMA RunOfJob == ASSUME NEW j \in Jobs PROVE RunOf(j) \in Runs
BY DEF Jobs, RunOf

LEMMA TypeIs ==
    TypeOK <=> /\ job = [j \in Jobs |-> job[j]] /\ basis = [r \in Runs |-> basis[r]]
               /\ \A j \in Jobs : GoodRow(job[j])
               /\ \A r \in Runs : GoodRow(basis[r])
               /\ worker \in [Workers -> Work]
BY DEF TypeOK, GoodRow

-----------------------------------------------------------------------------
(* Steps that leave the workers alone *)

\* A change of rows that completes none, leaves completed bases as they are and
\* keeps what results were computed from preserves the invariant.
LEMMA RowsMove ==
    ASSUME IInv, worker' = worker,
           job' = [j \in Jobs |-> job'[j]], basis' = [r \in Runs |-> basis'[r]],
           \A j \in Jobs : \/ job'[j] = job[j]
                           \/ /\ GoodRow(job'[j])
                              /\ job'[j].status = "completed" => job[j].status = "completed"
                              /\ job'[j].used = "basis" => job[j].used = "basis",
           \A r \in Runs : \/ basis'[r] = basis[r]
                           \/ /\ GoodRow(basis'[r]) /\ basis'[r].status # "completed"
                              /\ basis[r].status # "completed"
    PROVE  IInv'
<1>1. TypeOK'
  BY TypeIs DEF IInv, TypeOK, GoodRow
<1>2. \A w \in Workers : worker[w] \in Work
  BY DEF IInv, TypeOK
<1>3. \A w \in Workers :
         /\ worker[w].pc \in {"job", "job refused"} => worker[w].on \in Jobs
         /\ worker[w].pc \in {"basis", "basis refused"} => worker[w].on \in Runs
  BY <1>2 DEF Work
<1>4. HoldsUnsettled'
  BY <1>3 DEF IInv, HoldsUnsettled
<1>5. HasItsBasis'
  BY <1>3, RunOfJob DEF IInv, HasItsBasis
<1>6. TargetIsOnRecord'
  BY RunOfJob DEF IInv, TargetIsOnRecord
<1> QED
  BY <1>1, <1>4, <1>5, <1>6 DEF IInv

LEMMA RowsInv ==
    ASSUME IInv,
           \/ \E r \in Runs, hs \in SUBSET Horizons : Schedule(r, hs)
           \/ \E rs \in SUBSET Runs : RecomputeDirections(rs)
           \/ \E j \in Jobs : Retry(j) \/ JobDue(j) \/ JobLeaseExpires(j)
           \/ \E r \in Runs : BasisDue(r) \/ BasisLeaseExpires(r)
    PROVE  IInv'
<1>1. /\ job = [j \in Jobs |-> job[j]] /\ basis = [r \in Runs |-> basis[r]]
      /\ \A j \in Jobs : GoodRow(job[j]) /\ job[j] \in Row
      /\ \A r \in Runs : GoodRow(basis[r]) /\ basis[r] \in Row
  BY TypeIs DEF IInv, GoodRow
<1>2. ASSUME NEW r \in Runs, NEW hs \in SUBSET Horizons, Schedule(r, hs) PROVE IInv'
  <2>1. worker' = worker /\ job' = [j \in Jobs |-> job'[j]] /\ basis' = [q \in Runs |-> basis'[q]]
    BY <1>1, <1>2 DEF Schedule
  <2>2. \A j \in Jobs : job'[j] = job[j] \/ job'[j] = [Fresh EXCEPT !.status = "scheduled"]
    BY <1>2 DEF Schedule
  <2>3. \A q \in Runs : \/ basis'[q] = basis[q]
                        \/ /\ basis[q].status = "absent"
                           /\ basis'[q] = [Fresh EXCEPT !.status = "scheduled", !.due = TRUE]
    BY <1>1, <1>2 DEF Schedule
  <2> QED
    BY <2>1, <2>2, <2>3, FreshRow, RowsMove
<1>3. ASSUME NEW j \in Jobs, Retry(j) PROVE IInv'
  <2>1. worker' = worker /\ job' = [i \in Jobs |-> job'[i]] /\ basis' = [q \in Runs |-> basis'[q]]
        /\ basis' = basis /\ job'[j] = Reset(job[j], "scheduled")
        /\ \A i \in Jobs : i # j => job'[i] = job[i]
    BY <1>1, <1>3 DEF Retry
  <2> QED
    BY <1>1, <2>1, ResetRow, RowsMove
<1>4. ASSUME NEW j \in Jobs, JobDue(j) PROVE IInv'
  <2>1. worker' = worker /\ job' = [i \in Jobs |-> job'[i]] /\ basis' = [q \in Runs |-> basis'[q]]
        /\ basis' = basis /\ job'[j] = [job[j] EXCEPT !.due = TRUE]
        /\ job[j].status # "completed"
        /\ \A i \in Jobs : i # j => job'[i] = job[i]
    BY <1>1, <1>4 DEF JobDue
  <2>2. GoodRow(job'[j]) /\ job'[j].status # "completed" /\ job'[j].used = job[j].used
    BY <1>1, <2>1, DueRow
  <2> QED
    BY <2>1, <2>2, RowsMove
<1>5. ASSUME NEW j \in Jobs, JobLeaseExpires(j) PROVE IInv'
  <2>1. worker' = worker /\ job' = [i \in Jobs |-> job'[i]] /\ basis' = [q \in Runs |-> basis'[q]]
        /\ basis' = basis /\ job'[j] = [job[j] EXCEPT !.lease = "expired"]
        /\ job[j].lease = "held" /\ job[j].status # "completed"
        /\ \A i \in Jobs : i # j => job'[i] = job[i]
    BY <1>1, <1>5 DEF JobLeaseExpires, GoodRow
  <2>2. GoodRow(job'[j]) /\ job'[j].status # "completed" /\ job'[j].used = job[j].used
    BY <1>1, <2>1, ExpiredRow
  <2> QED
    BY <2>1, <2>2, RowsMove
<1>6. ASSUME NEW r \in Runs, BasisDue(r) PROVE IInv'
  <2>1. worker' = worker /\ job' = [i \in Jobs |-> job'[i]] /\ basis' = [q \in Runs |-> basis'[q]]
        /\ job' = job /\ basis'[r] = [basis[r] EXCEPT !.due = TRUE]
        /\ basis[r].status # "completed"
        /\ \A q \in Runs : q # r => basis'[q] = basis[q]
    BY <1>1, <1>6 DEF BasisDue
  <2> QED
    BY <1>1, <2>1, DueRow, RowsMove
<1>7. ASSUME NEW r \in Runs, BasisLeaseExpires(r) PROVE IInv'
  <2>1. worker' = worker /\ job' = [i \in Jobs |-> job'[i]] /\ basis' = [q \in Runs |-> basis'[q]]
        /\ job' = job /\ basis'[r] = [basis[r] EXCEPT !.lease = "expired"]
        /\ basis[r].lease = "held" /\ basis[r].status # "completed"
        /\ \A q \in Runs : q # r => basis'[q] = basis[q]
    BY <1>1, <1>7 DEF BasisLeaseExpires, GoodRow
  <2> QED
    BY <1>1, <2>1, ExpiredRow, RowsMove
<1>8. ASSUME NEW rs \in SUBSET Runs, RecomputeDirections(rs) PROVE IInv'
  <2>1. worker' = worker /\ job' = [i \in Jobs |-> job'[i]] /\ basis' = [q \in Runs |-> basis'[q]]
        /\ basis' = basis
        /\ \A i \in Jobs : job'[i] \in {job[i], [job[i] EXCEPT !.direction = "recomputed"]}
    BY <1>1, <1>8 DEF RecomputeDirections
  <2>2. \A i \in Jobs : GoodRow(job'[i]) /\ job'[i].status = job[i].status
                        /\ job'[i].used = job[i].used
    BY <1>1, <2>1, RecomputedRow
  <2> QED
    BY <2>1, <2>2, RowsMove
<1> QED
  BY <1>2, <1>3, <1>4, <1>5, <1>6, <1>7, <1>8

-----------------------------------------------------------------------------
(* Steps of the worker *)

\* With one worker, its new work is all the work there is.
LEMMA WorkerMoves ==
    ASSUME OneWorker, IInv, NEW w \in Workers, NEW work \in Work, Goes(w, work),
           job' = [j \in Jobs |-> job'[j]], basis' = [r \in Runs |-> basis'[r]],
           \A j \in Jobs : GoodRow(job'[j]), \A r \in Runs : GoodRow(basis'[r]),
           work.pc \in {"job", "job refused"} =>
               /\ job'[work.on].status # "completed"
               /\ work.with = "basis" => basis'[RunOf(work.on)].status = "completed",
           work.pc \in {"basis", "basis refused"} => basis'[work.on].status # "completed",
           \A r \in Runs : basis[r].status = "completed" => basis'[r].status = "completed",
           \A j \in Jobs : job'[j].used = "basis" =>
               job[j].used = "basis" \/ basis'[RunOf(j)].status = "completed"
    PROVE  IInv'
<1>1. worker' = [v \in Workers |-> work]
  BY DEF OneWorker, Goes, IInv, TypeOK
<1>2. worker' \in [Workers -> Work]
  BY <1>1
<1>3. TypeOK'
  BY <1>2 DEF TypeOK, GoodRow
<1>4. HoldsUnsettled'
  BY <1>1 DEF HoldsUnsettled
<1>5. HasItsBasis'
  BY <1>1 DEF HasItsBasis
<1>6. TargetIsOnRecord'
  BY RunOfJob DEF IInv, TargetIsOnRecord
<1> QED
  BY <1>3, <1>4, <1>5, <1>6 DEF IInv

LEMMA IdleIs == Idle \in Work /\ Idle.pc = "idle"
BY DEF Idle, Work

LEMMA Rows ==
    ASSUME IInv
    PROVE  /\ job = [j \in Jobs |-> job[j]] /\ basis = [r \in Runs |-> basis[r]]
           /\ \A j \in Jobs : GoodRow(job[j]) /\ job[j] \in Row
           /\ \A r \in Runs : GoodRow(basis[r]) /\ basis[r] \in Row
BY TypeIs DEF IInv, GoodRow

LEMMA Held ==
    ASSUME IInv, NEW w \in Workers
    PROVE  /\ worker[w].pc \in {"job", "job refused"} =>
                 /\ worker[w].on \in Jobs /\ worker[w].with \in {"basis", "no basis"}
                 /\ worker[w] \in [pc : {"job", "job refused"}, on : Jobs,
                                   with : {"basis", "no basis"}]
           /\ worker[w].pc \in {"basis", "basis refused"} => worker[w].on \in Runs
<1>1. worker[w] \in Work
  BY DEF IInv, TypeOK
<1> QED
  BY <1>1 DEF Work

\* The recovery of expired claims touches running rows only.
LEMMA Recovered ==
    ASSUME IInv
    PROVE  /\ RecoveredBases = [r \in Runs |-> RecoveredBases[r]]
           /\ \A r \in Runs :
                 /\ GoodRow(RecoveredBases[r]) /\ RecoveredBases[r] \in Row
                 /\ basis[r].status = "completed" => RecoveredBases[r] = basis[r]
BY Rows, ResetRow DEF RecoveredBases, Expired, GoodRow

LEMMA BasisInv ==
    ASSUME OneWorker, IInv, NEW w \in Workers,
           ClaimBasis(w) \/ FindsNoBasis(w) \/ CompleteBasis(w) \/ BasisFails(w)
    PROVE  IInv'
<1>1. CASE ClaimBasis(w)
  <2>1. PICK r \in Runs : /\ Claimable(RecoveredBases[r])
                          /\ basis' = [RecoveredBases EXCEPT ![r] = Claimed(@)]
                          /\ Goes(w, [pc |-> "basis", on |-> r])
    BY <1>1 DEF ClaimBasis
  <2> DEFINE work == [pc |-> "basis", on |-> r]
  <2>2. work \in Work /\ work.pc = "basis" /\ work.on = r
    BY DEF Work
  <2>3. Goes(w, work)
    BY <2>1
  <2> HIDE DEF work
  <2>4. job' = job
    BY <1>1 DEF ClaimBasis
  <2>5. /\ basis' = [q \in Runs |-> basis'[q]]
        /\ basis'[r] = Claimed(RecoveredBases[r])
        /\ \A q \in Runs : q # r => basis'[q] = RecoveredBases[q]
    BY <2>1, Recovered
  <2>6. basis[r].status # "completed"
    BY <2>1, Recovered DEF Claimable
  <2>7. GoodRow(basis'[r]) /\ basis'[r].status = "running"
    BY <2>5, Recovered, ClaimedRow
  <2>8. \A q \in Runs : /\ GoodRow(basis'[q])
                        /\ basis[q].status = "completed" => basis'[q].status = "completed"
    BY <2>5, <2>6, <2>7, Recovered
  <2>9. /\ work.pc \notin {"job", "job refused"} /\ basis'[work.on].status # "completed"
        /\ basis' = [q \in Runs |-> basis'[q]]
    BY <2>2, <2>5, <2>7
  <2> QED
    BY <2>2, <2>3, <2>4, <2>8, <2>9, Rows, WorkerMoves
<1>2. CASE FindsNoBasis(w)
  <2> DEFINE work == [pc |-> "looking"]
  <2>1. work \in Work /\ work.pc = "looking"
    BY DEF Work
  <2>2. Goes(w, work) /\ job' = job /\ basis' = RecoveredBases
    BY <1>2 DEF FindsNoBasis
  <2> HIDE DEF work
  <2> QED
    BY <2>1, <2>2, Recovered, Rows, WorkerMoves
<1>3. CASE CompleteBasis(w)
  <2> DEFINE r == worker[w].on
  <2>1. r \in Runs /\ job' = job
    BY <1>3, Held DEF CompleteBasis
  <2>2. CASE basis' = [basis EXCEPT ![r] = Released(@, "completed")] /\ Goes(w, Idle)
    <3>1. /\ basis' = [q \in Runs |-> basis'[q]] /\ basis'[r] = Released(basis[r], "completed")
          /\ \A q \in Runs : q # r => basis'[q] = basis[q]
      BY <2>1, <2>2, Rows
    <3> QED
      BY <2>1, <2>2, <3>1, Rows, ReleasedRow, IdleIs, WorkerMoves
  <2>3. CASE Goes(w, [pc |-> "basis refused", on |-> r]) /\ basis' = basis
    <3> DEFINE work == [pc |-> "basis refused", on |-> r]
    <3>1. work \in Work /\ work.pc = "basis refused" /\ work.on = r
      BY <2>1 DEF Work
    <3>2. Goes(w, work)
      BY <2>3
    <3>3. basis[r].status # "completed"
      BY <1>3 DEF CompleteBasis, IInv, HoldsUnsettled
    <3> HIDE DEF work
    <3> QED
      BY <2>1, <2>3, <3>1, <3>2, <3>3, Rows, WorkerMoves
  <2> QED
    BY <1>3, <2>2, <2>3 DEF CompleteBasis
<1>4. CASE BasisFails(w)
  <2> DEFINE r == worker[w].on
  <2>1. r \in Runs /\ job' = job /\ Goes(w, Idle) /\ basis[r].status # "completed"
    BY <1>4, Held DEF BasisFails, IInv, HoldsUnsettled
  <2>2. PICK s \in {"retry_wait", "unavailable"} : basis' = [basis EXCEPT ![r] = Released(@, s)]
    BY <1>4 DEF BasisFails
  <2>3. /\ basis' = [q \in Runs |-> basis'[q]] /\ basis'[r] = Released(basis[r], s)
        /\ \A q \in Runs : q # r => basis'[q] = basis[q]
    BY <2>1, <2>2, Rows
  <2> HIDE DEF r
  <2>4. GoodRow(basis'[r])
    <3>1. basis[r] \in Row /\ basis'[r] = Released(basis[r], s)
      BY <2>1, <2>3, Rows
    <3> QED
      BY <3>1, ReleasedRow
  <2>5. \A q \in Runs : /\ GoodRow(basis'[q])
                        /\ basis[q].status = "completed" => basis'[q].status = "completed"
    BY <2>1, <2>3, <2>4, Rows
  <2> QED
    BY <2>1, <2>3, <2>5, IdleIs, Rows, WorkerMoves
<1> QED
  BY <1>1, <1>2, <1>3, <1>4

LEMMA ClaimInv ==
    ASSUME OneWorker, IInv, NEW w \in Workers,
           CountRunning(w) \/ FindsNoJob(w) \/ Abandon(w) \/ \E j \in Jobs : TakeJob(w, j)
    PROVE  IInv'
<1>1. CASE CountRunning(w)
  <2> DEFINE counted == [pc |-> "counted"]
  <2>1. counted \in Work /\ counted.pc = "counted"
    BY DEF Work
  <2>2. Goes(w, counted) \/ Goes(w, Idle)
    BY <1>1 DEF CountRunning, counted
  <2>3. /\ job' = [j \in Jobs |-> job'[j]] /\ basis' = basis
        /\ \A j \in Jobs : job'[j] = job[j] \/ job'[j] = Reset(job[j], "scheduled")
    BY <1>1 DEF CountRunning
  <2> HIDE DEF counted
  <2>4. \A j \in Jobs : GoodRow(job'[j]) /\ job'[j].used = job[j].used
    BY <2>3, Rows, ResetRow
  <2> QED
    BY <2>1, <2>2, <2>3, <2>4, IdleIs, Rows, WorkerMoves
<1>2. CASE FindsNoJob(w) \/ Abandon(w)
  <2>1. Goes(w, Idle) /\ job' = job /\ basis' = basis
    BY <1>2 DEF FindsNoJob, Abandon
  <2> QED
    BY <2>1, IdleIs, Rows, WorkerMoves
<1>3. ASSUME NEW j \in Jobs, TakeJob(w, j) PROVE IInv'
  <2> DEFINE work == [pc |-> "job", on |-> j,
                      with |-> IF basis[RunOf(j)].status = "completed"
                               THEN "basis" ELSE "no basis"]
  <2>1. /\ work \in Work /\ work.pc = "job" /\ work.on = j
        /\ work.with = "basis" => basis[RunOf(j)].status = "completed"
    BY DEF Work
  <2>2. Goes(w, work) /\ basis' = basis /\ job' = [job EXCEPT ![j] = Claimed(@)]
    BY <1>3 DEF TakeJob
  <2> HIDE DEF work
  <2>3. /\ job' = [i \in Jobs |-> job'[i]] /\ job'[j] = Claimed(job[j])
        /\ \A i \in Jobs : i # j => job'[i] = job[i]
    BY <2>2, Rows
  <2>4. GoodRow(job'[j]) /\ job'[j].status = "running" /\ job'[j].used = job[j].used
    <3>1. job[j] \in Row /\ job'[j] = Claimed(job[j])
      BY <2>3, Rows
    <3> QED
      BY <3>1, ClaimedRow
  <2>5. \A i \in Jobs : GoodRow(job'[i]) /\ job'[i].used = job[i].used
    BY <2>3, <2>4, Rows
  <2>6. job'[work.on].status # "completed"
    BY <2>1, <2>4
  <2> QED
    BY <2>1, <2>2, <2>3, <2>5, <2>6, Rows, WorkerMoves
<1> QED
  BY <1>1, <1>2, <1>3

LEMMA JobInv ==
    ASSUME OneWorker, IInv, NEW w \in Workers, CompleteJob(w) \/ JobFails(w)
    PROVE  IInv'
<1> DEFINE j == worker[w].on
           mine == worker[w].with
<1>1. /\ j \in Jobs /\ mine \in {"basis", "no basis"} /\ RunOf(j) \in Runs
      /\ basis' = basis /\ job[j].status # "completed"
      /\ mine = "basis" => basis[RunOf(j)].status = "completed"
  BY Held, RunOfJob DEF CompleteJob, JobFails, IInv, HoldsUnsettled, HasItsBasis
<1>2. CASE /\ job' = [job EXCEPT ![j] = [Released(@, "completed") EXCEPT !.used = mine,
                                                                       !.direction = "computed"]]
           /\ Goes(w, Idle)
  <2>1. /\ job' = [i \in Jobs |-> job'[i]]
        /\ job'[j] = [Released(job[j], "completed") EXCEPT !.used = mine, !.direction = "computed"]
        /\ \A i \in Jobs : i # j => job'[i] = job[i]
    BY <1>1, <1>2, Rows
  <2>2. GoodRow(Released(job[j], "completed")) /\ Released(job[j], "completed") \in Row
    BY <1>1, Rows, ReleasedRow DEF GoodRow
  <2>3. GoodRow(job'[j]) /\ job'[j].used = mine
    <3> DEFINE row == Released(job[j], "completed")
    <3>1. row \in Row /\ GoodRow(row) /\ job'[j] = [row EXCEPT !.used = mine, !.direction = "computed"]
      BY <2>1, <2>2
    <3>2. mine \in {"basis", "no basis"}
      BY <1>1
    <3> HIDE DEF row, mine
    <3>3. LET new == [row EXCEPT !.used = mine, !.direction = "computed"]
          IN  GoodRow(new) /\ new.used = mine
      BY <3>1, <3>2, UsedRow
    <3> QED
      BY <3>1, <3>3
  <2> HIDE DEF j, mine
  <2>4. \A i \in Jobs : /\ GoodRow(job'[i])
                        /\ job'[i].used = "basis" =>
                              job[i].used = "basis" \/ basis'[RunOf(i)].status = "completed"
    BY <1>1, <2>1, <2>3, Rows
  <2>5. Goes(w, Idle) /\ basis' = basis /\ job' = [i \in Jobs |-> job'[i]]
    BY <1>1, <1>2, <2>1
  <2> QED
    BY <2>4, <2>5, IdleIs, Rows, WorkerMoves
<1>3. CASE /\ worker[w].pc = "job" /\ Goes(w, [worker[w] EXCEPT !.pc = "job refused"])
           /\ job' = job
  <2> DEFINE work == [worker[w] EXCEPT !.pc = "job refused"]
  <2>1. worker[w] \in [pc : {"job", "job refused"}, on : Jobs, with : {"basis", "no basis"}]
    BY <1>3, Held
  <2>2. /\ work \in Work /\ work.pc = "job refused" /\ work.on = j /\ work.with = mine
    BY <2>1 DEF Work
  <2>3. Goes(w, work)
    BY <1>3
  <2> HIDE DEF work
  <2> QED
    BY <1>1, <1>3, <2>2, <2>3, Rows, WorkerMoves
<1>4. CASE JobFails(w)
  <2>1. PICK s \in {"retry_wait", "unavailable", "failed"} :
           job' = [job EXCEPT ![j] = Released(@, s)]
    BY <1>4 DEF JobFails
  <2>2. /\ job' = [i \in Jobs |-> job'[i]] /\ job'[j] = Released(job[j], s)
        /\ \A i \in Jobs : i # j => job'[i] = job[i]
    BY <1>1, <2>1, Rows
  <2>3. Goes(w, Idle)
    BY <1>4 DEF JobFails
  <2> HIDE DEF j
  <2>4. GoodRow(job'[j]) /\ job'[j].used = job[j].used
    <3>1. job[j] \in Row /\ job'[j] = Released(job[j], s)
      BY <1>1, <2>2, Rows
    <3> QED
      BY <3>1, ReleasedRow
  <2> QED
    BY <1>1, <2>2, <2>3, <2>4, IdleIs, Rows, WorkerMoves
<1> QED
  BY <1>2, <1>3, <1>4 DEF CompleteJob

-----------------------------------------------------------------------------

LEMMA InitInv == Init => IInv
<1> SUFFICES ASSUME Init PROVE IInv
  OBVIOUS
<1>1. worker \in [Workers -> Work]
  BY IdleIs DEF Init
<1>2. TypeOK
  BY <1>1, TypeIs, FreshRow DEF Init
<1>3. HoldsUnsettled /\ HasItsBasis
  BY IdleIs DEF Init, HoldsUnsettled, HasItsBasis
<1>4. TargetIsOnRecord
  BY FreshRow DEF Init, TargetIsOnRecord
<1> QED
  BY <1>2, <1>3, <1>4 DEF IInv

LEMMA Inductive == ASSUME OneWorker PROVE IInv /\ [Next]_vars => IInv'
<1> SUFFICES ASSUME IInv, [Next]_vars PROVE IInv'
  OBVIOUS
<1>1. CASE UNCHANGED vars
  BY <1>1, RowsMove, Rows DEF vars
<1>2. ASSUME NEW w \in Workers, RunOnce(w) \/ Abandon(w) PROVE IInv'
  BY <1>2, BasisInv, ClaimInv, JobInv DEF RunOnce, Settle
<1> QED
  BY <1>1, <1>2, RowsInv DEF Next

\* With one worker, a result that was computed from the target-price basis of its
\* run has a completed basis to show for it, however claims expire and rows are
\* recovered, retried and scheduled again.
THEOREM Targets == ASSUME OneWorker PROVE Spec => []TargetIsOnRecord
<1>1. Init => IInv
  BY InitInv
<1>2. IInv /\ [Next]_vars => IInv'
  BY Inductive
<1>3. IInv => TargetIsOnRecord
  BY DEF IInv
<1> QED
  BY <1>1, <1>2, <1>3, PTL DEF Spec

\* A row that is completed stays as it is, but for the direction of a result.
LEMMA CompletedStays ==
    ASSUME IInv, [Next]_vars
    PROVE  /\ \A j \in Jobs : job[j].status = "completed" =>
                  job'[j] \in {job[j], [job[j] EXCEPT !.direction = "recomputed"]}
           /\ \A r \in Runs : basis[r].status = "completed" => basis'[r] = basis[r]
<1> SUFFICES ASSUME Next
             PROVE  /\ \A j \in Jobs : job[j].status = "completed" =>
                           job'[j] \in {job[j], [job[j] EXCEPT !.direction = "recomputed"]}
                    /\ \A r \in Runs : basis[r].status = "completed" => basis'[r] = basis[r]
  BY DEF vars
<1>1. ASSUME NEW r \in Runs, NEW hs \in SUBSET Horizons, Schedule(r, hs)
      PROVE  /\ \A j \in Jobs : job[j].status = "completed" => job'[j] = job[j]
             /\ \A q \in Runs : basis[q].status = "completed" => basis'[q] = basis[q]
  BY <1>1, Rows DEF Schedule
<1>2. ASSUME NEW j \in Jobs, Retry(j) \/ JobDue(j) \/ JobLeaseExpires(j)
      PROVE  job[j].status # "completed" /\ basis' = basis
             /\ \A i \in Jobs : i # j => job'[i] = job[i]
  BY <1>2, Rows DEF Retry, Expired, JobDue, JobLeaseExpires, GoodRow
<1>3. ASSUME NEW r \in Runs, BasisDue(r) \/ BasisLeaseExpires(r)
      PROVE  basis[r].status # "completed" /\ job' = job
             /\ \A q \in Runs : q # r => basis'[q] = basis[q]
  BY <1>3, Rows DEF BasisDue, BasisLeaseExpires, GoodRow
<1>4. ASSUME NEW w \in Workers, ClaimBasis(w)
      PROVE  job' = job /\ \A q \in Runs : basis[q].status = "completed" => basis'[q] = basis[q]
  BY <1>4, Recovered DEF ClaimBasis, Claimable
<1>5. ASSUME NEW w \in Workers, CompleteBasis(w) \/ BasisFails(w)
      PROVE  job' = job /\ \A q \in Runs : basis[q].status = "completed" => basis'[q] = basis[q]
  BY <1>5, Rows DEF CompleteBasis, BasisFails, IInv, HoldsUnsettled
<1>6. ASSUME NEW w \in Workers, CompleteJob(w) \/ JobFails(w)
      PROVE  basis' = basis /\ \A j \in Jobs : job[j].status = "completed" => job'[j] = job[j]
  BY <1>6, Rows DEF CompleteJob, JobFails, IInv, HoldsUnsettled
<1>7. ASSUME NEW w \in Workers, NEW j \in Jobs, TakeJob(w, j)
      PROVE  basis' = basis /\ \A i \in Jobs : job[i].status = "completed" => job'[i] = job[i]
  BY <1>7, Rows DEF TakeJob, Claimable
<1>8. ASSUME NEW w \in Workers, FindsNoBasis(w)
      PROVE  job' = job /\ \A q \in Runs : basis[q].status = "completed" => basis'[q] = basis[q]
  BY <1>8, Recovered DEF FindsNoBasis
<1>9. ASSUME NEW w \in Workers, CountRunning(w) \/ FindsNoJob(w) \/ Abandon(w)
      PROVE  basis' = basis /\ \A j \in Jobs : job[j].status = "completed" => job'[j] = job[j]
  BY <1>9 DEF CountRunning, FindsNoJob, Abandon, Expired
<1>10. ASSUME NEW rs \in SUBSET Runs, RecomputeDirections(rs)
       PROVE  /\ basis' = basis
              /\ \A j \in Jobs : job'[j] \in {job[j], [job[j] EXCEPT !.direction = "recomputed"]}
  BY <1>10 DEF RecomputeDirections
<1> QED
  BY <1>1, <1>2, <1>3, <1>4, <1>5, <1>6, <1>7, <1>8, <1>9, <1>10 DEF Next, RunOnce, Settle

\* With one worker, a stored result and a frozen basis are never rewritten: not by
\* a late answer, a recovery, a retry or a second schedule.  Of a result only the
\* direction ever changes, and to a recomputed one: recompute_directions leaves the
\* rest of what it rewrites as it is.
THEOREM Results == ASSUME OneWorker PROVE Spec => CompletedIsFinal
<1>1. Init => IInv
  BY InitInv
<1>2. IInv /\ [Next]_vars => IInv'
  BY Inductive
<1>3. IInv /\ [Next]_vars
      => [/\ \A j \in Jobs : job[j].status = "completed" =>
                job'[j] \in {job[j], [job[j] EXCEPT !.direction = "recomputed"]}
          /\ \A r \in Runs : basis[r].status = "completed" => basis'[r] = basis[r]]_vars
  BY CompletedStays
<1> QED
  BY <1>1, <1>2, <1>3, PTL DEF Spec, CompletedIsFinal

-----------------------------------------------------------------------------
(* Typing, whatever the workers *)

\* Rows stay well formed if the one that a step sets is.
LEMMA RowIsSet ==
    ASSUME NEW S, NEW rows, rows = [x \in S |-> rows[x]], \A x \in S : GoodRow(rows[x]),
           NEW i \in S, NEW row, GoodRow(row)
    PROVE  LET new == [rows EXCEPT ![i] = row]
           IN  new = [x \in S |-> new[x]] /\ \A x \in S : GoodRow(new[x])
OBVIOUS

\* The rows after a step are well formed, whoever settles whatever it still holds.
LEMMA RowsStayGood ==
    ASSUME TypeOK, Next
    PROVE  /\ job' = [j \in Jobs |-> job'[j]] /\ \A j \in Jobs : GoodRow(job'[j])
           /\ basis' = [r \in Runs |-> basis'[r]] /\ \A r \in Runs : GoodRow(basis'[r])
<1> DEFINE JobsGood(rows) == rows = [j \in Jobs |-> rows[j]] /\ \A j \in Jobs : GoodRow(rows[j])
           BasesGood(rows) == rows = [r \in Runs |-> rows[r]] /\ \A r \in Runs : GoodRow(rows[r])
<1>1. JobsGood(job) /\ BasesGood(basis) /\ \A w \in Workers : worker[w] \in Work
  BY TypeIs
<1>2. \A j \in Jobs : job[j] \in Row
  BY <1>1 DEF GoodRow
<1>3. \A r \in Runs : basis[r] \in Row
  BY <1>1 DEF GoodRow
<1>4. \A w \in Workers :
         /\ worker[w].pc \in {"job", "job refused"} =>
               worker[w].on \in Jobs /\ worker[w].with \in {"basis", "no basis"}
         /\ worker[w].pc \in {"basis", "basis refused"} => worker[w].on \in Runs
  BY <1>1 DEF Work
<1>5. ASSUME NEW i \in Jobs, NEW row, GoodRow(row), job' = [job EXCEPT ![i] = row]
      PROVE  JobsGood(job')
  BY <1>1, <1>5, RowIsSet
<1>6. ASSUME NEW i \in Runs, NEW row, GoodRow(row), basis' = [basis EXCEPT ![i] = row]
      PROVE  BasesGood(basis')
  BY <1>1, <1>6, RowIsSet
<1>7. BasesGood(RecoveredBases) /\ \A r \in Runs : RecoveredBases[r] \in Row
  BY <1>1, <1>3, ResetRow DEF RecoveredBases, GoodRow
<1> SUFFICES JobsGood(job') /\ BasesGood(basis')
  OBVIOUS
<1>8. ASSUME NEW r \in Runs, NEW hs \in SUBSET Horizons, Schedule(r, hs)
      PROVE  JobsGood(job') /\ BasesGood(basis')
  <2>1. JobsGood(job')
    BY <1>1, <1>8, FreshRow DEF Schedule
  <2>2. basis' = [basis EXCEPT ![r] =
                     IF r \in Targeted /\ basis[r].status = "absent"
                     THEN [Fresh EXCEPT !.status = "scheduled", !.due = TRUE] ELSE basis[r]]
    BY <1>8 DEF Schedule
  <2> HIDE DEF JobsGood, BasesGood
  <2>3. GoodRow(basis[r])
    BY <1>1 DEF BasesGood
  <2> QED
    BY <1>6, <2>1, <2>2, <2>3, FreshRow
<1>9. ASSUME NEW j \in Jobs, Retry(j) \/ JobDue(j) \/ JobLeaseExpires(j)
      PROVE  JobsGood(job') /\ BasesGood(basis')
  <2>1. PICK row : job' = [job EXCEPT ![j] = row] /\ GoodRow(row)
    <3>1. CASE Retry(j)
      BY <1>2, <3>1, ResetRow DEF Retry
    <3>2. CASE JobDue(j)
      BY <1>1, <1>2, <3>2, DueRow DEF JobDue
    <3>3. CASE JobLeaseExpires(j)
      BY <1>1, <1>2, <3>3, ExpiredRow DEF JobLeaseExpires
    <3> QED
      BY <1>9, <3>1, <3>2, <3>3
  <2>2. basis' = basis
    BY <1>9 DEF Retry, JobDue, JobLeaseExpires
  <2> QED
    BY <1>1, <1>5, <2>1, <2>2
<1>10. ASSUME NEW r \in Runs, BasisDue(r) \/ BasisLeaseExpires(r)
       PROVE  JobsGood(job') /\ BasesGood(basis')
  <2>1. PICK row : basis' = [basis EXCEPT ![r] = row] /\ GoodRow(row)
    <3>1. CASE BasisDue(r)
      BY <1>1, <1>3, <3>1, DueRow DEF BasisDue
    <3>2. CASE BasisLeaseExpires(r)
      BY <1>1, <1>3, <3>2, ExpiredRow DEF BasisLeaseExpires
    <3> QED
      BY <1>10, <3>1, <3>2
  <2>2. job' = job
    BY <1>10 DEF BasisDue, BasisLeaseExpires
  <2> QED
    BY <1>1, <1>6, <2>1, <2>2
<1>11. ASSUME NEW w \in Workers, ClaimBasis(w) \/ FindsNoBasis(w)
       PROVE  JobsGood(job') /\ BasesGood(basis')
  <2>1. job' = job
    BY <1>11 DEF ClaimBasis, FindsNoBasis
  <2>2. CASE ClaimBasis(w)
    <3>1. PICK r \in Runs : basis' = [RecoveredBases EXCEPT ![r] = Claimed(RecoveredBases[r])]
      BY <2>2 DEF ClaimBasis
    <3>2. GoodRow(Claimed(RecoveredBases[r]))
      BY <1>7, ClaimedRow
    <3> QED
      BY <1>1, <1>7, <2>1, <3>1, <3>2, RowIsSet
  <2>3. CASE FindsNoBasis(w)
    BY <1>1, <1>7, <2>1, <2>3 DEF FindsNoBasis
  <2> QED
    BY <1>11, <2>2, <2>3
<1>12. ASSUME NEW w \in Workers, CompleteBasis(w) \/ BasisFails(w)
       PROVE  JobsGood(job') /\ BasesGood(basis')
  <2>1. job' = job /\ worker[w].on \in Runs
    BY <1>4, <1>12 DEF CompleteBasis, BasisFails
  <2>2. \/ basis' = basis
        \/ \E s \in {"completed", "retry_wait", "unavailable"} :
              basis' = [basis EXCEPT ![worker[w].on] = Released(basis[worker[w].on], s)]
    BY <1>12 DEF CompleteBasis, BasisFails
  <2>3. \A s \in {"completed", "retry_wait", "unavailable"} :
           GoodRow(Released(basis[worker[w].on], s))
    BY <1>3, <2>1, ReleasedRow
  <2> HIDE DEF JobsGood, BasesGood
  <2> QED
    BY <1>1, <1>6, <2>1, <2>2, <2>3
<1>13. ASSUME NEW w \in Workers, CountRunning(w) PROVE JobsGood(job') /\ BasesGood(basis')
  <2>1. /\ basis' = basis
        /\ job' = [j \in Jobs |-> IF Expired(job[j]) THEN Reset(job[j], "scheduled") ELSE job[j]]
    BY <1>13 DEF CountRunning
  <2> QED
    BY <1>1, <1>2, <2>1, ResetRow
<1>14. ASSUME NEW w \in Workers, NEW j \in Jobs, TakeJob(w, j)
       PROVE  JobsGood(job') /\ BasesGood(basis')
  <2>1. basis' = basis /\ job' = [job EXCEPT ![j] = Claimed(job[j])]
    BY <1>14 DEF TakeJob
  <2>2. GoodRow(Claimed(job[j]))
    BY <1>2, ClaimedRow
  <2> QED
    BY <1>1, <1>5, <2>1, <2>2
<1>15. ASSUME NEW w \in Workers, CompleteJob(w) \/ JobFails(w)
       PROVE  JobsGood(job') /\ BasesGood(basis')
  <2> DEFINE i == worker[w].on
  <2>1. basis' = basis /\ i \in Jobs /\ worker[w].with \in {"basis", "no basis"}
    BY <1>4, <1>15 DEF CompleteJob, JobFails
  <2>2. \/ job' = job
        \/ job' = [job EXCEPT ![i] = [Released(job[i], "completed")
                                          EXCEPT !.used = worker[w].with, !.direction = "computed"]]
        \/ \E s \in {"retry_wait", "unavailable", "failed"} :
              job' = [job EXCEPT ![i] = Released(job[i], s)]
    BY <1>15 DEF CompleteJob, JobFails
  <2> HIDE DEF i
  <2>3. \A s \in {"completed", "retry_wait", "unavailable", "failed"} :
           GoodRow(Released(job[i], s)) /\ Released(job[i], s) \in Row
    <3>1. job[i] \in Row /\ \A row : GoodRow(row) => row \in Row
      BY <1>2, <2>1 DEF GoodRow
    <3> QED
      BY <3>1, ReleasedRow
  <2>4. GoodRow([Released(job[i], "completed") EXCEPT !.used = worker[w].with,
                                                         !.direction = "computed"])
    BY <2>1, <2>3, UsedRow
  <2> HIDE DEF JobsGood, BasesGood
  <2> QED
    BY <1>1, <1>5, <2>1, <2>2, <2>3, <2>4
<1>16. ASSUME NEW w \in Workers, FindsNoJob(w) \/ Abandon(w)
       PROVE  JobsGood(job') /\ BasesGood(basis')
  BY <1>1, <1>16 DEF FindsNoJob, Abandon
<1>17. ASSUME NEW rs \in SUBSET Runs, RecomputeDirections(rs)
       PROVE  JobsGood(job') /\ BasesGood(basis')
  <2>1. /\ basis' = basis /\ job' = [j \in Jobs |-> job'[j]]
        /\ \A j \in Jobs : job'[j] \in {job[j], [job[j] EXCEPT !.direction = "recomputed"]}
    BY <1>1, <1>17 DEF RecomputeDirections
  <2>2. \A j \in Jobs : GoodRow(job'[j])
    BY <1>1, <1>2, <2>1, RecomputedRow
  <2> QED
    BY <1>1, <2>1, <2>2
<1> QED
  BY <1>8, <1>9, <1>10, <1>11, <1>12, <1>13, <1>14, <1>15, <1>16, <1>17
  DEF Next, RunOnce, Settle

LEMMA WorkStaysGood == ASSUME TypeOK, Next PROVE worker' \in [Workers -> Work]
<1>1. \A w \in Workers : worker[w] \in Work
  BY DEF TypeOK
<1>2. ASSUME NEW w \in Workers, NEW work \in Work, Goes(w, work)
      PROVE  worker' \in [Workers -> Work]
  BY <1>2 DEF TypeOK, Goes
<1>3. /\ Idle \in Work /\ [pc |-> "looking"] \in Work /\ [pc |-> "counted"] \in Work
      /\ \A r \in Runs : [pc |-> "basis", on |-> r] \in Work
                        /\ [pc |-> "basis refused", on |-> r] \in Work
      /\ \A j \in Jobs : \A b \in {"basis", "no basis"} :
              [pc |-> "job", on |-> j, with |-> b] \in Work
  BY DEF Idle, Work
<1>4. ASSUME NEW w \in Workers, ClaimBasis(w) \/ FindsNoBasis(w) \/ CompleteBasis(w)
                                \/ BasisFails(w)
      PROVE  worker' \in [Workers -> Work]
  <2>1. worker[w].pc = "basis" => worker[w].on \in Runs
    BY <1>1 DEF Work
  <2> QED
    BY <1>2, <1>3, <1>4, <2>1 DEF ClaimBasis, FindsNoBasis, CompleteBasis, BasisFails
<1>5. ASSUME NEW w \in Workers, CountRunning(w) \/ FindsNoJob(w) \/ JobFails(w) \/ Abandon(w)
      PROVE  worker' \in [Workers -> Work]
  BY <1>2, <1>3, <1>5 DEF CountRunning, FindsNoJob, JobFails, Abandon
<1>6. ASSUME NEW w \in Workers, NEW j \in Jobs, TakeJob(w, j)
      PROVE  worker' \in [Workers -> Work]
  BY <1>2, <1>3, <1>6 DEF TakeJob
<1>7. ASSUME NEW w \in Workers, CompleteJob(w) PROVE worker' \in [Workers -> Work]
  <2>1. Goes(w, Idle) \/ Goes(w, [worker[w] EXCEPT !.pc = "job refused"])
    BY <1>7 DEF CompleteJob
  <2>2. worker[w] \in [pc : {"job", "job refused"}, on : Jobs, with : {"basis", "no basis"}]
    BY <1>1, <1>7 DEF CompleteJob, Work
  <2>3. [worker[w] EXCEPT !.pc = "job refused"] \in Work
    BY <2>2 DEF Work
  <2> QED
    BY <1>2, <1>3, <2>1, <2>3
<1>8. ASSUME worker' = worker PROVE worker' \in [Workers -> Work]
  BY <1>8 DEF TypeOK
<1> QED
  BY <1>4, <1>5, <1>6, <1>7, <1>8
  DEF Next, RunOnce, Settle, Schedule, RecomputeDirections, Retry, JobDue, JobLeaseExpires,
      BasisDue, BasisLeaseExpires

LEMMA TypeInit == Init => TypeOK
BY InitInv DEF IInv

LEMMA TypeStep == TypeOK /\ [Next]_vars => TypeOK'
<1> SUFFICES ASSUME TypeOK, [Next]_vars PROVE TypeOK'
  OBVIOUS
<1>1. CASE UNCHANGED vars
  BY <1>1 DEF vars, TypeOK, Work, Row, Jobs
<1>2. CASE Next
  BY <1>2, RowsStayGood, WorkStaysGood DEF TypeOK, GoodRow
<1> QED
  BY <1>1, <1>2

\* For any number of workers, also late ones that settle a row another one holds by
\* now: a row carries the columns of a lease exactly while it is running, so that a
\* claim can always be found and returned.
THEOREM Typing == Spec => []TypeOK
BY TypeInit, TypeStep, PTL DEF Spec
=============================================================================
