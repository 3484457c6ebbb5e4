--------------------------- MODULE IntegrityLedger ---------------------------
(***************************************************************************)
(* What the platform remembers of finished runs, and whom it trusts.       *)
(*                                                                         *)
(* A run that succeeds has a verdict about its integrity; audits add       *)
(* verdicts, and the latest one decides whether the run is counted in the  *)
(* statistics and remembered by later runs of its ticker.  What a run      *)
(* remembers is pinned in a snapshot when it is admitted.  A run that is   *)
(* not safe may be assessed again, without memory; administrators may      *)
(* delete what nothing else refers to.                                     *)
(*                                                                         *)
(* Every operation is one transaction that takes the lock of its run first *)
(* and reads afterwards, so that it is one step here.  All runs are of one *)
(* ticker, and of days that are over.                                      *)
(***************************************************************************)
EXTENDS Integers, Sequences, FiniteSets

CONSTANTS AnalysisDays,  \* the days for which runs are submitted
          MaxRuns,       \* bound on the runs there are at a time
          Horizons,      \* the sessions after which a run is validated
          MemoryLimit,   \* entries of a memory
          MaxVerdicts    \* bound on the verdicts of a run

VARIABLES
    ledger,     \* the rows of assessment_runs with all that belongs to them
    batches,    \* the idempotency keys of assessment_batches, with their mode
    snapshots   \* the rows of run_config_snapshots

ledgerVars == <<ledger, batches, snapshots>>

Runs == 1 .. MaxRuns

Absent ==
    [status |-> "absent", day |-> 0, retryOf |-> 0, cleanOf |-> 0, batch |-> <<>>,
     snapshot |-> {}, verdicts |-> <<>>, matured |-> {}]

Present(r) == ledger[r].status # "absent"
Succeeded(r) == ledger[r].status = "succeeded"
Created == {r \in Runs : Present(r)}

ModeOf(r) == (CHOOSE b \in batches : b.key = ledger[r].batch).mode

\* A submission has a batch of its own, a clean reassessment one that is named
\* after its source.
OwnKey(r) == <<"own", r>>
CleanKey(r) == <<"clean", r>>

\* There is a run from before verdicts were given; it has no memory.
Init ==
    /\ \E day \in AnalysisDays :
          LET content == [day |-> day, mode |-> "historical", memory |-> {}]
          IN /\ ledger = [r \in Runs |->
                            IF r # 1 THEN Absent
                            ELSE [Absent EXCEPT !.day = day, !.batch = OwnKey(1),
                                    !.status = "succeeded", !.snapshot = {content}]]
             /\ snapshots = {content}
    /\ batches = {[key |-> OwnKey(1), mode |-> "historical"]}

-----------------------------------------------------------------------------
(* Verdicts *)

\* The latest verdict there is, by the time it was made.
Latest(r) ==
    IF ledger[r].verdicts = <<>> THEN "unassessed"
    ELSE ledger[r].verdicts[Len(ledger[r].verdicts)].status

\* A verdict with the fingerprint of another is that one; equal findings have
\* equal fingerprints, and those of an audit are not those of a live run.
WithVerdict(rows, verdict) ==
    IF \E i \in DOMAIN rows : rows[i] = verdict THEN rows ELSE Append(rows, verdict)

\* What an audit finds need not be what it found before: vendors answer or fail.
Findings == {"safe", "at_risk"}

Audited(r, finding) ==
    [ledger EXCEPT ![r].verdicts =
        WithVerdict(@, [mode |-> "retrospective", status |-> finding])]

\* The command for all runs without a verdict is one such step for each of them.
AuditOne(r) ==
    /\ Succeeded(r)
    /\ \E finding \in Findings : ledger' = Audited(r, finding)
    /\ Len(ledger'[r].verdicts) <= MaxVerdicts
    /\ UNCHANGED <<batches, snapshots>>

-----------------------------------------------------------------------------
(* Memory and statistics *)

Exit(s, h) == ledger[s].day + h

\* What the query for a run's memory yields: the completed validations of safe
\* runs of an earlier day.
Candidates(day) ==
    {c \in [run : Runs, horizon : Horizons] :
        /\ Succeeded(c.run) /\ ledger[c.run].day < day
        /\ c.horizon \in ledger[c.run].matured
        /\ Latest(c.run) = "safe"}

Later(c, d) ==
    \/ ledger[c.run].day > ledger[d.run].day
    \/ ledger[c.run].day = ledger[d.run].day /\ c.run > d.run
    \/ c.run = d.run /\ c.horizon > d.horizon

MemoryOfTheDay(day) ==
    {[run |-> c.run, horizon |-> c.horizon, exit |-> Exit(c.run, c.horizon)] :
        c \in {d \in Candidates(day) : Exit(d.run, d.horizon) = day}}

\* Those that had ended before the day, the longest of each run, and of those
\* the runs of the latest days.
Memory(day) ==
    LET eligible == {c \in Candidates(day) : Exit(c.run, c.horizon) < day}
        longest == {c \in eligible : \A d \in eligible : d.run = c.run => ~Later(d, c)}
        chosen == {c \in longest : Cardinality({d \in longest : Later(d, c)}) < MemoryLimit}
    IN {[run |-> c.run, horizon |-> c.horizon, exit |-> Exit(c.run, c.horizon)] : c \in chosen}

\* The statistics leave out what is not safe, and say how much that is.
Counted(r, h) == Succeeded(r) /\ h \in ledger[r].matured /\ Latest(r) = "safe"

-----------------------------------------------------------------------------
(* The life of a run, as far as the ledger is concerned *)

DataReady(r) ==
    /\ ledger[r].status = "waiting"
    /\ \E s \in {"queued", "failed"} : ledger' = [ledger EXCEPT ![r].status = s]
    /\ UNCHANGED <<batches, snapshots>>

\* The mode is that of the batch; equal contents share one row of snapshots.
Admit(r) ==
    /\ ledger[r].status = "queued"
    /\ LET content == [day |-> ledger[r].day, mode |-> ModeOf(r),
                       memory |-> IF ModeOf(r) = "independent" THEN {}
                                  ELSE Memory(ledger[r].day)]
       IN /\ ledger' = [ledger EXCEPT ![r].status = "admitted", ![r].snapshot = {content}]
          /\ snapshots' = snapshots \union {content}
    /\ UNCHANGED <<batches>>

\* The live verdict was dated at the start of the runner, before any audit.
Succeed(r) ==
    /\ ledger[r].status = "admitted"
    /\ \E finding \in Findings :
          ledger' = [ledger EXCEPT ![r].status = "succeeded",
                       ![r].verdicts = WithVerdict(@, [mode |-> "live", status |-> finding])]
    /\ UNCHANGED <<batches, snapshots>>

Fail(r) ==
    /\ ledger[r].status = "admitted"
    /\ ledger' = [ledger EXCEPT ![r].status = "failed"]
    /\ UNCHANGED <<batches, snapshots>>

\* A validation is completed, the horizons in any order: one that waits for another
\* try, or has become unavailable, does not hold up a longer one.
Mature(r, h) ==
    /\ Succeeded(r) /\ \E q \in Created : ledger[q].day > ledger[r].day
    /\ h \notin ledger[r].matured
    /\ ledger' = [ledger EXCEPT ![r].matured = @ \union {h}]
    /\ UNCHANGED <<batches, snapshots>>

-----------------------------------------------------------------------------
(* New runs for old ones *)

Fresh == {r \in Runs : ~Present(r)}
NextFresh == CHOOSE r \in Fresh : \A q \in Fresh : r <= q

\* A run that is to remember; StockLean has its data, or is still to fetch them.
Submit ==
    /\ Fresh # {}
    /\ \E day \in AnalysisDays, s \in {"queued", "waiting"} :
          /\ ledger' = [ledger EXCEPT ![NextFresh] =
                           [Absent EXCEPT !.status = s, !.day = day,
                                          !.batch = OwnKey(NextFresh)]]
          /\ batches' = batches \union {[key |-> OwnKey(NextFresh), mode |-> "historical"]}
    /\ UNCHANGED snapshots

\* A retry is of the batch of the run that failed, and so of its mode.
CreateRetry(r) ==
    /\ ledger[r].status = "failed" /\ Fresh # {}
    /\ \E s \in {"queued", "waiting"} :
          ledger' = [ledger EXCEPT ![NextFresh] =
                       [Absent EXCEPT !.status = s, !.day = ledger[r].day, !.retryOf = r,
                                      !.batch = ledger[r].batch]]
    /\ UNCHANGED <<batches, snapshots>>

CleanOf(r) == {c \in Created : ledger[c].cleanOf = r}

\* There is one clean reassessment of a run, and only of one that is not safe;
\* StockLean has the data, is still to fetch them, or rejects the request.
CleanReassess(r) ==
    /\ Succeeded(r) /\ CleanOf(r) = {}
    /\ Latest(r) \in {"at_risk", "unknown"}
    /\ Fresh # {}
    /\ \E s \in {"queued", "waiting"} :
          ledger' = [ledger EXCEPT ![NextFresh] =
                       [Absent EXCEPT !.status = s, !.day = ledger[r].day, !.cleanOf = r,
                                      !.batch = CleanKey(r)]]
    /\ batches' = batches \union {[key |-> CleanKey(r), mode |-> "independent"]}
    /\ UNCHANGED <<snapshots>>

-----------------------------------------------------------------------------
(* Deletion *)

DependentRetries(r) == {d \in Created : ledger[d].retryOf = r}

DependentRuns(r) == {d \in Created : ledger[d].retryOf = r \/ ledger[d].cleanOf = r}

\* The rows of the run, and the batch and the snapshot when it was the last to
\* refer to them.
DeleteGraph(r) ==
    LET others == Created \ {r}
    IN /\ ledger' = [ledger EXCEPT ![r] = Absent]
       /\ batches' = {b \in batches : b.key = ledger[r].batch =>
                                        \E q \in others : ledger[q].batch = b.key}
       /\ snapshots' = {c \in snapshots : c \in ledger[r].snapshot =>
                                            \E q \in others : c \in ledger[q].snapshot}

Delete(r) ==
    /\ ledger[r].status \in {"succeeded", "failed"}
    /\ DependentRuns(r) = {}
    /\ DeleteGraph(r)

Next ==
    \/ Submit
    \/ \E r \in Runs :
          \/ AuditOne(r) \/ DataReady(r) \/ Admit(r) \/ Succeed(r) \/ Fail(r)
          \/ \E h \in Horizons : Mature(r, h)
          \/ CreateRetry(r) \/ CleanReassess(r) \/ Delete(r)

Spec == Init /\ [][Next]_ledgerVars

-----------------------------------------------------------------------------
(* Properties *)

TypeOK ==
    /\ DOMAIN ledger = Runs
    /\ \A r \in Created :
          /\ ledger[r].status \in {"waiting", "queued", "admitted", "succeeded", "failed"}
          /\ Cardinality(ledger[r].snapshot) <= 1
          /\ \A i, j \in DOMAIN ledger[r].verdicts :
                ledger[r].verdicts[i] = ledger[r].verdicts[j] => i = j
          /\ ledger[r].matured \subseteq Horizons

\* Whatever is retried, reassessed and deleted: no run refers to one that is
\* gone, there is one clean reassessment of a run at most, and its key is free
\* again once it is deleted; batches and snapshots are there exactly as long as
\* a run needs them.
LineageIsSound ==
    /\ \A r \in Created : {ledger[r].retryOf, ledger[r].cleanOf} \subseteq Created \union {0}
    /\ \A r \in Runs : Cardinality(CleanOf(r)) <= 1
    /\ {b.key : b \in batches} = {ledger[r].batch : r \in Created}
    /\ snapshots = UNION {ledger[r].snapshot : r \in Created}

\* A clean reassessment, or the retry of one.
IsClean ==
    LET clean[r \in Runs] ==
            ledger[r].cleanOf # 0 \/ (ledger[r].retryOf # 0 /\ clean[ledger[r].retryOf])
    IN clean

\* A memory holds nothing that was not known on the day of its run, one entry
\* for a run, and clean reassessments and their retries have none.
MemoryReachesBack ==
    \A r \in Created : \A c \in ledger[r].snapshot :
        /\ \A e, f \in c.memory : e.exit < ledger[r].day /\ (e.run = f.run => e = f)
        /\ Cardinality(c.memory) <= MemoryLimit
        /\ IsClean[r] => c.memory = {}

\* What a run is made to remember is what the statistics count at that moment.
MemoryIsCounted ==
    [][\A r \in Runs : ledger[r].status = "queued" /\ ledger'[r].status = "admitted" =>
          \A c \in ledger'[r].snapshot : \A e \in c.memory : Counted(e.run, e.horizon)]_ledgerVars
=============================================================================
