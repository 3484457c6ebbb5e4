----------------------------- MODULE MCOperations -----------------------------
(***************************************************************************)
(* What is done for people rather than by the services: the administration *)
(* of users, the three scripts of operators, the guards and verdicts of a  *)
(* run's integrity, the ledger that trusts them, and the prices a run is   *)
(* judged by.  They share no state, so that nothing is lost by looking at  *)
(* one at a time: focus is chosen at the start and says whose steps are    *)
(* taken.                                                                  *)
(***************************************************************************)
EXTENDS IdentityAdmin, TLC

CONSTANTS
    Members, Steward,
    Symbols, LastDate, Posts, MaxStops, MaxBreaks,
    LastDay, MaxAttempts, MaxAnswers,
    AnalysisDays, MaxRuns, Horizons, MemoryLimit, MaxVerdicts,
    Sessions, EndOfTime, DecisionDates, Horizon, Background, Bars, Targets

VARIABLES
    focus,
    realm, roles, script, mirror,
    run, batches, post, track, batch, stops,
    outcome, sound, checkpoints, audit, breaks,
    today, setup, pc, saved, patched, recorder, context, checkpoint, evidence,
    secSince, attempt, document, verdicts,
    ledger, keys, snapshots,
    day, bars, decision, basis, claim, validation

Keys == Symbols \X (1 .. LastDate)

Sync == INSTANCE KeycloakSync
Sequential == INSTANCE SequentialBatch
Audit == INSTANCE MonthlyAudit WITH AuditDates <- 1 .. LastDate
Integrity == INSTANCE PointInTime
Ledger == INSTANCE IntegrityLedger WITH batches <- keys
Prices == INSTANCE PriceOutcomes WITH LastDay <- EndOfTime, AnalysisDates <- DecisionDates,
                                      outcome <- validation

Pos == Nat \ {0}

\* What a session was like: something was paid for every share.
BarRecord == {b \in [close : Pos, high : Nat, low : Nat, split : Pos, dividend : Nat] :
                b.low <= b.close /\ b.close <= b.high}

\* The exchange's calendar has a session for each horizon; what is traded has a
\* price and lies between the low and the high of its session.
PricesAssumption ==
    /\ EndOfTime \in Nat /\ EndOfTime >= 1 /\ Background \in Nat
    /\ Sessions \subseteq Pos /\ DecisionDates \subseteq Pos /\ Targets \subseteq Nat
    /\ \A d \in DecisionDates : \E s \in Sessions :
          s >= d /\ Cardinality({u \in Sessions : d <= u /\ u <= s}) = Horizon + 1
    /\ \A t \in Prices!Tickers, s \in Sessions : Bars[t][s] \subseteq BarRecord

ASSUME PricesAreSensible == PricesAssumption

identity == vars
sync == <<realm, roles, script, mirror>>
submission == <<run, batches, post>>
sequential == <<track, batch, stops>>
auditing == <<outcome, sound, checkpoints, audit, breaks>>
judging == <<today, setup, pc, saved, patched, recorder, context, checkpoint, evidence,
             secSince, attempt, document, verdicts>>
trusting == <<ledger, keys, snapshots>>
pricing == <<day, bars, decision, basis, claim, validation>>
all == <<focus, identity, sync, submission, sequential, auditing, judging, trusting, pricing>>

\* Sessions that leave the price, move it, split the shares or pay a dividend.  The
\* instrument does all that between its analysis and the exit, and may split again
\* when the validation is overdue; its benchmark rises or splits.
Bar(close, high, low, split, dividend) ==
    [close |-> close, high |-> high, low |-> low, split |-> split, dividend |-> dividend]
Flat == Bar(4, 4, 4, 1, 0)
Rise == Bar(6, 6, 4, 1, 0)
Split == Bar(3, 4, 2, 2, 0)
Dividend == Bar(4, 4, 3, 1, 1)
Moves == {Flat, Rise, Split, Dividend}
SomeBars ==
    [instrument |-> 1 :> {Flat, Dividend} @@ 3 :> Moves @@ 4 :> Moves @@ 5 :> {Flat, Split},
     benchmark |-> 1 :> {Flat} @@ 3 :> {Flat} @@ 4 :> {Rise, Split} @@ 5 :> {Flat}]

\* A system that is not looked at is in the first of its initial states.
Unless(name, state) == focus = name \/ state

OperationsInit ==
    /\ focus \in {"identity", "sync", "sequential", "audit", "integrity", "ledger", "prices"}
    /\ Init /\ Sequential!Init /\ Audit!Init /\ Sync!Init
    /\ Integrity!Init /\ Ledger!Init /\ Prices!Init
    /\ Unless("sync", \A m \in Members : roles[m] = {"Admin"})
    /\ Unless("integrity", today = Integrity!AnalysisDay /\ secSince = 0
                              /\ setup.data = {"stocklean"} /\ setup.token)
    /\ Unless("ledger", ledger[1].day = 1)

OperationsNext ==
    /\ UNCHANGED focus
    /\ \/ /\ focus = "identity" /\ Next
          /\ UNCHANGED <<sync, submission, sequential, auditing, judging, trusting, pricing>>
       \/ /\ focus = "sync" /\ Sync!Next
          /\ UNCHANGED <<identity, submission, sequential, auditing, judging, trusting, pricing>>
       \/ /\ focus = "sequential" /\ Sequential!Next
          /\ UNCHANGED <<identity, sync, auditing, judging, trusting, pricing>>
       \/ /\ focus = "audit" /\ Audit!Next
          /\ UNCHANGED <<identity, sync, sequential, judging, trusting, pricing>>
       \/ /\ focus = "integrity" /\ Integrity!Next
          /\ UNCHANGED <<identity, sync, submission, sequential, auditing, trusting, pricing>>
       \/ /\ focus = "ledger" /\ Ledger!Next
          /\ UNCHANGED <<identity, sync, submission, sequential, auditing, judging,
                         pricing>>
       \/ /\ focus = "prices" /\ Prices!Next
          /\ UNCHANGED <<identity, sync, submission, sequential, auditing, judging,
                         trusting>>

OperationsSpec == OperationsInit /\ [][OperationsNext]_all

-----------------------------------------------------------------------------
(* The properties of the instantiated modules, under names of here *)

\* Every row, account, verdict and state file is well formed.
OperationsTypeOK ==
    /\ TypeOK /\ Sync!TypeOK /\ Sequential!TypeOK /\ Audit!TypeOK
    /\ Integrity!TypeOK /\ Ledger!TypeOK

\* Wherever the synchronisation stops nobody has lost a role over it, and one run
\* that goes through is enough; the sequential batch asks once for an assessment, and
\* for those of a symbol one after the other; what the monthly audit has passed is
\* proven, in order.
ScriptsAreSafe ==
    /\ Sync!NobodyLosesTheirRole /\ []Sync!OneRunConverges
    /\ []Sequential!OneBatchPerKey
    /\ [](focus = "sequential" => Sequential!DatesInOrder /\ Sequential!CompletedIsComplete)
    /\ []Audit!PassedIsProven /\ [](focus = "audit" => Audit!CheckpointsInOrder)

\* The guards of a later day's run hold, a run that calls itself safe used tools
\* the policy knows, and what an audit calls safe has seen nothing of later days.
VerdictsAreFounded ==
    focus = "integrity" =>
       Integrity!GuardsHold /\ Integrity!SafeIsKnown /\ Integrity!AuditIsFounded

\* Retries, reassessments and deletions leave no dangling row and no second
\* clean reassessment.
LineageIsSound == focus = "ledger" => Ledger!LineageIsSound

\* Memory reaches back only, and holds what the statistics count.
MemoryIsSound == [](focus = "ledger" => Ledger!MemoryReachesBack) /\ Ledger!MemoryIsCounted

\* Whichever provider answers, a validation says what the market did: returns,
\* excursions and direction always, the target with a basis of a session that had
\* closed and that no later split has divided.
OutcomeIsTrue == focus = "prices" => Prices!OutcomeIsTrue

\* As its tests have it, the calculation rebases every target to the splits since it
\* was set; it does not with a basis that prepare_target_basis froze from a series
\* which was divided by one of them.
TargetIsRebased == focus = "prices" => Prices!TargetIsRebased
=============================================================================
