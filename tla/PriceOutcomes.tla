---------------------------- MODULE PriceOutcomes ----------------------------
(***************************************************************************)
(* What a validation of a decision calculates (validation.v2): prices come *)
(* from whichever provider answers, as traded or already divided by later  *)
(* splits, are normalised to the shares of the last session asked for, and *)
(* give returns, excursions, the direction and whether the target price    *)
(* was reached.  The target was frozen earlier, as a multiple of the close *)
(* of a reference session, from a series of its own.                       *)
(*                                                                         *)
(* Rows, leases and retries of the worker are in ValidationJobs.  A price  *)
(* is a fraction of two integers; a return is one plus the code's return.  *)
(***************************************************************************)
EXTENDS Integers, FiniteSetsExt

CONSTANTS
    Sessions,       \* the days of trading, for the exchange's calendar
    LastDay,
    AnalysisDates,
    Horizon,
    Background,     \* days before the analysis date that are asked for
    Bars,           \* ticker to session to what it may be like there
    Targets         \* price targets, 0 for none

VARIABLES
    day,        \* today
    bars,       \* ticker to its closed sessions, as traded
    decision,   \* analysis date and price target of a run that succeeded
    basis,      \* its DecisionPriceBasis
    claim,      \* what the worker has of the validation it claimed
    outcome     \* its Validation

vars == <<day, bars, decision, basis, claim, outcome>>

Tickers == {"instrument", "benchmark"}

\* StockLean and Alpha Vantage report what was traded and the splits; Yahoo
\* reports what it has divided by every split since.
AsTraded == {"stocklean"}
Providers == AsTraded \cup {"yfinance"}

Unset == [status |-> "none"]

-----------------------------------------------------------------------------
(* Fractions *)

\* In lowest terms.
Reduced(p) ==
    LET least == Min({k \in 1 .. p[2] : (p[1] * k) % p[2] = 0})
    IN  <<(p[1] * least) \div p[2], least>>

Times(p, q) == Reduced(<<p[1] * q[1], p[2] * q[2]>>)
Over(p, q) == Reduced(<<p[1] * q[2], p[2] * q[1]>>)
Sum(p, q) == Reduced(<<p[1] * q[2] + q[1] * p[2], p[2] * q[2]>>)
Below(p, q) == p[1] * q[2] < q[1] * p[2]
AtMost(p, q) == ~Below(q, p)

\* The product of what there is for each of some days, one day after the other.
Product(f) ==
    LET upTo[d \in 0 .. LastDay] ==
            IF d = 0 THEN <<1, 1>>
            ELSE IF d \in DOMAIN f THEN Times(upTo[d - 1], f[d])
            ELSE upTo[d - 1]
    IN  upTo[LastDay]

Highest(F) == CHOOSE p \in F : \A q \in F : AtMost(q, p)
Lowest(F) == CHOOSE p \in F : \A q \in F : AtMost(p, q)

-----------------------------------------------------------------------------
(* MarketCalendarResolver *)

EntrySession(date) == Min({s \in Sessions : s >= date})
ExitSession(date) ==
    CHOOSE s \in Sessions : /\ s >= date
                            /\ Cardinality({u \in Sessions : date <= u /\ u <= s}) = Horizon + 1

-----------------------------------------------------------------------------
(* The market and the providers *)

Closed == DOMAIN bars["instrument"]

\* Splits with an effect after session s, up to session t.
SplitsBetween(ticker, s, t) ==
    Product([u \in {v \in Closed : s < v /\ v <= t} |-> <<bars[ticker][u].split, 1>>])

\* A provider has published the last session that closed, or all but that.
Published == {s \in 0 .. LastDay : /\ s \in Closed \cup {0}
                                   /\ Cardinality({u \in Closed : u > s}) <= 1}

\* The series of a ticker from one day to another, as a provider has it now.
Series(ticker, provider, published, from, to) ==
    [ticker |-> ticker, provider |-> provider, published |-> published,
     sessions |-> {s \in Closed : from <= s /\ s <= to /\ s <= published}]

\* What the provider reports of a session in it: StockLean's closes, highs and
\* dividends as they were, Yahoo's per share of today.
Reported(series, field, s) ==
    LET traded == <<bars[series.ticker][s][field], 1>>
    IN  IF series.provider \in AsTraded THEN traded
        ELSE Over(traded, SplitsBetween(series.ticker, s, series.published))

-----------------------------------------------------------------------------
(* normalize_prices *)

LaterSplitFactorOfSession(series, s) ==
    IF series.provider \in AsTraded
    THEN SplitsBetween(series.ticker, s - 1, Max(series.sessions))
    ELSE <<1, 1>>

\* The splits after a session and up to the last of the series.
LaterSplitFactor(series, s) ==
    IF series.provider \in AsTraded
    THEN SplitsBetween(series.ticker, s, Max(series.sessions))
    ELSE <<1, 1>>

Adjusted(series, field, s) ==
    Over(Reported(series, field, s), LaterSplitFactor(series, s))

\* total_return_index of one session, over that of the session before.
TotalReturnLink(series, s) ==
    LET before == Max({u \in series.sessions : u < s})
    IN  Over(Sum(Adjusted(series, "close", s), Adjusted(series, "dividend", s)),
             Adjusted(series, "close", before))

-----------------------------------------------------------------------------
(* calculate_outcome_v2 *)

PriceReturn(series, entry, exit) ==
    Over(Adjusted(series, "close", exit), Adjusted(series, "close", entry))

TotalReturn(series, entry, exit) ==
    Product([s \in {u \in series.sessions : entry < u /\ u <= exit} |->
                TotalReturnLink(series, s)])

Window(series, entry, exit) == {s \in series.sessions : entry <= s /\ s <= exit}

\* The target in the shares of this series: the frozen multiple of its close.
RebasedTarget(series, taken) ==
    Times(taken.multiple, Adjusted(series, "close", taken.session))

\* evaluate_rating_direction: three percent either way are neutral.
DirectionCorrect(total, benchmark) ==
    [rating \in {"Buy", "Sell", "Overweight", "Underweight", "Hold"} |->
        CASE rating = "Buy" -> Below(<<1, 1>>, total)
          [] rating = "Sell" -> Below(total, <<1, 1>>)
          [] rating = "Overweight" -> Below(benchmark, total)
          [] rating = "Underweight" -> Below(total, benchmark)
          [] rating = "Hold" -> AtMost(<<97, 100>>, total) /\ AtMost(total, <<103, 100>>)]

Calculated(series, benchmark, entry, exit, taken) ==
    LET highs == {Adjusted(series, "high", s) : s \in Window(series, entry, exit)}
        lows == {Adjusted(series, "low", s) : s \in Window(series, entry, exit)}
        total == TotalReturn(series, entry, exit)
        evaluated == decision.target # 0 /\ taken.status = "completed"
    IN  [status |-> "completed",
         price |-> PriceReturn(series, entry, exit), total |-> total,
         benchmark |-> TotalReturn(benchmark, entry, exit),
         worst |-> Over(Lowest(lows), Adjusted(series, "close", entry)),
         best |-> Over(Highest(highs), Adjusted(series, "close", entry)),
         direction |-> DirectionCorrect(total, TotalReturn(benchmark, entry, exit)),
         target |-> IF decision.target = 0 THEN "not_set"
                    ELSE IF evaluated THEN "evaluated" ELSE "basis_unavailable",
         hit |-> IF ~evaluated THEN {}
                 ELSE (IF AtMost(RebasedTarget(series, taken), Highest(highs))
                       THEN {"bullish"} ELSE {})
                  \cup (IF AtMost(Lowest(lows), RebasedTarget(series, taken))
                        THEN {"bearish"} ELSE {})]

-----------------------------------------------------------------------------
Init ==
    /\ day = 1
    /\ bars = [t \in Tickers |-> << >>]
    /\ decision = [date |-> 0, target |-> 0]
    /\ basis = Unset /\ claim = Unset /\ outcome = Unset

\* The day ends, with a session or without.
DayEnds ==
    /\ day < LastDay
    /\ day' = day + 1
    /\ IF day \in Sessions
       THEN \E i \in Bars["instrument"][day], b \in Bars["benchmark"][day] :
               LET today == [instrument |-> i, benchmark |-> b]
               IN  bars' = [t \in Tickers |-> [s \in Closed \cup {day} |->
                                IF s = day THEN today[t] ELSE bars[t][s]]]
       ELSE UNCHANGED bars
    /\ UNCHANGED <<decision, basis, claim, outcome>>

\* A run succeeds, for today or for a day long past; its validation is scheduled,
\* and the basis of its target is to be prepared.
Decide ==
    /\ decision.date = 0
    /\ \E date \in AnalysisDates, target \in Targets :
          /\ date <= day
          /\ decision' = [date |-> date, target |-> target]
          /\ basis' = IF target = 0 THEN Unset ELSE [status |-> "pending"]
    /\ outcome' = [status |-> "scheduled"]
    /\ UNCHANGED <<day, bars, claim>>

Frozen(session, close, provider, settled) ==
    [status |-> "completed", session |-> session, provider |-> provider,
     collected |-> day, settled |-> settled,
     multiple |-> Over(<<decision.target, 1>>, close)]

\* _run_basis: the last session up to the analysis date is the reference.  Without
\* one the basis is unavailable.
PrepareBasis ==
    /\ basis.status = "pending"
    /\ \E provider \in Providers, published \in Published :
          LET series == Series("instrument", provider, published,
                               decision.date - Background, decision.date)
              reference == Max(series.sessions)
          IN  basis' = IF series.sessions = {} THEN [status |-> "unavailable"]
                       ELSE Frozen(reference, Adjusted(series, "close", reference),
                                   provider, TRUE)
    /\ UNCHANGED <<day, bars, decision, claim, outcome>>

\* The same while the session of the analysis date is still going on: a provider
\* may give the price of the moment as its close.
PrepareBasisEarly ==
    /\ basis.status = "pending"
    /\ day = decision.date /\ day \in Sessions
    /\ \E provider \in Providers, bar \in Bars["instrument"][day] :
          basis' = Frozen(day, <<bar.close, 1>>, provider, FALSE)
    /\ UNCHANGED <<day, bars, decision, claim, outcome>>

\* Data the provider or the normaliser rejects.
BasisIsInvalid ==
    /\ basis.status = "pending"
    /\ basis' = [status |-> "unavailable"]
    /\ UNCHANGED <<day, bars, decision, claim, outcome>>

\* _claim, once the exit session has closed: the basis is taken as it is now.
ClaimMatured ==
    /\ outcome.status = "scheduled" /\ claim = Unset
    /\ ExitSession(decision.date) \in Closed
    /\ claim' = [status |-> "claimed", basis |-> basis]
    /\ UNCHANGED <<day, bars, decision, basis, outcome>>

Ask(ticker, provider, published) ==
    Series(ticker, provider, published, decision.date - Background,
           ExitSession(decision.date))

PriceInstrument ==
    /\ claim.status = "claimed"
    /\ \E provider \in Providers, published \in Published :
          claim' = [status |-> "priced", basis |-> claim.basis,
                    series |-> Ask("instrument", provider, published)]
    /\ UNCHANGED <<day, bars, decision, basis, outcome>>

\* The sessions the calculation looks up; InsufficientSessions if one is missing.
Needed(taken) ==
    {EntrySession(decision.date), ExitSession(decision.date)}
        \cup (IF taken.status = "completed" THEN {taken.session} ELSE {})

\* The prices of the benchmark, which another provider may answer, and then the
\* calculation.
PriceBenchmark ==
    /\ claim.status = "priced"
    /\ \E provider \in Providers, published \in Published :
          LET benchmark == Ask("benchmark", provider, published)
              entry == EntrySession(decision.date)
              exit == ExitSession(decision.date)
          IN  /\ Needed(claim.basis) \subseteq claim.series.sessions
              /\ {entry, exit} \subseteq benchmark.sessions
              /\ outcome' = Calculated(claim.series, benchmark, entry, exit, claim.basis)
    /\ claim' = Unset
    /\ UNCHANGED <<day, bars, decision, basis>>

\* No provider answers, or a session is missing still: another time.
TryAgain ==
    /\ claim # Unset
    /\ claim' = Unset
    /\ UNCHANGED <<day, bars, decision, basis, outcome>>

\* Data the provider or the normaliser rejects.
OutcomeIsInvalid ==
    /\ claim # Unset
    /\ claim' = Unset
    /\ outcome' = [status |-> "unavailable"]
    /\ UNCHANGED <<day, bars, decision, basis>>

Next ==
    \/ DayEnds \/ Decide
    \/ PrepareBasis \/ PrepareBasisEarly \/ BasisIsInvalid
    \/ ClaimMatured \/ PriceInstrument \/ PriceBenchmark \/ TryAgain \/ OutcomeIsInvalid

Spec == Init /\ [][Next]_vars

-----------------------------------------------------------------------------
(* What the outcome should be, from the market alone *)

TypeOK ==
    /\ day \in 1 .. LastDay
    /\ DOMAIN bars = Tickers /\ Closed = {s \in Sessions : s < day}
    /\ decision.date \in AnalysisDates \cup {0}
    /\ basis.status \in {"none", "pending", "unavailable", "completed"}
    /\ claim.status \in {"none", "claimed", "priced"}
    /\ outcome.status \in {"none", "scheduled", "completed", "unavailable"}

\* One share bought at the entry's close, held through splits: its worth at the
\* exit, without its dividends and with them reinvested.
Earned(ticker, entry, exit) ==
    Times(<<bars[ticker][exit].close, bars[ticker][entry].close>>,
          SplitsBetween(ticker, entry, exit))

EarnedInTotal(ticker, entry, exit) ==
    LET Grows(s) == LET bar == bars[ticker][s]
                        before == Max({u \in Closed : u < s})
                    IN  <<(bar.close + bar.dividend) * bar.split, bars[ticker][before].close>>
    IN  Product([s \in {u \in Closed : entry < u /\ u <= exit} |-> Grows(s)])

\* What a share of the reference session was worth at most, at least, in session s.
Worth(field, reference, s) ==
    Times(<<bars["instrument"][s][field], 1>>, SplitsBetween("instrument", reference, s))

\* A basis that can be trusted: its reference session had closed, and nobody had
\* divided its close by a split that came later.
BasisIsSound(taken) ==
    /\ taken.status = "completed" /\ taken.settled
    /\ \/ taken.provider \in AsTraded
       \/ SplitsBetween("instrument", taken.session, LastDay) = <<1, 1>>

\* Returns, excursions and direction are those of the market, whichever provider
\* answered for either ticker, whenever, and whatever split or dividend came.
ReturnsAreEarned ==
    outcome.status = "completed" =>
        LET entry == EntrySession(decision.date)
            exit == ExitSession(decision.date)
        IN  /\ outcome.price = Earned("instrument", entry, exit)
            /\ outcome.total = EarnedInTotal("instrument", entry, exit)
            /\ outcome.benchmark = EarnedInTotal("benchmark", entry, exit)
            /\ outcome.direction = DirectionCorrect(EarnedInTotal("instrument", entry, exit),
                                                    EarnedInTotal("benchmark", entry, exit))
            /\ AtMost(outcome.worst, <<1, 1>>) /\ AtMost(<<1, 1>>, outcome.best)
            /\ AtMost(outcome.worst, outcome.price) /\ AtMost(outcome.price, outcome.best)

\* The target is judged as it was set: reached if a share of that time was ever
\* worth it, splits in between or not.
TargetIsJudged ==
    LET held == {s \in Closed : EntrySession(decision.date) <= s
                                  /\ s <= ExitSession(decision.date)}
        target == <<decision.target, 1>>
    IN  /\ "bullish" \in outcome.hit
              <=> \E s \in held : AtMost(target, Worth("high", basis.session, s))
        /\ "bearish" \in outcome.hit
              <=> \E s \in held : AtMost(Worth("low", basis.session, s), target)

Evaluated == outcome.status = "completed" /\ outcome.target = "evaluated"

\* With a sound basis it is judged so.
TargetIsKept == Evaluated /\ BasisIsSound(basis) => TargetIsJudged

\* The tests of calculate_outcome_v2 rebase a target of 120, set at a close of 100,
\* to 60 where a split has made 50 of that close.  So it would be with the close of
\* any session that had ended; a close the provider had divided already by the time
\* it was frozen gives another target.
TargetIsRebased == Evaluated /\ basis.settled => TargetIsJudged

\* What a validation says happened is what happened, as far as the target goes with a
\* sound basis.
OutcomeIsTrue == TypeOK /\ ReturnsAreEarned /\ TargetIsKept
=============================================================================
