----------------------------- MODULE PointInTime -----------------------------
(***************************************************************************)
(* What a run may learn of the days after its analysis date, and what is   *)
(* said about it afterwards.                                               *)
(*                                                                         *)
(* The runner patches the vendors' routes for the time of the analysis     *)
(* (four nested contexts), keeps findings about what the tools answered    *)
(* in memory and their evidence in a file, and writes a verdict at its     *)
(* end.  A runner that is killed is followed by another attempt in the     *)
(* same directory, which goes on from the graph's own checkpoint.  Later   *)
(* an audit judges the sealed evidence again.                              *)
(*                                                                         *)
(* Tools are taken by class, as the policy takes them; what vendors answer *)
(* is reduced to the statements in it and to whether it tells of a later   *)
(* day than the analysis.                                                  *)
(***************************************************************************)
EXTENDS Integers, Sequences, FiniteSets

CONSTANTS LastDay,      \* bound on the days that pass
          MaxAttempts,  \* bound on the attempts of the run
          MaxAnswers    \* bound on what the agents have asked for

VARIABLES
    today,
    setup,       \* the vendors of data and of tools, the token of StockLean
    pc,          \* of the runner, and then of its archive
    saved,       \* what each context that was entered has found to put back
    patched,     \* the routes and functions the contexts replace
    recorder,    \* the findings of the attempt, in memory
    context,     \* what the agents were told, in memory
    checkpoint,  \* what the graph has saved of it
    evidence,    \* the lines of evidence.jsonl
    secSince,    \* the day SEC's filings were cached, 0 before
    attempt,
    document,    \* the verdict the last attempt wrote
    verdicts     \* the rows of run_integrity_assessments

vars == <<today, setup, pc, saved, patched, recorder, context, checkpoint,
          evidence, secSince, attempt, document, verdicts>>

AnalysisDay == 2
Historical == AnalysisDay < today

\* Statements of two periods: announced by the analysis date and filed after it,
\* announced and filed after it.
Statements == {"announced", "late"}
Filed == [announced |-> 3, late |-> 3]
Reported == [announced |-> 2, late |-> 3]

\* The tools by what the policy asks of them; "other" is one it does not know.
Methods == {"bounded", "statement", "snapshot", "macro"}
Tools == Methods \union {"other"}

Configured == setup.data \union setup.tools

\* The routes as they are imported, before any context was entered.
Unpatched ==
    [bounded |-> [alpha_vantage |-> "route"], statement |-> [alpha_vantage |-> "route"],
     snapshot |-> [alpha_vantage |-> "route"], macro |-> [fred |-> "route", markets |-> "route"],
     request |-> "direct", loader |-> "original", fred |-> "latest", social |-> "current"]

Setups == {s \in [data : {{"alpha_vantage"}, {"stocklean"}}, tools : {{}, {"stocklean"}},
                   token : BOOLEAN] : "stocklean" \in s.data => s.tools = {}}

Init ==
    /\ today \in AnalysisDay .. LastDay
    /\ setup \in Setups
    /\ secSince \in {0, 1}
    /\ pc = "start" /\ saved = <<>> /\ patched = Unpatched
    /\ recorder = [historical |-> FALSE, statuses |-> {}]
    /\ context = {} /\ checkpoint = {} /\ evidence = {} /\ attempt = 1
    /\ document = "none" /\ verdicts = {}

-----------------------------------------------------------------------------
(* The contexts of the run *)

ContextsSwapped == <<"resolver", "alpha", "history", "stocklean">>

Contexts == <<"resolver", "alpha", "stocklean", "history">>

\* What a context replaces, and so what it puts back.
Slots ==
    [resolver |-> {}, alpha |-> {"request", "loader"},
     stocklean |-> {"bounded", "statement", "snapshot", "loader"},
     history |-> {"statement", "snapshot", "macro", "fred", "social"}]

WithStockLean(routes) ==
    [v \in DOMAIN routes \union {"stocklean"} |-> IF v = "stocklean" THEN "route" ELSE routes[v]]

GuardAlpha(p) ==
    IF "alpha_vantage" \in Configured
    THEN [p EXCEPT !.request = "guarded", !.loader = "alpha_vantage"] ELSE p

GuardStockLean(p) ==
    IF "stocklean" \in Configured
    THEN [p EXCEPT !.bounded = WithStockLean(@), !.statement = WithStockLean(@),
                   !.snapshot = WithStockLean(@), !.loader = "stocklean"]
    ELSE p

GuardHistory(p) ==
    IF Historical
    THEN [p EXCEPT !.snapshot = [v \in DOMAIN @ |-> "unavailable"],
                   !.statement = [v \in DOMAIN @ |-> "filtered"],
                   !.macro = [v \in DOMAIN @ |-> IF v = "fred" THEN "vintage" ELSE "unavailable"],
                   !.fred = "vintage", !.social = "unavailable"]
    ELSE p

Patch(name, p) ==
    [resolver |-> p, alpha |-> GuardAlpha(p), stocklean |-> GuardStockLean(p),
     history |-> GuardHistory(p)][name]

\* StockLean is not entered without its token.
Refuses(name) ==
    /\ ~setup.token
    /\ \/ name = "resolver" /\ "stocklean" \in setup.data
       \/ name = "stocklean" /\ "stocklean" \in Configured

\* What each context finds, one after the other, and after the last what the
\* graph finds; and what is there again once all have put theirs back.
Found ==
    LET f[i \in 1 .. Len(Contexts) + 1] ==
            IF i = 1 THEN patched ELSE Patch(Contexts[i - 1], f[i - 1])
    IN f

PutBack(found, p) ==
    LET g[i \in 0 .. Len(Contexts)] ==
            IF i = Len(Contexts) THEN p
            ELSE [s \in DOMAIN p |-> IF s \in Slots[Contexts[i + 1]] THEN found[i + 1][s]
                                     ELSE g[i + 1][s]]
    IN g[0]

\* The recorder is made before the contexts, on the day it is then.
StartAttempt ==
    /\ pc = "start"
    /\ pc' = "enter"
    /\ recorder' = [historical |-> Historical, statuses |-> {}]
    /\ context' = checkpoint
    /\ UNCHANGED <<today, setup, saved, patched, checkpoint, evidence, secSince, attempt,
                   document, verdicts>>

EnterContexts ==
    /\ pc = "enter"
    /\ IF \E i \in DOMAIN Contexts : Refuses(Contexts[i])
       THEN pc' = "fail" /\ UNCHANGED <<saved, patched>>
       ELSE pc' = "graph" /\ saved' = Found /\ patched' = Found[Len(Contexts) + 1]
    /\ UNCHANGED <<today, setup, recorder, context, checkpoint, evidence, secSince, attempt,
                   document, verdicts>>

Forgotten == [historical |-> FALSE, statuses |-> {}]

Worst(statuses) ==
    IF "at_risk" \in statuses THEN "at_risk"
    ELSE IF "unknown" \in statuses THEN "unknown" ELSE "safe"

\* Without any finding a run of its own day is safe, a later one is not known.
Verdict(r) ==
    IF r.statuses = {} THEN (IF r.historical THEN "unknown" ELSE "safe")
    ELSE Worst(r.statuses)

\* The graph is done, or has raised; the contexts are left, the last one first,
\* and the verdict is written, or what is in memory is of no use any more.
LeaveContexts ==
    /\ pc = "graph"
    /\ \/ /\ pc' = "reported" /\ document' = Verdict(recorder)
          /\ UNCHANGED <<recorder, context>>
       \/ pc' = "fail" /\ recorder' = Forgotten /\ context' = {} /\ UNCHANGED document
    /\ patched' = PutBack(saved, patched)
    /\ saved' = <<>>
    /\ UNCHANGED <<today, setup, checkpoint, evidence, secSince, attempt, verdicts>>

-----------------------------------------------------------------------------
(* When a statement was available *)

\* SEC's filings are fetched once and then read from the cache, a failed fetch
\* leaves the next row to try again (for a company SEC does not know, all fail);
\* whatever SEC does not answer is looked up
\* in the announcements, as the vendor has them by asOf.
Resolutions(rows, asOf) ==
    UNION {LET fetched == secSince = 0 /\ failing # rows
               since == IF fetched THEN today ELSE secSince
               BySec(r) == Filed[r] <= since /\ (secSince = 0 => r \notin failing)
           IN {[since |-> since,
                date |-> [r \in rows |->
                            IF BySec(r) THEN Filed[r]
                            ELSE IF r \in answered /\ Reported[r] <= asOf THEN Reported[r]
                            ELSE 0]] : answered \in SUBSET rows}
           : failing \in SUBSET rows}

Retained(rows, dates) == {r \in rows : dates[r] \in 1 .. AnalysisDay}

-----------------------------------------------------------------------------
(* What the tools answer, and what is kept of it *)

Answer(tool, form, rows, later) ==
    [tool |-> tool, form |-> form, rows |-> rows, later |-> later,
     attempt |-> attempt, historical |-> recorder.historical]

\* A route of a vendor's own answers as of the day it is asked for, which for
\* prices and news is the agents' choice, or as of today.
PlainAnswers(tool) ==
    IF tool = "statement"
    THEN {Answer(tool, "plain", {r \in Statements : Filed[r] <= today}, FALSE)}
    ELSE {Answer(tool, "plain", {}, l) :
             l \in (IF tool = "bounded" THEN {FALSE} ELSE {}) \union {Historical}}

\* The routes the agents can reach: of the configured vendors that have one.
Routes(tool) ==
    IF tool = "macro" THEN DOMAIN patched.macro
    ELSE Configured \intersect DOMAIN patched[tool]

FilteredAnswers ==
    LET rows == {r \in Statements : Filed[r] <= today}
        asOf == IF "stocklean" \in setup.data THEN AnalysisDay ELSE today
    IN {[answer |-> Answer("statement", "filtered", Retained(rows, res.date), FALSE),
         since |-> res.since] : res \in Resolutions(rows, asOf)}

Answers(tool, form) ==
    IF form = "filtered" THEN FilteredAnswers
    ELSE {[answer |-> a, since |-> secSince] :
            a \in IF form = "route" THEN PlainAnswers(tool)
                  ELSE {Answer(tool, form, {}, form = "vintage" /\ patched.fred # "vintage")}}

\* What the recorder of a historical run makes of an answer.
Observed(a) ==
    [bounded |-> "safe", statement |-> "safe",
     macro |-> IF a.form = "vintage" THEN "safe" ELSE "unknown",
     snapshot |-> IF a.form = "unavailable" THEN "safe" ELSE "at_risk",
     other |-> "unknown"][a.tool]

\* Lines of evidence, and what leaves none.
Asked == Cardinality(evidence) + Cardinality({a \in context : a.tool = "social"})

LineOf(a) == [tool |-> a.tool, form |-> a.form, rows |-> a.rows, later |-> a.later]

\* A tool answers: the guards and the callback record it, a line of evidence is
\* appended, and the agents read the answer.
ToolAnswers ==
    /\ pc = "graph"
    /\ Asked < MaxAnswers
    /\ \E tool \in Tools :
          \E form \in IF tool = "other" THEN {"route"}
                      ELSE {patched[tool][v] : v \in Routes(tool)} :
             \E got \in Answers(tool, form) :
                /\ evidence' = evidence \union {LineOf(got.answer)}
                /\ context' = context \union {got.answer}
                /\ secSince' = got.since
                /\ recorder' =
                     [recorder EXCEPT !.statuses = @
                         \union (IF recorder.historical THEN {Observed(got.answer)} ELSE {})
                         \union (IF form # "route" THEN {"safe"} ELSE {})]
    /\ UNCHANGED <<today, setup, pc, saved, patched, checkpoint, attempt, document, verdicts>>

\* A tool raises: only its evidence says so, with the days it was asked for;
\* there is no finding.
ToolFails ==
    /\ pc = "graph"
    /\ Asked < MaxAnswers
    /\ \E tool \in Tools : \E later \in {FALSE, tool = "bounded" /\ Historical} :
          evidence' = evidence \union
                        {[tool |-> tool, form |-> "error", rows |-> {}, later |-> later]}
    /\ UNCHANGED <<today, setup, pc, saved, patched, recorder, context, checkpoint, secSince,
                   attempt, document, verdicts>>

\* The sentiment analyst fetches current posts itself, which no callback sees.
FetchSocial ==
    /\ pc = "graph"
    /\ Asked < MaxAnswers
    /\ context' = context \union
                    {Answer("social", patched.social, {}, patched.social = "current" /\ Historical)}
    /\ recorder' = IF patched.social = "current" THEN recorder
                   ELSE [recorder EXCEPT !.statuses = @ \union {"safe"}]
    /\ UNCHANGED <<today, setup, pc, saved, patched, checkpoint, evidence, secSince, attempt,
                   document, verdicts>>

\* The graph saves its state after a node.
SaveCheckpoint ==
    /\ pc = "graph"
    /\ checkpoint' = context
    /\ UNCHANGED <<today, setup, pc, saved, patched, recorder, context, evidence, secSince,
                   attempt, document, verdicts>>

-----------------------------------------------------------------------------
(* The end of an attempt *)

\* The runner ends with an error, or is killed or dies anywhere; the run may get
\* another attempt in the directory of this one.
AttemptEnds ==
    /\ pc \in {"enter", "graph", "fail", "reported"}
    /\ attempt < MaxAttempts
    /\ attempt' = attempt + 1
    /\ pc' = "start"
    /\ saved' = <<>> /\ patched' = Unpatched /\ context' = {}
    /\ recorder' = Forgotten
    /\ UNCHANGED <<today, setup, checkpoint, evidence, secSince, document, verdicts>>

\* The worker archives the files and copies the verdict of the document.
PersistIntegrity ==
    /\ pc = "reported"
    /\ pc' = "sealed"
    /\ verdicts' = {[mode |-> "live", status |-> document]}
    /\ UNCHANGED <<today, setup, saved, patched, recorder, context, checkpoint, evidence,
                   secSince, attempt, document>>

MidnightPasses ==
    /\ today < LastDay
    /\ today' = today + 1
    /\ UNCHANGED <<setup, pc, saved, patched, recorder, context, checkpoint, evidence,
                   secSince, attempt, document, verdicts>>

-----------------------------------------------------------------------------
(* The retrospective audit *)

\* What the audit makes of the dates it finds for the rows of a statement.
Dated(dates) ==
    {IF dates[r] = 0 THEN "unknown"
     ELSE IF dates[r] > AnalysisDay THEN "at_risk" ELSE "safe" : r \in DOMAIN dates}

\* A statement without rows is safe, that of an error too; what takes a date is
\* judged by the dates it was asked for and has answered.
Judged(line) ==
    [snapshot |-> IF line.form = "unavailable" THEN "safe" ELSE "at_risk",
     macro |-> IF line.form = "vintage" THEN "safe" ELSE "at_risk",
     bounded |-> IF line.later THEN "at_risk" ELSE "safe",
     statement |-> "safe", other |-> "unknown"][line.tool]

StatementRows == UNION {line.rows : line \in {l \in evidence : l.tool = "statement"}}

\* The sealed evidence is found and intact, found wanting, or not found.  An
\* audit does not look at the verdicts there are, so that one stands for all.
AuditOne ==
    /\ pc = "sealed"
    /\ pc' = "audited"
    /\ \E found \in BOOLEAN : \E res \in Resolutions(IF found THEN StatementRows ELSE {}, today) :
          /\ secSince' = IF found THEN res.since ELSE secSince
          /\ verdicts' = verdicts \union
               {[mode |-> "retrospective",
                 status |-> IF ~found \/ evidence = {} THEN "unknown"
                            ELSE Worst(Dated(res.date) \union {Judged(l) : l \in evidence})]}
    /\ UNCHANGED <<today, setup, saved, patched, recorder, context, checkpoint, evidence,
                   attempt, document>>

Next ==
    \/ StartAttempt \/ EnterContexts \/ LeaveContexts
    \/ ToolAnswers \/ ToolFails \/ FetchSocial \/ SaveCheckpoint
    \/ AttemptEnds \/ PersistIntegrity \/ AuditOne \/ MidnightPasses

Spec == Init /\ [][Next]_vars

-----------------------------------------------------------------------------
(* Properties *)

Statuses == {"safe", "unknown", "at_risk"}

TypeOK ==
    /\ today \in AnalysisDay .. LastDay /\ secSince \in 0 .. today
    /\ setup \in Setups /\ attempt \in 1 .. MaxAttempts
    /\ pc \in {"start", "enter", "graph", "fail", "reported", "sealed", "audited"}
    /\ recorder.statuses \subseteq Statuses
    /\ document \in Statuses \union {"none"}
    /\ verdicts \subseteq [mode : {"live", "retrospective"}, status : Statuses]
    /\ (pc # "graph" => patched = Unpatched)

\* An answer tells of something that was not announced by the analysis date.
Exposed(a) == a.later \/ \E r \in a.rows : Reported[r] > AnalysisDay

\* An attempt that began after the analysis date hears of a later day only from
\* tools that nobody guards: those that take a date from the agents, and those
\* the policy does not know.
GuardsHold == \A a \in context : (a.historical /\ Exposed(a)) => a.tool \in {"bounded", "other"}

\* If such an attempt calls itself safe it has used no tool the policy does not
\* know.
SafeIsKnown ==
    (document = "safe" /\ pc \in {"reported", "sealed", "audited"}) =>
       \A a \in context : (a.historical /\ a.attempt = attempt) => a.tool # "other"

\* If the audit says safe, nothing the report rests on told of a later day,
\* whichever attempt has heard it and whenever that began, and all of it came
\* from known tools; but no evidence is kept of current posts.
AuditIsFounded ==
    [mode |-> "retrospective", status |-> "safe"] \in verdicts =>
       \A a \in context : a.tool # "social" => ~Exposed(a) /\ a.tool # "other"
=============================================================================
