--------------------------- MODULE MCRunExecution ---------------------------
EXTENDS RunExecution, TLC

\* The pipeline of the code, and a shorter one with the same shape.
FivePipeline == <<"running_analysts", "research_debate", "trader_plan", "risk_debate",
                  "portfolio_decision">>
OnePipeline == <<"running_analysts">>

\* Workers are interchangeable, and so are run identifiers.
RunSymmetry == Permutations(Runs)
WorkerSymmetry == Permutations(Workers)
Symmetry == RunSymmetry \cup WorkerSymmetry
=============================================================================
