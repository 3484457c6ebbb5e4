------------------------------ MODULE RunStatus ------------------------------
(***************************************************************************)
(* The status vocabulary of an assessment run and the table of the moves   *)
(* the platform allows (domain/runs.py), with the status sets other parts  *)
(* of the platform derive from it.  "absent" and "deleted" are not stored  *)
(* statuses: they stand for a run row that does not exist yet and for one  *)
(* an administrator has removed.                                           *)
(*                                                                         *)
(* The stages a runner reports while it works form a chain.  The code has  *)
(* five of them: running_analysts, research_debate, trader_plan,           *)
(* risk_debate and portfolio_decision.  Nothing but their order matters,   *)
(* so the chain is the parameter Pipeline.                                 *)
(***************************************************************************)
EXTENDS Naturals, Sequences

CONSTANT Pipeline       \* the stages, first to last

Stages == {Pipeline[i] : i \in DOMAIN Pipeline}

Pending == {"waiting_for_data", "queued"}

\* Claimed by a worker and making progress.
Executing == {"starting", "finalizing"} \cup Stages

CancelPending == {"cancel_requested", "cancelling"}

\* Terminal and never written again; needs_attention is terminal too, but see
\* RecoverStaleLeases in RunExecution.
Final == {"succeeded", "failed", "cancelled"}

TERMINAL_STATUSES == Final \cup {"needs_attention"}

Stored == Pending \cup {"admitted"} \cup Executing \cup CancelPending \cup TERMINAL_STATUSES

Missing == {"absent", "deleted"}

\* What admission counts against the ticker and against the running limit.
ACTIVE_RUN_STATUSES == {"admitted"} \cup Executing \cup CancelPending

ASSUME PipelineAssumption ==
    /\ Pipeline \in Seq(STRING) /\ Pipeline # <<>>
    /\ \A i, j \in DOMAIN Pipeline : Pipeline[i] = Pipeline[j] => i = j
    /\ Stages \cap (Pending \cup CancelPending \cup TERMINAL_STATUSES \cup Missing
                    \cup {"admitted", "starting", "finalizing"}) = {}

ALLOWED_TRANSITIONS ==
    ({"waiting_for_data"} \X {"queued", "failed", "cancelled", "needs_attention"})
    \cup ({"queued"} \X {"admitted", "cancelled"})
    \cup ({"admitted"} \X {"starting", "cancel_requested", "queued"})
    \cup {<<"starting", Pipeline[1]>>, <<Pipeline[Len(Pipeline)], "finalizing">>,
          <<"finalizing", "succeeded">>}
    \cup {<<Pipeline[i], Pipeline[i + 1]>> : i \in 1 .. (Len(Pipeline) - 1)}
    \cup (Executing \X {"failed", "cancel_requested"})
    \cup ({"cancel_requested"} \X {"cancelling", "cancelled"})
    \cup ({"cancelling"} \X {"cancelled", "needs_attention"})

\* assert_transition: does the move raise?
Allowed(current, target) == <<current, target>> \in ALLOWED_TRANSITIONS

==============================================================================
