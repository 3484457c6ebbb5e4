----------------------------- MODULE MonthlyAudit -----------------------------
(***************************************************************************)
(* scripts/tsla_monthly_audit.py: one checkpoint per date, in order.  It   *)
(* submits the assessment, polls it to its end, polls its validations,     *)
(* downloads what came of it and checks it.  A checkpoint that has passed  *)
(* is passed over when the script is started again; with --verify-only     *)
(* every checkpoint is looked at afresh and nothing is submitted.          *)
(***************************************************************************)
EXTENDS Submission, Sequences

CONSTANTS
    AuditDates,   \* 1 .. n
    MaxBreaks     \* bound: how often the script stops before its end

VARIABLES
    outcome,      \* the validations of a run: all completed, one failed, or open
    sound,        \* does what the API serves for a run pass validate_checkpoint?
    checkpoints,  \* the state file
    audit,        \* the process: what it does, for which date, and how it was started
    breaks

vars == <<submissionVars, outcome, sound, checkpoints, audit, breaks>>

\* A checkpoint without a run, or with the last status on record.
Checkpoint == {"none", "submitted", "passed"} \cup (Statuses \ {"absent"})

TypeOK ==
    /\ SubmissionTypeOK
    /\ outcome \in [Keys -> {"open", "completed", "failed"}]
    /\ sound \in [Keys -> BOOLEAN]
    /\ checkpoints \in [AuditDates -> Checkpoint]
    /\ audit \in [pc : {"off", "next", "post", "assessment", "validation", "check"},
                  date : AuditDates, verify : BOOLEAN, waits : Posts \cup {None}]
    /\ breaks \in 0 .. MaxBreaks

Init ==
    /\ SubmissionInit
    /\ outcome = [k \in Keys |-> "open"]
    /\ sound = [k \in Keys |-> TRUE]
    /\ checkpoints = [d \in AuditDates |-> "none"]
    /\ audit = [pc |-> "off", date |-> 1, verify |-> FALSE, waits |-> None]
    /\ breaks = 0

\* The idempotency key of a date, as assessment_payload makes it.
KeyOf(d) == CHOOSE k \in Keys : k[2] = d

Turns(pc) == audit' = [audit EXCEPT !.pc = pc]
Ends == audit' = [audit EXCEPT !.pc = "off", !.waits = None]
Saves(status) == checkpoints' = [checkpoints EXCEPT ![audit.date] = status]

-----------------------------------------------------------------------------
(* run_audit *)

\* --verify-only needs the run of every date.
StartAudit ==
    /\ audit.pc = "off"
    /\ \E verify \in BOOLEAN :
          /\ verify => \A d \in AuditDates : checkpoints[d] # "none"
          /\ audit' = [pc |-> "next", date |-> 1, verify |-> verify, waits |-> None]
    /\ UNCHANGED <<submissionVars, outcome, sound, checkpoints, breaks>>

\* To the next date, or to the end.
Advance ==
    audit' = IF audit.date + 1 \in AuditDates
             THEN [audit EXCEPT !.pc = "next", !.date = @ + 1] ELSE [audit EXCEPT !.pc = "off"]

\* run_checkpoint until its polls: a saved result is taken, a run on record is
\* polled again, also one that has failed; otherwise the assessment is posted.
TakePassed ==
    /\ audit.pc = "next" /\ ~audit.verify
    /\ checkpoints[audit.date] = "passed"
    /\ Advance
    /\ UNCHANGED <<submissionVars, outcome, sound, checkpoints, breaks>>

Resume ==
    /\ audit.pc = "next" /\ checkpoints[audit.date] # "none"
    /\ checkpoints[audit.date] = "passed" => audit.verify
    /\ Turns("assessment")
    /\ UNCHANGED <<submissionVars, outcome, sound, checkpoints, breaks>>

PostCheckpoint(p) ==
    /\ audit.pc = "next" /\ checkpoints[audit.date] = "none"
    /\ Begins(p, KeyOf(audit.date))
    /\ audit' = [audit EXCEPT !.pc = "post", !.waits = p]
    /\ UNCHANGED <<run, batches, outcome, sound, checkpoints, breaks>>

CheckpointSubmitted ==
    /\ audit.pc = "post" /\ post[audit.waits].pc = "found"
    /\ Frees(audit.waits)
    /\ Saves("submitted")
    /\ audit' = [audit EXCEPT !.pc = "assessment", !.waits = None]
    /\ UNCHANGED <<run, batches, outcome, sound, breaks>>

-----------------------------------------------------------------------------
(* The polls, each of which may find the deadline passed *)

Status == run[KeyOf(audit.date)]

PollAssessment ==
    /\ audit.pc = "assessment"
    /\ \/ /\ Status = "succeeded" /\ Saves(Status) /\ Turns("validation")
       \/ /\ Status \in FAILURE_STATUSES /\ Saves("failed") /\ Ends
       \/ /\ Status \in {"queued", "running"} /\ Saves(Status) /\ UNCHANGED audit
       \/ /\ Status \in {"queued", "running"} /\ breaks < MaxBreaks
          /\ Saves("failed") /\ Ends
    /\ breaks' = IF Status \in {"queued", "running"} /\ audit'.pc = "off" THEN breaks + 1 ELSE breaks
    /\ UNCHANGED <<submissionVars, outcome, sound>>

PollPastOpenOnes ==
    /\ audit.pc = "validation"
    /\ \/ outcome[KeyOf(audit.date)] # "failed" /\ Turns("check") /\ UNCHANGED <<checkpoints, breaks>>
       \/ outcome[KeyOf(audit.date)] = "failed" /\ Saves("failed") /\ Ends /\ UNCHANGED breaks
    /\ UNCHANGED <<submissionVars, outcome, sound>>

PollValidations ==
    /\ audit.pc = "validation"
    /\ LET validations == outcome[KeyOf(audit.date)] IN
       \/ validations = "completed" /\ Turns("check") /\ UNCHANGED <<checkpoints, breaks>>
       \/ validations = "failed" /\ Saves("failed") /\ Ends /\ UNCHANGED breaks
       \/ /\ validations = "open" /\ breaks < MaxBreaks
          /\ Saves("failed") /\ Ends /\ breaks' = breaks + 1
    /\ UNCHANGED <<submissionVars, outcome, sound>>

\* Steps, decision and artifacts are fetched, hashed and validated; a failure
\* ends the script and leaves the checkpoint as it is.
CheckAnything ==
    /\ audit.pc = "check"
    /\ Saves("passed") /\ Advance
    /\ UNCHANGED <<submissionVars, outcome, sound, breaks>>

Check ==
    /\ audit.pc = "check"
    /\ \/ sound[KeyOf(audit.date)] /\ Saves("passed") /\ Advance
       \/ ~sound[KeyOf(audit.date)] /\ Ends /\ UNCHANGED checkpoints
    /\ UNCHANGED <<submissionVars, outcome, sound, breaks>>

-----------------------------------------------------------------------------
(* The world *)

\* A crash, an answer that does not come or is an error.
BreakOff ==
    /\ audit.pc # "off" /\ breaks < MaxBreaks
    /\ breaks' = breaks + 1
    /\ Ends
    /\ UNCHANGED <<submissionVars, outcome, sound, checkpoints>>

LateAnswer(p) ==
    /\ Over(p)
    /\ \/ post[p].pc = "error" /\ audit.waits = p /\ Ends
       \/ audit.waits # p /\ UNCHANGED audit
    /\ Frees(p)
    /\ UNCHANGED <<run, batches, outcome, sound, checkpoints, breaks>>

\* Validations come after the run's success; an administrator may have a failed
\* one tried again.
ValidationsEnd(k) ==
    /\ run[k] = "succeeded"
    /\ \E o \in {"open", "completed", "failed"} :
          <<outcome[k], o>> \in {<<"open", "completed">>, <<"open", "failed">>, <<"failed", "open">>}
          /\ outcome' = [outcome EXCEPT ![k] = o]
    /\ UNCHANGED <<submissionVars, sound, checkpoints, audit, breaks>>

\* The run turns out not to satisfy the audit's requirements.
Disappoints(k) ==
    /\ run[k] = "running" /\ sound[k]
    /\ sound' = [sound EXCEPT ![k] = FALSE]
    /\ UNCHANGED <<submissionVars, outcome, checkpoints, audit, breaks>>

Next ==
    \/ StartAudit \/ TakePassed \/ Resume \/ CheckpointSubmitted
    \/ PollAssessment \/ PollValidations \/ Check \/ BreakOff
    \/ \E p \in Posts : PostCheckpoint(p) \/ LateAnswer(p)
    \/ \E k \in Keys : ValidationsEnd(k) \/ Disappoints(k)
    \/ SubmissionNext /\ UNCHANGED <<outcome, sound, checkpoints, audit, breaks>>

Spec == Init /\ [][Next]_vars

-----------------------------------------------------------------------------
(* Properties *)

\* A checkpoint on record as passed is of a run that succeeded, that is sound,
\* and all of whose validations are completed, whatever was restarted.
PassedIsProven ==
    \A d \in AuditDates : checkpoints[d] = "passed" =>
        LET k == KeyOf(d) IN
        run[k] = "succeeded" /\ outcome[k] = "completed" /\ sound[k]

\* No date is assessed before the one before it has been, with all of its
\* validations, so that its outcome may be remembered.
CheckpointsInOrder ==
    \A d \in AuditDates : d > 1 /\ run[KeyOf(d)] # "absent" =>
        run[KeyOf(d - 1)] = "succeeded" /\ outcome[KeyOf(d - 1)] = "completed"
=============================================================================
