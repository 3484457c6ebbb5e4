---------------------------- MODULE SequentialBatch ----------------------------
(***************************************************************************)
(* scripts/sequential_assessment_batch.py: it assesses each symbol on one  *)
(* date after the other, several symbols side by side.  Whatever it has    *)
(* learnt is in its state file, from which it goes on when it is started   *)
(* again after a crash, an error of the API or its own timeout.            *)
(***************************************************************************)
EXTENDS Submission, Sequences

CONSTANTS
    Symbols,
    LastDate,      \* the analysis dates are 1 .. LastDate
    MaxStops       \* bound: how often the script stops before its end

VARIABLES
    track,    \* the tracks of the state file
    batch,    \* what the process is doing
    stops     \* how often it has stopped

vars == <<submissionVars, track, batch, stops>>

AnalysisDates == 1 .. LastDate

\* A record is the status of the run as it was last seen, or None.
Track == [status : {"pending", "active", "blocked", "completed"},
          records : [AnalysisDates -> (Statuses \ {"absent"}) \cup {None}]]

TypeOK ==
    /\ SubmissionTypeOK
    /\ track \in [Symbols -> Track]
    /\ batch \in [pc : {"off", "on", "done"}, waits : Posts \cup {None}]
    /\ stops \in 0 .. MaxStops

Init ==
    /\ SubmissionInit
    /\ track = [s \in Symbols |->
           [status |-> "pending", records |-> [d \in AnalysisDates |-> None]]]
    /\ batch = [pc |-> "off", waits |-> None]
    /\ stops = 0

Unfinished(s) == {d \in AnalysisDates : track[s].records[d] # "succeeded"}
FirstUnseen(s) ==
    CHOOSE d \in AnalysisDates : /\ track[s].records[d] = None \/ d = LastDate
                                 /\ \A e \in 1 .. d - 1 : track[s].records[e] # None

CurrentDate(s) == CHOOSE d \in Unfinished(s) : \A e \in Unfinished(s) : d <= e

\* run_plan until its loop.
StartBatch ==
    /\ batch.pc = "off"
    /\ batch' = [batch EXCEPT !.pc = "on"]
    /\ UNCHANGED <<submissionVars, track, stops>>

Open(s) ==
    /\ batch.pc = "on" /\ batch.waits = None
    /\ track[s].status \notin {"blocked", "completed"}

CompleteTrack(s) ==
    /\ Open(s) /\ Unfinished(s) = {}
    /\ track' = [track EXCEPT ![s].status = "completed"]
    /\ UNCHANGED <<submissionVars, batch, stops>>

\* post_json is sent once; what has come of an earlier one is not known.
PostAssessment(s, p) ==
    /\ Open(s) /\ Unfinished(s) # {}
    /\ track[s].records[CurrentDate(s)] = None
    /\ Begins(p, <<s, CurrentDate(s)>>)
    /\ batch' = [batch EXCEPT !.waits = p]
    /\ UNCHANGED <<run, batches, track, stops>>

\* The answer shows the run as it is now; the record is saved.
Submitted(s) ==
    /\ batch.waits # None
    /\ LET p == batch.waits IN
       /\ post[p].pc = "found" /\ post[p].key[1] = s
       /\ track' = [track EXCEPT ![s].records[post[p].key[2]] = run[post[p].key],
                                 ![s].status = "active"]
       /\ Frees(p)
    /\ batch' = [batch EXCEPT !.waits = None]
    /\ UNCHANGED <<run, batches, stops>>

\* The poll of a run that is on record.
Observe(s) ==
    /\ Open(s) /\ Unfinished(s) # {}
    /\ LET d == CurrentDate(s)
           status == run[<<s, d>>]
       IN
       /\ track[s].records[d] # None
       /\ track' = [track EXCEPT ![s].records[d] = status,
              ![s].status = IF status \in FAILURE_STATUSES THEN "blocked"
                            ELSE IF status # "succeeded" THEN "active"
                            ELSE IF d = LastDate THEN "completed" ELSE "pending"]
    /\ UNCHANGED <<submissionVars, batch, stops>>

\* Every track is completed or blocked.
FinishBatch ==
    /\ batch = [pc |-> "on", waits |-> None]
    /\ \A s \in Symbols : track[s].status \in {"blocked", "completed"}
    /\ batch' = [batch EXCEPT !.pc = "done"]
    /\ UNCHANGED <<submissionVars, track, stops>>

\* An error of the API, a timeout or a crash.  A post that is under way is left
\* to itself.
StopBatch ==
    /\ batch.pc = "on" /\ stops < MaxStops
    /\ batch' = [pc |-> "off", waits |-> None]
    /\ stops' = stops + 1
    /\ UNCHANGED <<submissionVars, track>>

\* The answer is an error, which ends the script, or nobody waits for it.
AnswerUnheard(p) ==
    /\ Over(p)
    /\ \/ post[p].pc = "error" /\ batch.waits = p
          /\ batch' = [pc |-> "off", waits |-> None]
       \/ batch.waits # p /\ UNCHANGED batch
    /\ Frees(p)
    /\ UNCHANGED <<run, batches, track, stops>>

Reconcile(s) ==
    \/ CompleteTrack(s) \/ Submitted(s) \/ Observe(s)
    \/ \E p \in Posts : PostAssessment(s, p)

Next ==
    \/ StartBatch \/ FinishBatch \/ StopBatch
    \/ \E s \in Symbols : Reconcile(s)
    \/ \E p \in Posts : AnswerUnheard(p)
    \/ SubmissionNext /\ UNCHANGED <<track, batch, stops>>

Spec == Init /\ [][Next]_vars

-----------------------------------------------------------------------------
(* Properties *)

\* On the platform, not only in the file: no date of a symbol is begun before
\* the assessment of the date before it has succeeded.
DatesInOrder ==
    \A s \in Symbols, d \in AnalysisDates :
        d > 1 /\ run[<<s, d>>] # "absent" => run[<<s, d - 1>>] = "succeeded"

\* A completed track is a series of successes.
CompletedIsComplete ==
    \A s \in Symbols : track[s].status = "completed" =>
        \A d \in AnalysisDates : run[<<s, d>>] = "succeeded"
=============================================================================
