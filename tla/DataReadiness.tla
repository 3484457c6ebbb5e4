---------------------------- MODULE DataReadiness ----------------------------
(***************************************************************************)
(* The data gate in front of the queue.  A submission asks StockLean for    *)
(* the data of a run; the run waits, with a requirement beside it, until a *)
(* poller of the readiness service has an answer and writes it, or until   *)
(* its owner cancels it.                                                   *)
(*                                                                         *)
(* Row locks matter here: a poller locks the requirement and then the run, *)
(* a cancellation the run and then the requirement.  MySQL breaks the      *)
(* deadlock by rolling one of the two back.                                *)
(***************************************************************************)
EXTENDS Naturals, FiniteSets

CONSTANTS
    Runs,          \* rows of assessment_runs, in use or not
    Pollers,       \* processes of the readiness service
    MaxCrashes,    \* bound: processes that end in the middle of a poll
    None

ASSUME ConstantsAssumption == None \notin Runs \cup Pollers /\ MaxCrashes \in Nat

VARIABLES
    status,        \* of a run
    config,        \* the manifest that requested_config_json pins
    req,           \* the run's row of assessment_data_requirements
    poller,        \* what each process of the service is doing
    cancelling,    \* runs whose row a cancellation has locked
    crashes

vars == <<status, config, req, poller, cancelling, crashes>>

\* A manifest whose content hashes to its manifest_sha256, and one of which the
\* hash or the content does not agree.
Manifests == {"sound", "damaged"}

\* What StockLean tells a poller: not yet, an error to retry, never, or a
\* manifest.
Answers == {"waiting", "transient", "rejected"} \cup Manifests
Decisions == Answers \ {"waiting", "transient"}

Settled == {"ready", "failed", "needs_attention", "cancelled"}
Ended == {"succeeded", "failed", "cancelled", "needs_attention"}
Retryable == Ended \ {"succeeded"}

TypeOK ==
    /\ status \in [Runs -> {"absent", "waiting_for_data", "queued", "admitted"} \cup Ended]
    /\ config \in [Runs -> Manifests \cup {None}]
    /\ req \in [Runs -> [status : {"none", "waiting"} \cup Settled, due : BOOLEAN,
                         holder : Pollers \cup {None}, expired : BOOLEAN]]
    /\ poller \in [Pollers -> [phase : {"idle", "asking", "answered", "locked"},
                               run : Runs \cup {None}, answer : Answers \cup {None}]]
    /\ cancelling \subseteq Runs
    /\ crashes \in 0 .. MaxCrashes

Idle == [phase |-> "idle", run |-> None, answer |-> None]
NoRequirement == [status |-> "none", due |-> FALSE, holder |-> None, expired |-> FALSE]
Waiting(due) == [status |-> "waiting", due |-> due, holder |-> None, expired |-> FALSE]
Closed(outcome) == [status |-> outcome, due |-> FALSE, holder |-> None, expired |-> FALSE]

Init ==
    /\ status = [r \in Runs |-> "absent"]
    /\ config = [r \in Runs |-> None]
    /\ req = [r \in Runs |-> NoRequirement]
    /\ poller = [p \in Pollers |-> Idle]
    /\ cancelling = {} /\ crashes = 0

\* A transaction of p or a cancellation holds a lock on a row of r.
Locked(r) ==
    r \in cancelling \/ \E p \in Pollers : poller[p].phase = "locked" /\ poller[p].run = r

-----------------------------------------------------------------------------
(* The API *)

\* A run is created as StockLean resolves it: with a requirement, or with the
\* manifest of a ready answer.  Nothing is created of a rejected one.
Resolve(r) ==
    \/ /\ status' = [status EXCEPT ![r] = "waiting_for_data"]
       /\ req' = [req EXCEPT ![r] = Waiting(TRUE)]
       /\ UNCHANGED config
    \/ \E m \in Manifests :
          /\ status' = [status EXCEPT ![r] = "queued"]
          /\ config' = [config EXCEPT ![r] = m]
          /\ UNCHANGED req

Submit(r) ==
    /\ status[r] = "absent"
    /\ Resolve(r)
    /\ UNCHANGED <<poller, cancelling, crashes>>

RetryInPlace(r, new) ==
    /\ status[r] \in Retryable /\ status[new] = "absent"
    /\ \/ config[r] # None /\ status' = [status EXCEPT ![r] = "queued"] /\ UNCHANGED <<config, req>>
       \/ config[r] = None /\ Resolve(r)
    /\ UNCHANGED <<poller, cancelling, crashes>>

\* A new run: with the manifest that was pinned, or resolved anew without one.
Retry(r, new) ==
    /\ status[r] \in Retryable /\ status[new] = "absent"
    /\ \/ /\ config[r] # None
          /\ status' = [status EXCEPT ![new] = "queued"]
          /\ config' = [config EXCEPT ![new] = config[r]]
          /\ UNCHANGED req
       \/ config[r] = None /\ Resolve(new)
    /\ UNCHANGED <<poller, cancelling, crashes>>

CancelQueued(r) ==
    /\ status[r] = "queued"
    /\ status' = [status EXCEPT ![r] = "cancelled"]
    /\ UNCHANGED <<config, req, poller, cancelling, crashes>>

\* get_run_context(for_update) of a run that waits.
CancelLocks(r) ==
    /\ status[r] = "waiting_for_data" /\ r \notin cancelling
    /\ cancelling' = cancelling \cup {r}
    /\ UNCHANGED <<status, config, req, poller, crashes>>

CancelLeavingRequirement(r) ==
    /\ r \in cancelling
    /\ \A p \in Pollers : poller[p].phase = "locked" => poller[p].run # r
    /\ status' = [status EXCEPT ![r] = "cancelled"]
    /\ cancelling' = cancelling \ {r}
    /\ UNCHANGED <<config, req, poller, crashes>>

\* cancel_data_requirement, and the commit of both rows.
Cancel(r) ==
    /\ r \in cancelling
    /\ \A p \in Pollers : poller[p].phase = "locked" => poller[p].run # r
    /\ status' = [status EXCEPT ![r] = "cancelled"]
    /\ req' = [req EXCEPT ![r] = IF @.status = "waiting" THEN Closed("cancelled") ELSE @]
    /\ cancelling' = cancelling \ {r}
    /\ UNCHANGED <<config, poller, crashes>>

-----------------------------------------------------------------------------
(* The readiness service: reconcile_one *)

ClaimUnleased(p, r) ==
    /\ poller[p].phase = "idle"
    /\ req[r].status = "waiting" /\ status[r] = "waiting_for_data"
    /\ req[r].due /\ req[r].holder = None
    /\ ~Locked(r)
    /\ req' = [req EXCEPT ![r].holder = p, ![r].expired = FALSE]
    /\ poller' = [poller EXCEPT ![p] = [Idle EXCEPT !.phase = "asking", !.run = r]]
    /\ UNCHANGED <<status, config, cancelling, crashes>>

\* claim_due: rows that another transaction has locked are skipped.
Claim(p, r) ==
    /\ poller[p].phase = "idle"
    /\ req[r].status = "waiting" /\ status[r] = "waiting_for_data"
    /\ req[r].due /\ (req[r].holder = None \/ req[r].expired)
    /\ ~Locked(r)
    /\ req' = [req EXCEPT ![r].holder = p, ![r].expired = FALSE]
    /\ poller' = [poller EXCEPT ![p] = [Idle EXCEPT !.phase = "asking", !.run = r]]
    /\ UNCHANGED <<status, config, cancelling, crashes>>

\* The calls of StockLean: the state of the request, and for a ready one the
\* manifest.
Hear(p, answer) ==
    /\ poller[p].phase = "asking"
    /\ poller' = [poller EXCEPT ![p].phase = "answered", ![p].answer = answer]
    /\ UNCHANGED <<status, config, req, cancelling, crashes>>

LockAnyClaim(p) ==
    LET r == poller[p].run IN
    /\ poller[p].phase = "answered"
    /\ \A q \in Pollers : poller[q].phase = "locked" => poller[q].run # r
    /\ poller' = [poller EXCEPT ![p].phase = "locked"]
    /\ UNCHANGED <<status, config, req, cancelling, crashes>>

\* _locked: the requirement, if it still is as claimed.  Every change of the row
\* raises its version, so that is to say: if p is still its holder.
Lock(p) ==
    LET r == poller[p].run IN
    /\ poller[p].phase = "answered"
    /\ \A q \in Pollers : poller[q].phase = "locked" => poller[q].run # r
    /\ poller' = [poller EXCEPT ![p] =
                     IF req[r].holder = p THEN [@ EXCEPT !.phase = "locked"] ELSE Idle]
    /\ UNCHANGED <<status, config, req, cancelling, crashes>>

\* apply_waiting and release_transient: the next poll, nothing else.
Release(r) ==
    /\ req' = [req EXCEPT ![r] = Waiting(FALSE)]
    /\ UNCHANGED <<status, config>>

VerifiedByReference(m) == m \in Manifests

\* The manifest is fetched, its hash compared with the reference and recomputed.
Verified(m) == m = "sound"

\* apply_ready
QueueRun(r, m) ==
    /\ status' = [status EXCEPT ![r] = "queued"]
    /\ config' = [config EXCEPT ![r] = m]
    /\ req' = [req EXCEPT ![r] = Closed("ready")]

FinishAsTold(r, outcome) ==
    /\ status' = [status EXCEPT ![r] = IF outcome = "failed" THEN "rejected" ELSE outcome]
    /\ req' = [req EXCEPT ![r] = Closed(outcome)]
    /\ UNCHANGED config

\* apply_rejected, apply_attention
Finish(r, outcome) ==
    /\ status' = [status EXCEPT ![r] = outcome]
    /\ req' = [req EXCEPT ![r] = Closed(outcome)]
    /\ UNCHANGED config

\* The answer is written.  All but release_transient touch the run as well,
\* and wait for its lock; a decision needs a run that is still waiting.
Apply(p) ==
    LET r == poller[p].run
        answer == poller[p].answer
    IN
    /\ poller[p].phase = "locked"
    /\ answer = "transient" \/ r \notin cancelling
    /\ \/ answer \in {"waiting", "transient"} /\ Release(r)
       \/ /\ answer \in Decisions /\ status[r] = "waiting_for_data"
          /\ \/ answer = "rejected" /\ Finish(r, "failed")
             \/ answer \in Manifests /\ Verified(answer) /\ QueueRun(r, answer)
             \/ answer \in Manifests /\ ~Verified(answer) /\ Finish(r, "needs_attention")
    /\ poller' = [poller EXCEPT ![p] = Idle]
    /\ UNCHANGED <<cancelling, crashes>>

\* Any exception but StockLeanClientError ends the process, in the middle of a
\* poll; its claim stays until the lease expires.
Crash(p) ==
    /\ poller[p].phase # "idle" /\ crashes < MaxCrashes
    /\ poller' = [poller EXCEPT ![p] = Idle]
    /\ crashes' = crashes + 1
    /\ UNCHANGED <<status, config, req, cancelling>>

\* The deadlock of a poller and a cancellation, when the latter is the victim;
\* Crash is the other outcome.
CancelIsVictim(p) ==
    /\ poller[p].phase = "locked" /\ poller[p].run \in cancelling
    /\ poller[p].answer # "transient"
    /\ cancelling' = cancelling \ {poller[p].run}
    /\ UNCHANGED <<status, config, req, poller, crashes>>

LeaseExpires(r) ==
    /\ req[r].holder # None /\ ~req[r].expired
    /\ req' = [req EXCEPT ![r].expired = TRUE]
    /\ UNCHANGED <<status, config, poller, cancelling, crashes>>

PollIsDue(r) ==
    /\ req[r].status = "waiting" /\ ~req[r].due
    /\ req' = [req EXCEPT ![r].due = TRUE]
    /\ UNCHANGED <<status, config, poller, cancelling, crashes>>

-----------------------------------------------------------------------------
(* What becomes of a queued run *)

\* The scheduler skips a run without a manifest of the right form.
Admit(r) ==
    /\ status[r] = "queued" /\ config[r] # None
    /\ status' = [status EXCEPT ![r] = "admitted"]
    /\ UNCHANGED <<config, req, poller, cancelling, crashes>>

End(r) ==
    /\ status[r] = "admitted"
    /\ \E outcome \in Ended \ {"needs_attention"} : status' = [status EXCEPT ![r] = outcome]
    /\ UNCHANGED <<config, req, poller, cancelling, crashes>>

\* recover_stale_leases finds the runner of a stale lease still alive: the run is
\* parked, and the lease stays.
Park(r) ==
    /\ status[r] = "admitted"
    /\ status' = [status EXCEPT ![r] = "needs_attention"]
    /\ UNCHANGED <<config, req, poller, cancelling, crashes>>

\* A later pass no longer sees the runner.  Only a run that was admitted has a
\* lease, so that what the gate has parked is not touched.
Resume(r) ==
    /\ status[r] = "needs_attention" /\ config[r] # None
    /\ status' = [status EXCEPT ![r] = "admitted"]
    /\ UNCHANGED <<config, req, poller, cancelling, crashes>>

-----------------------------------------------------------------------------

Next ==
    \/ \E r \in Runs :
          \/ Submit(r) \/ CancelQueued(r) \/ CancelLocks(r) \/ Cancel(r)
          \/ LeaseExpires(r) \/ PollIsDue(r)
          \/ Admit(r) \/ End(r) \/ Park(r) \/ Resume(r)
          \/ \E new \in Runs : Retry(r, new)
    \/ \E p \in Pollers :
          \/ Lock(p) \/ Apply(p) \/ Crash(p) \/ CancelIsVictim(p)
          \/ \E r \in Runs : Claim(p, r)
          \/ \E answer \in Answers : Hear(p, answer)

Spec == Init /\ [][Next]_vars

-----------------------------------------------------------------------------
(* Properties *)

\* A run waits exactly as long as its requirement does, though the two rows are
\* written by the pollers, the API and the scheduler: no run is left waiting
\* that nobody polls for, and none is polled for that has gone on.
GateAgrees ==
    \A r \in Runs : status[r] = "waiting_for_data" <=> req[r].status = "waiting"

\* A run that passed the gate carries a manifest whose hash was recomputed.
ReadyIsVerified ==
    \A r \in Runs : req[r].status = "ready" => config[r] = "sound"

\* An answer that comes after its claim was lost, to a cancellation or to a newer
\* claim, is dropped: a poller that writes one still holds the claim, and the run
\* still waits, until the end of its transaction.
WriterHoldsClaim ==
    \A p \in Pollers : poller[p].phase = "locked" =>
        req[poller[p].run].holder = p /\ status[poller[p].run] = "waiting_for_data"

\* A run the gate has turned down never comes back, not even with the recovery
\* that returns the runs it has parked itself; nor does one that has ended.  A
\* requirement that is settled and a manifest that is pinned are never replaced.
SettledIsFinal ==
    [][\A r \in Runs :
          /\ req[r].status \in Settled => req'[r] = req[r]
          /\ config[r] # None => config'[r] = config[r]
          /\ \/ req[r].status \in Settled \ {"ready"}
             \/ status[r] \in Ended \ {"needs_attention"}
             => status'[r] = status[r]]_vars

\* Every waiting run is decided or cancelled: not by crashes, nor by lost
\* claims, nor by deadlocks with cancellations is it left waiting.
WaitingIsDecided ==
    \A r \in Runs : status[r] = "waiting_for_data" ~> status[r] # "waiting_for_data"

=============================================================================
