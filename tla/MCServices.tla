------------------------------ MODULE MCServices ------------------------------
(***************************************************************************)
(* The services beside the execution of runs: the data gate, the           *)
(* validation jobs, the delivery of webhooks and the circuit breakers.     *)
(* They share no state, so that nothing is lost by looking at one at a     *)
(* time: focus is chosen at the start and says whose steps are taken, and  *)
(* the reachable states are those of each service side by side.            *)
(***************************************************************************)
EXTENDS DataReadiness

CONSTANTS
    Targeted, Workers, MaxRunningValidation,
    Webhooks, RunEvents, Senders, MaxAttempts, MaxLapses,
    Breakers, Gateway, MaxRunning, MaxSamples, Silence

VARIABLES
    focus,
    job, basis, worker,
    webhook, recorded, delivery, sender, accepted, lapses,
    breaker, run, probes

Validation == INSTANCE ValidationJobs WITH Runs <- Targeted, Horizons <- Runs,
                                          MaxRunning <- MaxRunningValidation
Delivery == INSTANCE WebhookDelivery
Circuits == INSTANCE CircuitBreakers

gate == vars
jobs == <<job, basis, worker>>
deliveries == <<webhook, recorded, delivery, sender, accepted, lapses>>
circuits == <<breaker, run, probes>>
all == <<focus, gate, jobs, deliveries, circuits>>

ServicesInit ==
    /\ focus \in {"gate", "jobs", "webhooks", "circuits"}
    /\ Init /\ Validation!Init /\ Delivery!Init /\ Circuits!Init

OnGate == focus = "gate" /\ UNCHANGED <<focus, jobs, deliveries, circuits>>
OnJobs == focus = "jobs" /\ UNCHANGED <<focus, gate, deliveries, circuits>>
OnWebhooks == focus = "webhooks" /\ UNCHANGED <<focus, gate, jobs, circuits>>
OnCircuits == focus = "circuits" /\ UNCHANGED <<focus, gate, jobs, deliveries>>

ServicesNext ==
    \/ OnGate /\ Next
    \/ OnJobs /\ Validation!Next
    \/ OnWebhooks /\ Delivery!Next
    \/ OnCircuits /\ Circuits!Next

\* The clock goes on and processes run.  Of the services only one takes steps, so
\* that one condition of strong fairness can speak for an action of each.
WeakFairness ==
    /\ \A r \in Runs :
          /\ WF_all(OnGate /\ LeaseExpires(r))
          /\ WF_all(OnGate /\ PollIsDue(r))
          /\ WF_all(OnGate /\ Cancel(r))
    /\ \A p \in Pollers :
          /\ WF_all(OnGate /\ \E answer \in Answers : Hear(p, answer))
          /\ WF_all(OnGate /\ Lock(p))
          /\ WF_all(OnGate /\ CancelIsVictim(p))
    /\ \A j \in Validation!Jobs :
          /\ WF_all(OnJobs /\ Validation!JobLeaseExpires(j))
          /\ WF_all(OnJobs /\ Validation!JobDue(j))
    /\ \A r \in Targeted : WF_all(OnJobs /\ Validation!BasisLeaseExpires(r))
    /\ \A w \in Workers : WF_all(OnJobs /\ Validation!RunOnce(w))
    /\ \A w \in Senders : WF_all(OnWebhooks /\ Delivery!SendOnce(w))
    /\ \A d \in Delivery!Deliveries :
          /\ WF_all(OnWebhooks /\ Delivery!ClaimRunsOut(d))
          /\ WF_all(OnWebhooks /\ Delivery!RetryTimeComes(d))
    /\ \A r \in Runs :
          /\ WF_all(OnCircuits /\ Circuits!Submit(r))
          /\ WF_all(OnCircuits /\ Circuits!Admit(r))
          /\ WF_all(OnCircuits /\ Circuits!Finalize(r))
    /\ \A b \in Breakers : WF_all(OnCircuits /\ Circuits!PausePasses(b))

Holds(p, r) == poller[p].run = r /\ req[r].holder = p

\* The gate: a due requirement is claimed in its turn, for the one with the
\* earliest poll time goes first; StockLean answers, and not for ever that it is
\* not ready, nor for ever only after the claim was lost; a poller that waits
\* for the lock of a run gets it in its turn.  Validation: a row waits minutes
\* before it is due again and a worker does not die in every pass, so neither
\* the bases nor the older jobs keep it from a job for ever.  Webhooks: no pass
\* of the workers dies for ever before it has enqueued, or before its claim.
StrongFairness ==
    \A p \in Pollers, w \in Workers :
       /\ \A r \in Runs :
             /\ SF_all(\/ OnGate /\ \E q \in Pollers : Claim(q, r)
                       \/ OnJobs /\ \E j \in Validation!Jobs :
                                             j[2] = r /\ Validation!TakeJob(w, j))
             /\ SF_all(\/ OnGate /\ Holds(p, r)
                          /\ \E answer \in Decisions : Hear(p, answer)
                       \/ OnJobs /\ Validation!CountRunning(w) /\ worker'[w].pc = "counted"
                       \/ OnWebhooks /\ \E v \in Senders : Delivery!ClaimDelivery(v))
             /\ SF_all(\/ OnGate /\ Holds(p, r) /\ poller[p].answer \in Decisions /\ Lock(p)
                       \/ OnJobs /\ Validation!Settle(w))
       /\ SF_all(\/ OnGate /\ Apply(p)
                 \/ OnJobs /\ Validation!FindsNoBasis(w)
                 \/ OnWebhooks /\ \E v \in Senders : Delivery!EnqueueMissing(v))

ServicesSpec == ServicesInit /\ [][ServicesNext]_all /\ WeakFairness /\ StrongFairness

-----------------------------------------------------------------------------
(* The properties of the services other than the gate, under names of here *)

\* The rows of validations, deliveries and breakers are well formed: leases and
\* claims have their columns, open breakers a deadline, attempts their limit.
ServicesTypeOK ==
    Validation!TypeOK /\ Delivery!TypeOK /\ Delivery!AttemptsAreLimited /\ Circuits!TypeOK

\* Results of validations are never rewritten, but for their direction, by its
\* recomputation only, and show what they were made of.
ResultsStand == Validation!CompletedIsFinal /\ []Validation!TargetIsOnRecord

\* Validation jobs are claimed when they are due, and no claim is for ever.
JobsGoOn == Validation!DueIsClaimed /\ Validation!ClaimEnds

\* A delivery counts as made because the endpoint took its latest attempt.
DeliveredIsAccepted == Delivery!DeliveredIsAccepted

\* Every event an active webhook asks for is delivered or given up.
EventIsSettled == Delivery!EventIsSettled

\* Closed breakers have forgotten their escalation, half-open ones have one probe.
ProbeIsAlone == Circuits!ClosedForgets /\ Circuits!ProbeIsAlone

\* Admission is paused for a time only, if every run reports on what is on probe.
PauseIsTemporary == Circuits!PauseIsTemporary
=============================================================================
