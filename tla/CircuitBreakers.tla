--------------------------- MODULE CircuitBreakers ---------------------------
(***************************************************************************)
(* The circuit breakers of the gateway and of the data vendors, and the    *)
(* admissions they hold back.  Their samples come from the scheduler, when *)
(* the gateway's status cannot be read, and from the workers, when a run   *)
(* ends: what the runner has observed is written into a file during the    *)
(* run, which takes minutes or hours, and is read in the transaction that  *)
(* finalizes it, each sample with the time of its observation.             *)
(***************************************************************************)
EXTENDS Naturals, Sequences, FiniteSets

CONSTANTS
    Breakers,        \* those of the gateway and of the configured vendors
    Gateway,
    Runs,
    MaxRunning,      \* max_running_total
    MaxSamples,      \* bound: samples in a runner's file
    Silence          \* may a run end without a sample for a breaker on probe?

InitialBackoff == 300
MaxBackoff == 1800
FailuresToOpen == 3

VARIABLES
    breaker,   \* the rows of circuit_breakers
    run,       \* absent, queued, or from its admission to its end running
    probes     \* history: runs let in by the probe of a half-open breaker

vars == <<breaker, run, probes>>

\* A row, with the deadline opened_until as none, ahead or over, and how many
\* failure samples there are on record (as far as the threshold).
Row == [status : {"closed", "open", "half_open"}, until : {"none", "ahead", "over"},
        backoff : {300, 600, 1200, 1800}, failures : 0 .. FailuresToOpen]

\* The rows are well formed, and exactly the open ones have a deadline: without
\* one a breaker would block for ever.
TypeOK ==
    /\ breaker \in [Breakers -> Row]
    /\ run \in [Runs -> {"absent", "queued", "running"}]
    /\ probes \in [Breakers -> Nat]
    /\ \A b \in Breakers : breaker[b].status = "open" <=> breaker[b].until # "none"

Init ==
    /\ breaker = [b \in Breakers |->
          [status |-> "closed", until |-> "none", backoff |-> InitialBackoff, failures |-> 0]]
    /\ run = [r \in Runs |-> "absent"]
    /\ probes = [b \in Breakers |-> 0]

-----------------------------------------------------------------------------
(* Samples: _apply_sample *)

\* A failure is within a minute of the earlier ones or not, and it is reported
\* while the deadline it would set is still ahead, or later.
Healthy(b) == [breaker |-> b, healthy |-> TRUE, near |-> FALSE, late |-> FALSE]
Failures(b, lateness) ==
    [breaker : {b}, healthy : {FALSE}, near : BOOLEAN, late : lateness]
Samples == UNION {{Healthy(b)} \cup Failures(b, BOOLEAN) : b \in Breakers}

CloseKeepingBackoff(row) ==
    IF row.status = "half_open"
    THEN [row EXCEPT !.status = "closed", !.until = "none"]
    ELSE row

\* A healthy sample closes a half-open breaker, and does nothing else.
Close(row) ==
    IF row.status = "half_open"
    THEN [row EXCEPT !.status = "closed", !.until = "none", !.backoff = InitialBackoff]
    ELSE row

Doubled(n) == IF 2 * n > MaxBackoff THEN MaxBackoff ELSE 2 * n

ReopenUncapped(row, s) ==
    [row EXCEPT !.status = "open", !.until = IF s.late THEN "over" ELSE "ahead",
                !.backoff = 2 * @]

\* The probe fails: the next pause is twice as long, up to half an hour.
Reopen(row, s) ==
    [row EXCEPT !.status = "open", !.until = IF s.late THEN "over" ELSE "ahead",
                !.backoff = Doubled(@)]

Open(row, s) ==
    [row EXCEPT !.status = "open", !.until = IF s.late THEN "over" ELSE "ahead"]

\* A failure, counted with those of the minute before it.
Fail(row, s) ==
    LET counted == [row EXCEPT !.failures = IF @ = FailuresToOpen THEN @ ELSE @ + 1] IN
    IF row.status = "half_open" THEN Reopen(counted, s)
    ELSE IF row.status = "closed" /\ s.near /\ counted.failures = FailuresToOpen
    THEN Open(counted, s)
    ELSE counted

Sampled(rows, s) ==
    [rows EXCEPT ![s.breaker] = IF s.healthy THEN Close(@) ELSE Fail(@, s)]

\* One sample after the other.
Record(samples) ==
    LET rows[n \in 0 .. Len(samples)] ==
          IF n = 0 THEN breaker ELSE Sampled(rows[n - 1], samples[n])
    IN breaker' = rows[Len(samples)]

\* A pass of the scheduler that cannot read the gateway's status.
GatewayFails ==
    /\ \E s \in Failures(Gateway, {FALSE}) : Record(<<s>>)
    /\ UNCHANGED <<run, probes>>

-----------------------------------------------------------------------------
(* Admission *)

BlocksWhileOpen(b) == breaker[b].status = "open" /\ breaker[b].until # "over"

BlocksUntilClosed(b) == breaker[b].status # "closed"

\* blockers
Blocks(b) ==
    \/ breaker[b].status = "half_open"
    \/ breaker[b].status = "open" /\ breaker[b].until # "over"

Blocked == \E b \in Breakers : Blocks(b)

Running == {r \in Runs : run[r] = "running"}

\* acquire_expired_probes: each breaker whose pause is over goes on probe, and
\* the run that is admitted is the probe of all of them.
Probed(row) ==
    IF row.status = "open" THEN [row EXCEPT !.status = "half_open", !.until = "none"] ELSE row

\* The breakers' part of admit_one.
Admit(r) ==
    /\ run[r] = "queued" /\ Cardinality(Running) < MaxRunning
    /\ ~Blocked
    /\ breaker' = [b \in Breakers |-> Probed(breaker[b])]
    /\ run' = [run EXCEPT ![r] = "running"]
    /\ probes' = [b \in Breakers |->
                     IF breaker[b].status = "closed" THEN 0
                     ELSE IF breaker[b].status = "open" THEN 1 ELSE probes[b] + 1]

-----------------------------------------------------------------------------
(* The end of a run *)

Files == UNION {[1 .. n -> Samples] : n \in 0 .. MaxSamples}

\* After the runner's file, finalization adds what the outcome says of the
\* gateway: that it works, that it was overloaded or away, or nothing.
Verdicts == {<<>>, <<Healthy(Gateway)>>} \cup {<<s>> : s \in Failures(Gateway, {FALSE})}

Reports(samples, b) == \E i \in DOMAIN samples : samples[i].breaker = b

Finalize(r) ==
    /\ run[r] = "running"
    /\ \E file \in Files, verdict \in Verdicts :
          /\ Silence \/ \A b \in Breakers :
                 breaker[b].status = "half_open" => Reports(file \o verdict, b)
          /\ Record(file \o verdict)
    /\ run' = [run EXCEPT ![r] = "absent"]
    /\ UNCHANGED probes

-----------------------------------------------------------------------------

Submit(r) ==
    /\ run[r] = "absent"
    /\ run' = [run EXCEPT ![r] = "queued"]
    /\ UNCHANGED <<breaker, probes>>

PausePasses(b) ==
    /\ breaker[b].until = "ahead"
    /\ breaker' = [breaker EXCEPT ![b].until = "over"]
    /\ UNCHANGED <<run, probes>>

Next ==
    \/ \E r \in Runs : Submit(r) \/ Admit(r) \/ Finalize(r)
    \/ \E b \in Breakers : PausePasses(b)
    \/ GatewayFails

Spec == Init /\ [][Next]_vars

\* Runs are submitted, admitted and end, and time passes.
FairSpec ==
    /\ Spec
    /\ \A r \in Runs : WF_vars(Submit(r)) /\ WF_vars(Admit(r)) /\ WF_vars(Finalize(r))
    /\ \A b \in Breakers : WF_vars(PausePasses(b))

-----------------------------------------------------------------------------
(* Properties *)

\* However samples of many runs mix, old ones and new ones: a closed breaker
\* has forgotten its escalation, its next pause is the short one.
ClosedForgets ==
    \A b \in Breakers : breaker[b].status = "closed" => breaker[b].backoff = InitialBackoff

\* tests/integration/test_circuit_breakers.py: half-open allows one probe.
ProbeIsAlone ==
    \A b \in Breakers : breaker[b].status = "half_open" => probes[b] = 1

\* Admission is paused for a time only: assessments/contracts.py:52 and
\* docs/superpowers/plans/2026-07-29-user-management.md:582 call the reason
\* "temporarily_paused".  It is so if every run that ends has something to say
\* of what is on probe (Silence = FALSE), and not otherwise.
PauseIsTemporary == Blocked ~> ~Blocked
=============================================================================
