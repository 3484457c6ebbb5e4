--------------------------- MODULE WebhookDelivery ---------------------------
(***************************************************************************)
(* Deliveries of run events to the webhooks administrators register, one   *)
(* row per webhook and event.  A worker returns expired claims, enqueues   *)
(* what is missing, claims one row, posts it with no transaction open, and *)
(* stores the answer in a later transaction.  A session.begin() block is   *)
(* one action; several workers may run.                                    *)
(***************************************************************************)
EXTENDS Naturals, FiniteSets

CONSTANTS
    Webhooks,
    RunEvents,       \* of a type the webhooks subscribe to
    Senders,         \* delivery workers
    MaxAttempts,     \* _MAX_ATTEMPTS
    MaxLapses        \* bound: claims of a row that run out

VARIABLES
    webhook,    \* rows of webhooks
    recorded,   \* the rows of run_events
    delivery,   \* rows of webhook_deliveries
    sender,     \* what each worker is doing
    accepted,   \* history: the attempts an endpoint answered with 2xx
    lapses      \* history: how many claims of a row ran out

vars == <<webhook, recorded, delivery, sender, accepted, lapses>>

Deliveries == Webhooks \X RunEvents

\* at: next_attempt_at, the time of the next attempt or the end of the claim,
\* is null, ahead or over.
Delivery ==
    [status : {"absent", "pending", "delivering", "delivered", "failed"},
     attempt : 0 .. MaxAttempts + MaxLapses, at : {"null", "ahead", "over"}]

Sending == [pc : {"idle", "enqueue", "claim"}]
           \cup [pc : {"post"}, on : Deliveries, attempt : Nat]
           \cup [pc : {"complete"}, on : Deliveries, attempt : Nat, answer : Delivery]

TypeOK ==
    /\ webhook \in [Webhooks -> {"absent", "active", "disabled"}]
    /\ recorded \subseteq RunEvents
    /\ delivery \in [Deliveries -> Delivery]
    /\ sender \in [Senders -> Sending]
    /\ \A d \in Deliveries : delivery[d].status = "delivering" => delivery[d].at # "null"

Init ==
    /\ webhook = [h \in Webhooks |-> "absent"]
    /\ recorded = {}
    /\ delivery = [d \in Deliveries |-> [status |-> "absent", attempt |-> 0, at |-> "null"]]
    /\ sender = [w \in Senders |-> [pc |-> "idle"]]
    /\ accepted = [d \in Deliveries |-> {}]
    /\ lapses = [d \in Deliveries |-> 0]

Does(w, work) == sender' = [sender EXCEPT ![w] = work]

-----------------------------------------------------------------------------
(* The API and the runs *)

\* The endpoint is validated before and after: at registration, where a bad one
\* is refused, and at every delivery.
CreateWebhook(h) ==
    /\ webhook[h] = "absent"
    /\ webhook' = [webhook EXCEPT ![h] = "active"]
    /\ UNCHANGED <<recorded, delivery, sender, accepted, lapses>>

Deactivate(h) ==
    /\ webhook[h] = "active"
    /\ webhook' = [webhook EXCEPT ![h] = "disabled"]
    /\ UNCHANGED <<recorded, delivery, sender, accepted, lapses>>

RunEventRecorded(e) ==
    /\ e \notin recorded
    /\ recorded' = recorded \cup {e}
    /\ UNCHANGED <<webhook, delivery, sender, accepted, lapses>>

-----------------------------------------------------------------------------
(* run_once *)

RecoverUnlessLast(w) ==
    /\ sender[w].pc = "idle"
    /\ delivery' = [d \in Deliveries |->
           IF /\ delivery[d].status = "delivering" /\ delivery[d].at = "over"
              /\ delivery[d].attempt < MaxAttempts
           THEN [delivery[d] EXCEPT !.status = "pending"] ELSE delivery[d]]
    /\ Does(w, [pc |-> "enqueue"])
    /\ UNCHANGED <<webhook, recorded, accepted, lapses>>

RecoverExpiredClaims(w) ==
    /\ sender[w].pc = "idle"
    /\ LET over == {d \in Deliveries :
                        delivery[d].status = "delivering" /\ delivery[d].at = "over"} IN
       delivery' = [d \in Deliveries |->
                        IF d \in over THEN [delivery[d] EXCEPT !.status = "pending"]
                        ELSE delivery[d]]
    /\ Does(w, [pc |-> "enqueue"])
    /\ UNCHANGED <<webhook, recorded, accepted, lapses>>

\* The unique index on webhook and event makes the insert of a row that exists
\* do nothing.
EnqueueMissing(w) ==
    /\ sender[w].pc = "enqueue"
    /\ delivery' = [d \in Deliveries |->
           IF webhook[d[1]] = "active" /\ d[2] \in recorded /\ delivery[d].status = "absent"
           THEN [delivery[d] EXCEPT !.status = "pending"] ELSE delivery[d]]
    /\ Does(w, [pc |-> "claim"])
    /\ UNCHANGED <<webhook, recorded, accepted, lapses>>

Deliverable(d) ==
    delivery[d].status = "pending" /\ delivery[d].at # "ahead" /\ webhook[d[1]] = "active"

\* webhook_claim_statement: rows without a time come first.
ClaimDelivery(w) ==
    /\ sender[w].pc = "claim"
    /\ \E d \in {x \in Deliveries : Deliverable(x)} :
          /\ delivery[d].at = "over" =>
                 \A x \in Deliveries : Deliverable(x) => delivery[x].at = "over"
          /\ delivery' = [delivery EXCEPT ![d] =
                 [status |-> "delivering", attempt |-> @.attempt + 1, at |-> "ahead"]]
          /\ Does(w, [pc |-> "post", on |-> d, attempt |-> delivery[d].attempt + 1])
    /\ UNCHANGED <<webhook, recorded, accepted, lapses>>

FindsNothingDue(w) ==
    /\ sender[w].pc = "claim"
    /\ ~\E d \in Deliveries : Deliverable(d)
    /\ Does(w, [pc |-> "idle"])
    /\ UNCHANGED <<webhook, recorded, delivery, accepted, lapses>>

RetriedOnceMore(attempt) == attempt <= MaxAttempts

\* next_retry_at
Retried(attempt) == attempt < MaxAttempts

Answered(w, answer) ==
    Does(w, [pc |-> "complete", on |-> sender[w].on, attempt |-> sender[w].attempt,
             answer |-> [answer EXCEPT !.attempt = sender[w].attempt]])

\* deliver_webhook, and the secret that cannot be decrypted.  The retry time is
\* counted from the start of run_once and may be over when it is stored.
Post(w) ==
    /\ sender[w].pc = "post"
    /\ LET d == sender[w].on
           n == sender[w].attempt
           Answer(status, at) == Answered(w, [status |-> status, attempt |-> n, at |-> at])
       IN
       \/ /\ Answer("delivered", "null")
          /\ accepted' = [accepted EXCEPT ![d] = @ \cup {n}]
       \/ /\ \/ Answer("failed", "null")
             \/ Retried(n) /\ \E at \in {"ahead", "over"} : Answer("pending", at)
          /\ UNCHANGED accepted
    /\ UNCHANGED <<webhook, recorded, delivery, lapses>>

StoredFor(w) == delivery[sender[w].on]

CompleteAnyAttempt(w) ==
    /\ sender[w].pc = "complete"
    /\ LET row == StoredFor(w) IN
       delivery' = [delivery EXCEPT ![sender[w].on] =
           IF row.status = "delivering"
           THEN [sender[w].answer EXCEPT !.attempt = row.attempt] ELSE row]
    /\ Does(w, [pc |-> "idle"])
    /\ UNCHANGED <<webhook, recorded, accepted, lapses>>

\* complete: a claim that ran out while the endpoint answered was returned, and
\* perhaps claimed again; its answer is dropped.
Complete(w) ==
    /\ sender[w].pc = "complete"
    /\ LET row == StoredFor(w) IN
       delivery' = [delivery EXCEPT ![sender[w].on] =
           IF row.status = "delivering" /\ row.attempt = sender[w].attempt
           THEN sender[w].answer ELSE row]
    /\ Does(w, [pc |-> "idle"])
    /\ UNCHANGED <<webhook, recorded, accepted, lapses>>

-----------------------------------------------------------------------------
(* Time and crashes *)

\* The process dies, or an exception leaves run_once.
SenderDies(w) ==
    /\ sender[w].pc # "idle"
    /\ sender[w].pc \in {"post", "complete"} => lapses[sender[w].on] < MaxLapses
    /\ Does(w, [pc |-> "idle"])
    /\ UNCHANGED <<webhook, recorded, delivery, accepted, lapses>>

ClaimRunsOut(d) ==
    /\ delivery[d].status = "delivering" /\ delivery[d].at = "ahead"
    /\ lapses[d] < MaxLapses
    /\ delivery' = [delivery EXCEPT ![d].at = "over"]
    /\ lapses' = [lapses EXCEPT ![d] = @ + 1]
    /\ UNCHANGED <<webhook, recorded, sender, accepted>>

RetryTimeComes(d) ==
    /\ delivery[d].status = "pending" /\ delivery[d].at = "ahead"
    /\ delivery' = [delivery EXCEPT ![d].at = "over"]
    /\ UNCHANGED <<webhook, recorded, sender, accepted, lapses>>

-----------------------------------------------------------------------------

SendOnce(w) ==
    \/ RecoverExpiredClaims(w) \/ EnqueueMissing(w) \/ ClaimDelivery(w)
    \/ FindsNothingDue(w) \/ Post(w) \/ Complete(w)

Next ==
    \/ \E h \in Webhooks : CreateWebhook(h) \/ Deactivate(h)
    \/ \E e \in RunEvents : RunEventRecorded(e)
    \/ \E w \in Senders : SendOnce(w) \/ SenderDies(w)
    \/ \E d \in Deliveries : ClaimRunsOut(d) \/ RetryTimeComes(d)

Spec == Init /\ [][Next]_vars

-----------------------------------------------------------------------------
(* Properties *)

\* A row counts as delivered because the endpoint accepted its latest attempt,
\* not an earlier one whose claim ran out.
DeliveredIsAccepted ==
    \A d \in Deliveries :
        delivery[d].status = "delivered" => delivery[d].attempt \in accepted[d]

\* No endpoint is posted an event more than _MAX_ATTEMPTS times, but for the
\* attempts nobody stored the end of.
AttemptsAreLimited ==
    \A d \in Deliveries : delivery[d].attempt <= MaxAttempts + lapses[d]

\* An attempt is one worker's.
OneSenderPerAttempt ==
    \A v, w \in Senders :
        /\ sender[v].pc \in {"post", "complete"} /\ sender[w].pc \in {"post", "complete"}
        /\ sender[v].on = sender[w].on /\ sender[v].attempt = sender[w].attempt
        => v = w

Settled(d) == delivery[d].status \in {"delivered", "failed"}

\* Every event an active webhook asks for is delivered or given up in the end,
\* also the events from before it was registered, and whatever died on the way.
EventIsSettled ==
    \A d \in Deliveries :
        webhook[d[1]] = "active" /\ d[2] \in recorded ~> Settled(d) \/ webhook[d[1]] = "disabled"
=============================================================================
