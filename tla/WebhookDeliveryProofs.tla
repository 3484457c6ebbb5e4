------------------------ MODULE WebhookDeliveryProofs ------------------------
(***************************************************************************)
(* Theorems about the delivery of webhooks, for any number of webhooks,    *)
(* events and workers, and any bound on attempts.                          *)
(***************************************************************************)
EXTENDS WebhookDelivery, TLAPS

Row == [status : {"absent", "pending", "delivering", "delivered", "failed"},
        attempt : Nat, at : {"null", "ahead", "over"}]

\* A worker has a claim, and perhaps the answer to it.
Out(w) == sender[w].pc \in {"post", "complete"}
HasAnswer(w) == sender[w].pc = "complete"

Shape ==
    /\ delivery \in [Deliveries -> Row]
    /\ lapses \in [Deliveries -> Nat]
    /\ accepted \in [Deliveries -> SUBSET Nat]
    /\ DOMAIN sender = Senders
    /\ \A w \in Senders :
          /\ Out(w) => sender[w].on \in Deliveries /\ sender[w].attempt \in Nat
          /\ HasAnswer(w) => sender[w].answer \in Row

\* An answer is that of the worker's own attempt: it says delivered because the
\* endpoint accepted the attempt, and asks for another one below the limit only.
AnswersAreTrue ==
    \A w \in Senders : HasAnswer(w) =>
        /\ sender[w].answer.attempt = sender[w].attempt
        /\ sender[w].answer.status = "delivered" =>
              sender[w].attempt \in accepted[sender[w].on]
        /\ sender[w].answer.status \in {"absent", "pending"} \/ sender[w].answer.at = "over" =>
              sender[w].attempt < MaxAttempts

\* Attempts are numbered as they are claimed.
ClaimsAreCounted ==
    \A w \in Senders : Out(w) => sender[w].attempt <= delivery[sender[w].on].attempt

\* A row that may be claimed again has an attempt left, one that lapsed included.
OneAttemptLeft ==
    \A d \in Deliveries :
        /\ delivery[d].status \in {"absent", "pending"} \/ delivery[d].at = "over" =>
              delivery[d].attempt < MaxAttempts + lapses[d]
        /\ delivery[d].attempt <= MaxAttempts + lapses[d]

IInv ==
    /\ Shape /\ AnswersAreTrue /\ ClaimsAreCounted /\ OneAttemptLeft
    /\ DeliveredIsAccepted /\ OneSenderPerAttempt

LEMMA InitInv == ASSUME MaxAttempts \in Nat \ {0}, Init PROVE IInv
BY DEF Init, IInv, Shape, AnswersAreTrue, ClaimsAreCounted, OneAttemptLeft,
       DeliveredIsAccepted, OneSenderPerAttempt, Row, Out, HasAnswer

-----------------------------------------------------------------------------
(* Steps that give no worker a claim or an answer *)

Quiet ==
    /\ DOMAIN sender' = Senders
    /\ \A w \in Senders : sender'[w] = sender[w] \/ sender'[w].pc \notin {"post", "complete"}
    /\ accepted' = accepted
    /\ delivery' \in [Deliveries -> Row]
    /\ \A d \in Deliveries : delivery'[d].attempt = delivery[d].attempt

LEMMA QuietSenders ==
    ASSUME IInv, Quiet, lapses' \in [Deliveries -> Nat]
    PROVE  Shape' /\ AnswersAreTrue' /\ ClaimsAreCounted' /\ OneSenderPerAttempt'
<1>1. Shape'
  BY DEF IInv, Shape, Quiet, Out, HasAnswer
<1>2. AnswersAreTrue'
  BY DEF IInv, Shape, AnswersAreTrue, Quiet, Out, HasAnswer
<1>3. ClaimsAreCounted'
  BY DEF IInv, Shape, ClaimsAreCounted, Quiet, Out
<1>4. OneSenderPerAttempt'
  BY DEF IInv, OneSenderPerAttempt, Quiet
<1> QED
  BY <1>1, <1>2, <1>3, <1>4

\* ... and that leave a row as it is, or let its time run, or return it.
LEMMA QuietRows ==
    ASSUME MaxAttempts \in Nat \ {0}, IInv, Quiet, lapses' = lapses,
           \A d \in Deliveries :
               \/ delivery'[d] = delivery[d]
               \/ /\ delivery[d].status \in {"absent", "pending"} \/ delivery[d].at = "over"
                  /\ delivery'[d].status # "delivered"
    PROVE  IInv'
<1>1. lapses' \in [Deliveries -> Nat]
  BY DEF IInv, Shape
<1>2. OneAttemptLeft'
  BY <1>1 DEF IInv, Shape, Row, OneAttemptLeft, Quiet
<1>3. DeliveredIsAccepted'
  BY DEF IInv, DeliveredIsAccepted, Quiet
<1> QED
  BY <1>1, <1>2, <1>3, QuietSenders DEF IInv

\* Steps of the administrators and the runs see no row and no worker.
LEMMA ElsewhereInv ==
    ASSUME MaxAttempts \in Nat \ {0}, IInv, UNCHANGED <<delivery, sender, accepted, lapses>>
    PROVE  IInv'
<1>1. Quiet
  BY DEF IInv, Shape, Quiet
<1> QED
  BY <1>1, QuietRows

LEMMA WorkerRests ==
    ASSUME IInv, NEW w \in Senders, NEW pc \in {"idle", "enqueue", "claim"},
           Does(w, [pc |-> pc])
    PROVE  /\ DOMAIN sender' = Senders
           /\ \A v \in Senders : sender'[v] = sender[v] \/ sender'[v].pc \notin {"post", "complete"}
<1>1. DOMAIN sender' = Senders /\ sender'[w].pc = pc
  BY DEF IInv, Shape, Does
<1>2. \A v \in Senders : v # w => sender'[v] = sender[v]
  BY DEF IInv, Shape, Does
<1> QED
  BY <1>1, <1>2

LEMMA RecoverInv ==
    ASSUME MaxAttempts \in Nat \ {0}, IInv, NEW w \in Senders, RecoverExpiredClaims(w)
    PROVE  IInv'
<1>1. Does(w, [pc |-> "enqueue"]) /\ accepted' = accepted /\ lapses' = lapses
  BY DEF RecoverExpiredClaims
<1>2. /\ delivery' \in [Deliveries -> Row]
      /\ \A d \in Deliveries :
            /\ delivery'[d].attempt = delivery[d].attempt
            /\ \/ delivery'[d] = delivery[d]
               \/ delivery[d].at = "over" /\ delivery'[d].status = "pending"
  BY DEF RecoverExpiredClaims, IInv, Shape, Row
<1>3. Quiet
  BY <1>1, <1>2, WorkerRests DEF Quiet
<1> QED
  BY <1>1, <1>2, <1>3, QuietRows

LEMMA EnqueueInv ==
    ASSUME MaxAttempts \in Nat \ {0}, IInv, NEW w \in Senders, EnqueueMissing(w)
    PROVE  IInv'
<1>1. Does(w, [pc |-> "claim"]) /\ accepted' = accepted /\ lapses' = lapses
  BY DEF EnqueueMissing
<1>2. /\ delivery' \in [Deliveries -> Row]
      /\ \A d \in Deliveries :
            /\ delivery'[d].attempt = delivery[d].attempt
            /\ \/ delivery'[d] = delivery[d]
               \/ delivery[d].status = "absent" /\ delivery'[d].status = "pending"
  BY DEF EnqueueMissing, IInv, Shape, Row
<1>3. Quiet
  BY <1>1, <1>2, WorkerRests DEF Quiet
<1> QED
  BY <1>1, <1>2, <1>3, QuietRows

LEMMA IdleInv ==
    ASSUME MaxAttempts \in Nat \ {0}, IInv, NEW w \in Senders,
           FindsNothingDue(w) \/ SenderDies(w)
    PROVE  IInv'
<1>1. Does(w, [pc |-> "idle"]) /\ UNCHANGED <<delivery, accepted, lapses>>
  BY DEF FindsNothingDue, SenderDies
<1>2. Quiet
  BY <1>1, WorkerRests DEF Quiet, IInv, Shape
<1> QED
  BY <1>1, <1>2, QuietRows

LEMMA RetryTimeInv ==
    ASSUME MaxAttempts \in Nat \ {0}, IInv, NEW d \in Deliveries, RetryTimeComes(d)
    PROVE  IInv'
<1>1. UNCHANGED <<sender, accepted, lapses>>
  BY DEF RetryTimeComes
<1>2. /\ delivery' \in [Deliveries -> Row]
      /\ \A x \in Deliveries :
            /\ delivery'[x].attempt = delivery[x].attempt
            /\ \/ delivery'[x] = delivery[x]
               \/ delivery[x].status = "pending" /\ delivery'[x].status = "pending"
  BY DEF RetryTimeComes, IInv, Shape, Row
<1>3. Quiet
  BY <1>1, <1>2 DEF Quiet, IInv, Shape
<1> QED
  BY <1>1, <1>2, <1>3, QuietRows

\* A claim that runs out buys the row one attempt.
LEMMA LapseInv ==
    ASSUME MaxAttempts \in Nat \ {0}, IInv, NEW d \in Deliveries, ClaimRunsOut(d)
    PROVE  IInv'
<1>1. sender' = sender /\ accepted' = accepted
  BY DEF ClaimRunsOut
<1>2. /\ lapses' \in [Deliveries -> Nat]
      /\ \A x \in Deliveries : lapses'[x] = IF x = d THEN lapses[x] + 1 ELSE lapses[x]
  BY DEF ClaimRunsOut, IInv, Shape
<1>3. /\ delivery' \in [Deliveries -> Row]
      /\ \A x \in Deliveries :
            /\ delivery'[x].attempt = delivery[x].attempt
            /\ delivery'[x].status = delivery[x].status
            /\ x # d => delivery'[x] = delivery[x]
  BY DEF ClaimRunsOut, IInv, Shape, Row
<1>4. Quiet
  BY <1>1, <1>3 DEF Quiet, IInv, Shape
<1>5. OneAttemptLeft'
  BY <1>2, <1>3 DEF IInv, Shape, Row, OneAttemptLeft
<1>6. DeliveredIsAccepted'
  BY <1>1, <1>3 DEF IInv, DeliveredIsAccepted
<1> QED
  BY <1>2, <1>4, <1>5, <1>6, QuietSenders DEF IInv

\* An answer is stored for the attempt it is the answer to.
LEMMA CompleteInv ==
    ASSUME MaxAttempts \in Nat \ {0}, IInv, NEW w \in Senders, Complete(w)
    PROVE  IInv'
<1> DEFINE d == sender[w].on
<1>1. /\ HasAnswer(w) /\ Does(w, [pc |-> "idle"])
      /\ accepted' = accepted /\ lapses' = lapses
  BY DEF Complete, HasAnswer
<1>2. d \in Deliveries /\ sender[w].answer \in Row
  BY <1>1 DEF IInv, Shape, Out, HasAnswer
<1>3. /\ delivery' \in [Deliveries -> Row]
      /\ \A x \in Deliveries : x # d => delivery'[x] = delivery[x]
      /\ \/ delivery'[d] = delivery[d]
         \/ delivery'[d] = sender[w].answer /\ delivery[d].attempt = sender[w].attempt
  BY <1>2 DEF Complete, StoredFor, IInv, Shape
<1>4. sender[w].answer.attempt = sender[w].attempt
  BY <1>1 DEF IInv, AnswersAreTrue
<1>5. Quiet
  BY <1>1, <1>3, <1>4, WorkerRests DEF Quiet
<1>6. OneAttemptLeft'
  BY <1>1, <1>2, <1>3, <1>4 DEF IInv, Shape, Row, OneAttemptLeft, AnswersAreTrue
<1>7. DeliveredIsAccepted'
  BY <1>1, <1>2, <1>3, <1>4 DEF IInv, DeliveredIsAccepted, AnswersAreTrue
<1> QED
  BY <1>1, <1>5, <1>6, <1>7, QuietSenders DEF IInv, Shape

-----------------------------------------------------------------------------
(* The steps that claim a row and that post it *)

LEMMA ClaimInv ==
    ASSUME MaxAttempts \in Nat \ {0}, IInv, NEW w \in Senders, ClaimDelivery(w)
    PROVE  IInv'
<1>1. PICK d \in Deliveries :
         /\ delivery[d].status = "pending"
         /\ delivery' = [delivery EXCEPT ![d] =
                [status |-> "delivering", attempt |-> @.attempt + 1, at |-> "ahead"]]
         /\ Does(w, [pc |-> "post", on |-> d, attempt |-> delivery[d].attempt + 1])
  BY DEF ClaimDelivery, Deliverable
<1>2. accepted' = accepted /\ lapses' = lapses
  BY DEF ClaimDelivery
<1>3. /\ delivery' \in [Deliveries -> Row]
      /\ delivery'[d].status = "delivering" /\ delivery'[d].at = "ahead"
      /\ delivery'[d].attempt = delivery[d].attempt + 1
      /\ delivery[d].attempt \in Nat
      /\ \A x \in Deliveries : x # d => delivery'[x] = delivery[x]
  BY <1>1 DEF IInv, Shape, Row
<1>4. /\ DOMAIN sender' = Senders
      /\ sender'[w].pc = "post" /\ sender'[w].on = d
      /\ sender'[w].attempt = delivery[d].attempt + 1
      /\ \A v \in Senders : v # w => sender'[v] = sender[v]
  BY <1>1 DEF Does, IInv, Shape
<1>5. Shape'
  BY <1>2, <1>3, <1>4 DEF IInv, Shape, Out, HasAnswer
<1>6. AnswersAreTrue'
  BY <1>2, <1>4 DEF IInv, AnswersAreTrue, HasAnswer
<1>7. ClaimsAreCounted'
  BY <1>3, <1>4 DEF IInv, Shape, Row, ClaimsAreCounted, Out
<1>8. OneAttemptLeft'
  BY <1>1, <1>2, <1>3 DEF IInv, Shape, Row, OneAttemptLeft
<1>9. DeliveredIsAccepted'
  BY <1>2, <1>3 DEF IInv, DeliveredIsAccepted
<1>10. OneSenderPerAttempt'
  BY <1>3, <1>4 DEF IInv, Shape, ClaimsAreCounted, OneSenderPerAttempt, Out
<1> QED
  BY <1>5, <1>6, <1>7, <1>8, <1>9, <1>10 DEF IInv

LEMMA PostInv ==
    ASSUME MaxAttempts \in Nat \ {0}, IInv, NEW w \in Senders, Post(w)
    PROVE  IInv'
<1> DEFINE d == sender[w].on
           n == sender[w].attempt
<1>1. Out(w) /\ delivery' = delivery /\ lapses' = lapses
  BY DEF Post, Out
<1>2. d \in Deliveries /\ n \in Nat
  BY <1>1 DEF IInv, Shape
<1>3. PICK answer \in Row :
         /\ Does(w, [pc |-> "complete", on |-> d, attempt |-> n, answer |-> answer])
         /\ answer.attempt = n
         /\ \/ answer.status = "delivered" /\ accepted' = [accepted EXCEPT ![d] = @ \cup {n}]
            \/ answer.status # "delivered" /\ accepted' = accepted
         /\ answer.status \in {"absent", "pending"} \/ answer.at = "over" => n < MaxAttempts
  <2> DEFINE Said(status, at) == [status |-> status, attempt |-> n, at |-> at]
  <2>1. ASSUME NEW status \in {"pending", "delivered", "failed"},
               NEW at \in {"null", "ahead", "over"}
        PROVE  /\ Said(status, at) \in Row
               /\ Answered(w, Said(status, at)) =>
                    Does(w, [pc |-> "complete", on |-> d, attempt |-> n,
                             answer |-> Said(status, at)])
    BY <1>2 DEF Row, Answered
  <2>2. \/ /\ Answered(w, Said("delivered", "null"))
           /\ accepted' = [accepted EXCEPT ![d] = @ \cup {n}]
        \/ Answered(w, Said("failed", "null")) /\ accepted' = accepted
        \/ /\ n < MaxAttempts /\ accepted' = accepted
           /\ \E at \in {"ahead", "over"} : Answered(w, Said("pending", at))
    BY DEF Post, Retried
  <2>3. CASE /\ Answered(w, Said("delivered", "null"))
             /\ accepted' = [accepted EXCEPT ![d] = @ \cup {n}]
    BY <2>1, <2>3
  <2>4. CASE Answered(w, Said("failed", "null")) /\ accepted' = accepted
    BY <2>1, <2>4
  <2>5. CASE /\ n < MaxAttempts /\ accepted' = accepted
             /\ \E at \in {"ahead", "over"} : Answered(w, Said("pending", at))
    BY <2>1, <2>5
  <2> QED
    BY <2>2, <2>3, <2>4, <2>5
<1> HIDE DEF d, n
<1>4. /\ DOMAIN sender' = Senders
      /\ sender'[w].pc = "complete" /\ sender'[w].on = d /\ sender'[w].attempt = n
      /\ sender'[w].answer = answer
      /\ \A v \in Senders : v # w => sender'[v] = sender[v]
  BY <1>3 DEF Does, IInv, Shape
<1>5. /\ accepted' \in [Deliveries -> SUBSET Nat]
      /\ \A x \in Deliveries : accepted[x] \subseteq accepted'[x]
      /\ answer.status = "delivered" => n \in accepted'[d]
  BY <1>2, <1>3 DEF IInv, Shape
<1>6. Shape'
  BY <1>1, <1>2, <1>4, <1>5 DEF IInv, Shape, Out, HasAnswer
<1>7. AnswersAreTrue'
  BY <1>3, <1>4, <1>5 DEF IInv, Shape, AnswersAreTrue, Out, HasAnswer
<1>8. ClaimsAreCounted'
  BY <1>1, <1>4 DEF IInv, ClaimsAreCounted, Out, d, n
<1>9. OneAttemptLeft'
  BY <1>1 DEF IInv, OneAttemptLeft
<1>10. DeliveredIsAccepted'
  BY <1>1, <1>5 DEF IInv, DeliveredIsAccepted
<1>11. OneSenderPerAttempt'
  BY <1>1, <1>4 DEF IInv, OneSenderPerAttempt, Out, d, n
<1> QED
  BY <1>6, <1>7, <1>8, <1>9, <1>10, <1>11 DEF IInv

-----------------------------------------------------------------------------
(* Theorems *)

LEMMA NextInv == ASSUME MaxAttempts \in Nat \ {0}, IInv, [Next]_vars PROVE IInv'
<1>1. CASE UNCHANGED vars
  BY <1>1, ElsewhereInv DEF vars
<1>2. ASSUME NEW h \in Webhooks, CreateWebhook(h) \/ Deactivate(h) PROVE IInv'
  BY <1>2, ElsewhereInv DEF CreateWebhook, Deactivate
<1>3. ASSUME NEW e \in RunEvents, RunEventRecorded(e) PROVE IInv'
  BY <1>3, ElsewhereInv DEF RunEventRecorded
<1>4. ASSUME NEW w \in Senders, SendOnce(w) \/ SenderDies(w) PROVE IInv'
  BY <1>4, RecoverInv, EnqueueInv, ClaimInv, IdleInv, PostInv, CompleteInv DEF SendOnce
<1>5. ASSUME NEW d \in Deliveries, ClaimRunsOut(d) \/ RetryTimeComes(d) PROVE IInv'
  BY <1>5, LapseInv, RetryTimeInv
<1> QED
  BY <1>1, <1>2, <1>3, <1>4, <1>5 DEF Next

\* What complete stores is the answer to the attempt the row is at, whatever
\* claims ran out and whichever workers answered in the meantime.
THEOREM Delivered ==
    ASSUME MaxAttempts \in Nat \ {0} PROVE Spec => []DeliveredIsAccepted
<1>1. IInv => DeliveredIsAccepted
  BY DEF IInv
<1> QED
  BY <1>1, InitInv, NextInv, PTL DEF Spec

\* An event is claimed _MAX_ATTEMPTS times, and once more for every claim nobody
\* stored the end of.
THEOREM Limits ==
    ASSUME MaxAttempts \in Nat \ {0} PROVE Spec => []AttemptsAreLimited
<1>1. IInv => AttemptsAreLimited
  BY DEF IInv, OneAttemptLeft, AttemptsAreLimited
<1> QED
  BY <1>1, InitInv, NextInv, PTL DEF Spec

\* No attempt is posted by two workers: the second one to claim the row counts up.
THEOREM OneSender ==
    ASSUME MaxAttempts \in Nat \ {0} PROVE Spec => []OneSenderPerAttempt
<1>1. IInv => OneSenderPerAttempt
  BY DEF IInv
<1> QED
  BY <1>1, InitInv, NextInv, PTL DEF Spec

-----------------------------------------------------------------------------
(* The types of the module: the numbers of attempts stay below the bounds *)

Types ==
    /\ webhook \in [Webhooks -> {"absent", "active", "disabled"}]
    /\ recorded \subseteq RunEvents
    /\ sender \in [Senders -> Sending]
    /\ \A d \in Deliveries :
          /\ delivery[d].status = "delivering" => delivery[d].at # "null"
          /\ lapses[d] <= MaxLapses
    /\ \A w \in Senders : HasAnswer(w) => sender[w].answer.status # "delivering"

TInv == IInv /\ Types

NumbersAssumption == MaxAttempts \in Nat \ {0} /\ MaxLapses \in Nat

LEMMA AttemptsAre ==
    ASSUME NumbersAssumption, TInv, NEW n \in Nat,
           NEW d \in Deliveries, n <= delivery[d].attempt
    PROVE  n \in 0 .. MaxAttempts + MaxLapses
<1>1. /\ delivery[d].attempt \in Nat /\ delivery[d].attempt <= MaxAttempts + lapses[d]
      /\ lapses[d] \in Nat /\ lapses[d] <= MaxLapses
  BY DEF TInv, IInv, Types, Shape, Row, OneAttemptLeft
<1> QED
  BY <1>1 DEF NumbersAssumption

LEMMA TypesAre == NumbersAssumption /\ TInv => TypeOK
<1> SUFFICES ASSUME NumbersAssumption, TInv PROVE TypeOK
  OBVIOUS
<1>1. ASSUME NEW d \in Deliveries PROVE delivery[d] \in Delivery
  <2>1. delivery[d] \in Row /\ delivery[d].attempt \in Nat
    BY DEF TInv, IInv, Shape, Row
  <2>2. delivery[d].attempt \in 0 .. MaxAttempts + MaxLapses
    BY <2>1, AttemptsAre
  <2> QED
    BY <2>1, <2>2 DEF Row, Delivery
<1>2. delivery \in [Deliveries -> Delivery]
  BY <1>1 DEF TInv, IInv, Shape
<1> QED
  BY <1>2 DEF TInv, Types, TypeOK

LEMMA SendingIs ==
    ASSUME NEW w \in Senders, NEW work \in Sending, sender \in [Senders -> Sending],
           Does(w, work)
    PROVE  /\ sender' \in [Senders -> Sending] /\ sender'[w] = work
           /\ \A v \in Senders : v # w => sender'[v] = sender[v]
BY DEF Does

LEMMA RestingIs == \A pc \in {"idle", "enqueue", "claim"} : [pc |-> pc] \in Sending
BY DEF Sending

LEMMA TypeSteps == ASSUME NumbersAssumption, TInv, [Next]_vars PROVE Types'
<1> USE DEF TInv, Types
<1>1. CASE UNCHANGED vars
  BY <1>1 DEF vars, HasAnswer
<1>2. ASSUME NEW h \in Webhooks, CreateWebhook(h) \/ Deactivate(h) PROVE Types'
  BY <1>2 DEF CreateWebhook, Deactivate, HasAnswer
<1>3. ASSUME NEW e \in RunEvents, RunEventRecorded(e) PROVE Types'
  BY <1>3 DEF RunEventRecorded, HasAnswer
<1>4. ASSUME NEW w \in Senders, NEW pc \in {"idle", "enqueue", "claim"}, Does(w, [pc |-> pc]),
             UNCHANGED <<webhook, recorded, lapses>>,
             \A d \in Deliveries : delivery'[d].status = "delivering" => delivery'[d].at # "null"
      PROVE  Types'
  <2>1. /\ sender' \in [Senders -> Sending] /\ sender'[w] = [pc |-> pc]
        /\ \A v \in Senders : v # w => sender'[v] = sender[v]
    BY <1>4, SendingIs, RestingIs
  <2>2. \A v \in Senders : HasAnswer(v)' => HasAnswer(v) /\ sender'[v] = sender[v]
    BY <2>1 DEF HasAnswer
  <2> QED
    BY <1>4, <2>1, <2>2
<1>5. ASSUME NEW w \in Senders, RecoverExpiredClaims(w) PROVE Types'
  <2>1. \A d \in Deliveries : delivery'[d].status = "delivering" => delivery'[d].at # "null"
    BY <1>5 DEF RecoverExpiredClaims, IInv, Shape, Row
  <2> QED
    BY <1>4, <1>5, <2>1 DEF RecoverExpiredClaims
<1>6. ASSUME NEW w \in Senders, EnqueueMissing(w) PROVE Types'
  <2>1. \A d \in Deliveries : delivery'[d].status = "delivering" => delivery'[d].at # "null"
    BY <1>6 DEF EnqueueMissing, IInv, Shape, Row
  <2> QED
    BY <1>4, <1>6, <2>1 DEF EnqueueMissing
<1>7. ASSUME NEW w \in Senders, FindsNothingDue(w) \/ SenderDies(w) PROVE Types'
  BY <1>4, <1>7 DEF FindsNothingDue, SenderDies
<1>8. ASSUME NEW w \in Senders, Complete(w) PROVE Types'
  <2>1. HasAnswer(w) /\ sender[w].on \in Deliveries /\ sender[w].answer \in Delivery
    BY <1>8 DEF Complete, HasAnswer, Sending
  <2>2. sender[w].answer.status # "delivering"
    BY <2>1
  <2>3. \A d \in Deliveries : delivery'[d] = delivery[d] \/ delivery'[d] = sender[w].answer
    BY <1>8, <2>1 DEF Complete, StoredFor, IInv, Shape
  <2>4. \A d \in Deliveries : delivery'[d].status = "delivering" => delivery'[d].at # "null"
    BY <2>2, <2>3
  <2> QED
    BY <1>4, <1>8, <2>4 DEF Complete
<1>9. ASSUME NEW w \in Senders, ClaimDelivery(w) PROVE Types'
  <2>1. PICK d \in Deliveries :
           /\ delivery' = [delivery EXCEPT ![d] =
                  [status |-> "delivering", attempt |-> @.attempt + 1, at |-> "ahead"]]
           /\ Does(w, [pc |-> "post", on |-> d, attempt |-> delivery[d].attempt + 1])
    BY <1>9 DEF ClaimDelivery
  <2>2. delivery[d].attempt \in Nat
    BY DEF IInv, Shape, Row
  <2>3. [pc |-> "post", on |-> d, attempt |-> delivery[d].attempt + 1] \in Sending
    BY <2>2 DEF Sending
  <2>4. /\ sender' \in [Senders -> Sending] /\ sender'[w].pc = "post"
        /\ \A v \in Senders : v # w => sender'[v] = sender[v]
    BY <2>1, <2>3, SendingIs
  <2>5. \A x \in Deliveries : delivery'[x].status = "delivering" => delivery'[x].at # "null"
    BY <2>1 DEF IInv, Shape
  <2>6. \A v \in Senders : HasAnswer(v)' => HasAnswer(v) /\ sender'[v] = sender[v]
    BY <2>4 DEF HasAnswer
  <2> QED
    BY <1>9, <2>4, <2>5, <2>6 DEF ClaimDelivery
<1>10. ASSUME NEW w \in Senders, Post(w) PROVE Types'
  <2> DEFINE d == sender[w].on
             n == sender[w].attempt
             Said(status, at) == [status |-> status, attempt |-> n, at |-> at]
  <2>1. sender[w].pc = "post" /\ d \in Deliveries /\ n \in Nat /\ n <= delivery[d].attempt
    BY <1>10 DEF Post, IInv, Shape, Out, ClaimsAreCounted
  <2>2. n \in 0 .. MaxAttempts + MaxLapses
    BY <2>1, AttemptsAre
  <2>3. PICK status \in {"pending", "delivered", "failed"}, at \in {"null", "ahead", "over"} :
           Answered(w, Said(status, at))
    BY <1>10 DEF Post
  <2> HIDE DEF d, n
  <2>4. Said(status, at) \in Delivery /\ [Said(status, at) EXCEPT !.attempt = n] = Said(status, at)
    BY <2>2 DEF Delivery
  <2> HIDE DEF Said
  <2>5. Does(w, [pc |-> "complete", on |-> d, attempt |-> n, answer |-> Said(status, at)])
    BY <2>3, <2>4 DEF Answered, d, n
  <2>6. [pc |-> "complete", on |-> d, attempt |-> n, answer |-> Said(status, at)] \in Sending
    BY <2>1, <2>4 DEF Sending
  <2>7. Said(status, at).status # "delivering"
    BY DEF Said
  <2>8. /\ sender' \in [Senders -> Sending] /\ sender'[w].answer = Said(status, at)
        /\ \A v \in Senders : v # w => sender'[v] = sender[v]
    BY <2>5, <2>6, SendingIs
  <2>9. \A v \in Senders : HasAnswer(v)' => sender'[v].answer.status # "delivering"
    BY <2>7, <2>8 DEF HasAnswer
  <2> QED
    BY <1>10, <2>8, <2>9 DEF Post
<1>11. ASSUME NEW d \in Deliveries, ClaimRunsOut(d) PROVE Types'
  <2>1. \A x \in Deliveries : delivery'[x].status = "delivering" => delivery'[x].at # "null"
    BY <1>11 DEF ClaimRunsOut, IInv, Shape, Row
  <2>2. \A x \in Deliveries : lapses'[x] <= MaxLapses
    BY <1>11 DEF ClaimRunsOut, IInv, Shape, NumbersAssumption
  <2> QED
    BY <1>11, <2>1, <2>2 DEF ClaimRunsOut, HasAnswer
<1>12. ASSUME NEW d \in Deliveries, RetryTimeComes(d) PROVE Types'
  <2>1. \A x \in Deliveries : delivery'[x].status = "delivering" => delivery'[x].at # "null"
    BY <1>12 DEF RetryTimeComes, IInv, Shape, Row
  <2> QED
    BY <1>12, <2>1 DEF RetryTimeComes, HasAnswer
<1> QED
  BY <1>1, <1>2, <1>3, <1>5, <1>6, <1>7, <1>8, <1>9, <1>10, <1>11, <1>12 DEF Next, SendOnce

LEMMA TypedInit == ASSUME NumbersAssumption, Init PROVE TInv
BY InitInv DEF NumbersAssumption, Init, TInv, Types, Sending, HasAnswer

LEMMA TypedStep == ASSUME NumbersAssumption, TInv, [Next]_vars PROVE TInv'
BY NextInv, TypeSteps DEF NumbersAssumption, TInv

\* A delivery that is out has an end of its claim, so that it can be returned.
THEOREM Typing == ASSUME NumbersAssumption PROVE Spec => []TypeOK
<1>1. TInv => TypeOK
  BY TypesAre
<1> QED
  BY <1>1, TypedInit, TypedStep, PTL DEF Spec
=============================================================================
