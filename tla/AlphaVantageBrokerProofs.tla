----------------------- MODULE AlphaVantageBrokerProofs -----------------------
(***************************************************************************)
(* Theorems about the broker of Alpha Vantage requests, for any number of  *)
(* calls, keys, requests in flight and attempts.                           *)
(***************************************************************************)
EXTENDS AlphaVantageBroker, SequenceTheorems, FiniteSetTheorems, TLAPS

\* A lease is out for the fetches that hold one, and for no other.
LeaseIsHeld == \A t \in Callers : fetch[t].phase = "leased" <=> fetch[t].lease # "none"

Books ==
    /\ inFlight = Cardinality(Leased)
    /\ probing => Probes # {}

\* A fetch that waits for a lease is in the queue once, and the queue holds no other.
QueueWaits ==
    /\ \A i \in 1 .. Len(queue) : fetch[queue[i]].phase = "queued"
    /\ \A i, j \in 1 .. Len(queue) : queue[i] = queue[j] => i = j

Active(t) == fetch[t].phase # "none" /\ ~Ended(t)

\* A fetch is on record under its key while it goes on, and as long as it is on
\* record the call that created it has not resumed.
FetchOnRecord ==
    /\ \A t \in Callers : Active(t) => KeyOf(t) \in Keys /\ pending[KeyOf(t)] = t
    /\ \A k \in Keys : pending[k] # None =>
          /\ caller[pending[k]].phase = "joined" /\ caller[pending[k]].on = pending[k]
          /\ KeyOf(pending[k]) = k /\ fetch[pending[k]].phase # "none"
    /\ \A c \in Callers :
          /\ caller[c].phase \in {"idle", "reading", "missed"} => fetch[c].phase = "none"
          /\ caller[c].phase \in {"reading", "missed", "joined"} => KeyOf(c) \in Keys
          /\ caller[c].phase = "joined" => caller[c].on \in Callers

IInv == TypeOK /\ LeaseIsHeld /\ Books /\ QueueWaits /\ FetchOnRecord

LEMMA InitInv == ASSUME ConstantsAssumption, Init PROVE IInv
<1>1. TypeOK
  <2>1. 0 \in 0 .. MaxInFlight /\ 0 \in 0 .. Attempts
    BY DEF ConstantsAssumption
  <2>2. caller \in [Callers -> Call] /\ fetch \in [Callers -> Fetch]
    BY <2>1 DEF Init, Call, Fetch
  <2>3. queue \in Seq(Callers)
    BY DEF Init
  <2> QED
    BY <2>1, <2>2, <2>3 DEF Init, TypeOK
<1>4. LeaseIsHeld /\ QueueWaits
  BY DEF Init, LeaseIsHeld, QueueWaits
<1>5. FetchOnRecord
  BY DEF Init, FetchOnRecord, Active, Ended
<1>2. Leased = {}
  BY DEF Init, Leased
<1>3. Books
  BY <1>2, FS_EmptySet DEF Init, Books
<1> QED
  BY <1>1, <1>3, <1>4, <1>5 DEF IInv

-----------------------------------------------------------------------------
(* The queue *)

\* A waiter comes behind those of its class, and no other changes its order.
LEMMA Inserted ==
    ASSUME NEW q \in Seq(Callers), NEW t \in Callers
    PROVE  /\ Queued(q, t) \in Seq(Callers) /\ Len(Queued(q, t)) = Len(q) + 1
           /\ \E n \in 0 .. Len(q) : \A i \in 1 .. Len(q) + 1 :
                 Queued(q, t)[i] = IF i <= n THEN q[i] ELSE IF i = n + 1 THEN t ELSE q[i - 1]
<1> DEFINE research == {i \in DOMAIN q : q[i] \in Research}
           n == IF t \in Research THEN Cardinality(research) ELSE Len(q)
           before == SubSeq(q, 1, n)
           after == SubSeq(q, n + 1, Len(q))
<1>1. n \in 0 .. Len(q)
  <2>1. IsFiniteSet(1 .. Len(q)) /\ Cardinality(1 .. Len(q)) = Len(q)
    <3>1. 1 \in Int /\ Len(q) \in Int
      BY LenProperties
    <3>2. Cardinality(1 .. Len(q)) = IF 1 > Len(q) THEN 0 ELSE Len(q) - 1 + 1
      BY <3>1, FS_Interval
    <3> QED
      BY <3>1, <3>2, FS_Interval, LenProperties
  <2>2. research \in SUBSET (1 .. Len(q))
    BY LenProperties
  <2>3. IsFiniteSet(research) /\ Cardinality(research) <= Len(q)
    BY <2>1, <2>2, FS_Subset
  <2>4. Cardinality(research) \in Nat
    BY <2>3, FS_CardinalityType
  <2> QED
    BY <2>3, <2>4, LenProperties
<1>2. Queued(q, t) = before \o <<t>> \o after
  BY DEF Queued
<1> HIDE DEF n
<1>3. /\ before \in Seq(Callers) /\ Len(before) = n
      /\ \A i \in 1 .. n : before[i] = q[i]
  BY <1>1
<1>4. /\ after \in Seq(Callers) /\ Len(after) = Len(q) - n
      /\ \A i \in 1 .. Len(q) - n : after[i] = q[n + i]
  BY <1>1
<1> HIDE DEF before, after
<1>5. /\ before \o <<t>> \in Seq(Callers) /\ Len(before \o <<t>>) = n + 1
      /\ \A i \in 1 .. n + 1 : (before \o <<t>>)[i] = IF i <= n THEN q[i] ELSE t
  BY <1>1, <1>3
<1> DEFINE front == before \o <<t>>
<1> HIDE DEF front
<1>6. /\ front \o after \in Seq(Callers) /\ Len(front \o after) = Len(q) + 1
      /\ \A i \in 1 .. Len(q) + 1 :
            (front \o after)[i] = IF i <= n + 1 THEN front[i] ELSE after[i - (n + 1)]
  BY <1>1, <1>4, <1>5, ConcatProperties DEF front
<1>7. \A i \in 1 .. Len(q) + 1 : (front \o after)[i] =
          IF i <= n THEN q[i] ELSE IF i = n + 1 THEN t ELSE q[i - 1]
  <2> TAKE i \in 1 .. Len(q) + 1
  <2>1. Len(q) \in Nat
    OBVIOUS
  <2>2. CASE i <= n + 1
    BY <1>1, <1>5, <1>6, <2>1, <2>2 DEF front
  <2>3. CASE ~(i <= n + 1)
    <3>1. i - (n + 1) \in 1 .. Len(q) - n /\ n + (i - (n + 1)) = i - 1
      BY <1>1, <2>1, <2>3
    <3>2. (front \o after)[i] = q[i - 1]
      BY <1>1, <1>4, <1>6, <2>1, <2>3, <3>1
    <3> QED
      BY <1>1, <2>1, <2>3, <3>2
  <2> QED
    BY <2>2, <2>3
<1> QED
  BY <1>1, <1>2, <1>6, <1>7 DEF front

\* A fetch that is given to the coordinator waits in the queue.
LEMMA QueuesUp ==
    ASSUME IInv, NEW t \in Callers, NEW f \in Fetch, fetch' = [fetch EXCEPT ![t] = f],
           f.phase = "queued", fetch[t].phase # "queued", queue' = Queued(queue, t)
    PROVE  queue' \in Seq(Callers) /\ QueueWaits'
<1>1. queue \in Seq(Callers) /\ fetch \in [Callers -> Fetch] /\ Len(queue) \in Nat
  BY DEF IInv, TypeOK
<1>2. PICK n \in 0 .. Len(queue) : \A i \in 1 .. Len(queue) + 1 :
          queue'[i] = IF i <= n THEN queue[i] ELSE IF i = n + 1 THEN t ELSE queue[i - 1]
  BY <1>1, Inserted
<1>3. queue' \in Seq(Callers) /\ Len(queue') = Len(queue) + 1
  BY <1>1, Inserted
<1>4. \A i \in 1 .. Len(queue) : queue[i] \in Callers /\ queue[i] # t
  BY <1>1 DEF IInv, QueueWaits
<1> DEFINE Old(i) == IF i <= n THEN i ELSE i - 1
<1>5. ASSUME NEW i \in 1 .. Len(queue')
      PROVE  \/ i = n + 1 /\ queue'[i] = t
             \/ /\ i # n + 1 /\ Old(i) \in 1 .. Len(queue) /\ queue'[i] = queue[Old(i)]
  BY <1>1, <1>2, <1>3
<1>6. \A i \in 1 .. Len(queue') : fetch'[queue'[i]].phase = "queued"
  <2>1. \A i \in 1 .. Len(queue) : fetch'[queue[i]].phase = "queued"
    BY <1>1, <1>4 DEF IInv, QueueWaits
  <2>2. fetch'[t].phase = "queued"
    BY <1>1
  <2> QED
    BY <1>5, <2>1, <2>2
<1>7. ASSUME NEW i \in 1 .. Len(queue'), NEW j \in 1 .. Len(queue'), queue'[i] = queue'[j]
      PROVE  i = j
  <2>1. \A a, b \in 1 .. Len(queue) : queue[a] = queue[b] => a = b
    BY DEF IInv, QueueWaits
  <2>2. CASE i = n + 1 \/ j = n + 1
    BY <1>4, <1>5, <1>7, <2>2
  <2>3. CASE i # n + 1 /\ j # n + 1
    <3>1. Old(i) = Old(j)
      BY <1>5, <1>7, <2>1, <2>3
    <3> QED
      BY <1>1, <1>3, <2>3, <3>1
  <2> QED
    BY <2>2, <2>3
<1> QED
  BY <1>3, <1>6, <1>7 DEF QueueWaits

\* A fetch that was not waiting does not disturb those that are.
LEMMA QueueStays ==
    ASSUME IInv, NEW t \in Callers, NEW f \in Fetch, fetch' = [fetch EXCEPT ![t] = f],
           fetch[t].phase # "queued", UNCHANGED queue
    PROVE  QueueWaits'
BY DEF IInv, TypeOK, QueueWaits

-----------------------------------------------------------------------------
(* Leases and the record of fetches *)

\* What release() does for the one lease that comes back.
LEMMA Released ==
    ASSUME ConstantsAssumption, IsFiniteSet(Callers), IInv, NEW t \in Callers,
           fetch[t].phase = "leased", NEW outcome \in {"success", "minute", "daily", "transient"},
           Release(fetch[t].lease, outcome), NEW f \in Fetch, f.lease = "none",
           f.phase # "leased", fetch' = [fetch EXCEPT ![t] = f]
    PROVE  /\ LeaseIsHeld' /\ Books'
           /\ state' \in {"normal", "cooldown", "half_open"} /\ probing' \in BOOLEAN
           /\ blocked' \in {"none", "minute", "daily", "passed"} /\ inFlight' \in 0 .. MaxInFlight
<1>1. fetch \in [Callers -> Fetch] /\ fetch[t].lease \in {"plain", "probe"}
  BY DEF IInv, TypeOK, LeaseIsHeld, Fetch
<1>2. Leased' = Leased \ {t} /\ t \in Leased
  BY <1>1 DEF Leased
<1>3. IsFiniteSet(Leased)
  <2>1. Leased \in SUBSET Callers
    BY DEF Leased
  <2> QED
    BY <2>1, FS_Subset
<1>4. Cardinality(Leased') = Cardinality(Leased) - 1 /\ Cardinality(Leased') \in Nat
  BY <1>2, <1>3, FS_RemoveElement, FS_CardinalityType
<1>5. inFlight' = inFlight - 1 /\ inFlight' \in 0 .. MaxInFlight
  BY <1>4 DEF Release, IInv, TypeOK, Books, ConstantsAssumption
<1>6. \/ probing' = FALSE
      \/ probing' = probing /\ fetch[t].lease = "plain"
  BY DEF Release, Block
<1>7. probing' => Probes' # {}
  BY <1>1, <1>6 DEF IInv, Books, Probes
<1>8. probing' \in BOOLEAN
  BY DEF Release, Block, IInv, TypeOK
<1>9. /\ state' \in {"normal", "cooldown", "half_open"}
      /\ blocked' \in {"none", "minute", "daily", "passed"}
  BY DEF Release, Block, IInv, TypeOK
<1>10. LeaseIsHeld'
  BY <1>1 DEF IInv, LeaseIsHeld
<1> QED
  BY <1>4, <1>5, <1>7, <1>8, <1>9, <1>10 DEF Books, IInv

\* A fetch that goes on, or ends, stays on record until its callers resume.
LEMMA RecordStays ==
    ASSUME IInv, NEW t \in Callers, Active(t), NEW f \in Fetch, f.phase # "none",
           fetch' = [fetch EXCEPT ![t] = f], UNCHANGED <<caller, pending>>
    PROVE  FetchOnRecord'
BY DEF IInv, TypeOK, FetchOnRecord, Active, Ended, KeyOf

\* Steps of fetches that hold no lease leave the books alone.
LEMMA BooksStay ==
    ASSUME IInv, NEW t \in Callers, fetch[t].lease = "none", NEW f \in Fetch,
           f.lease = "none", f.phase # "leased", fetch' = [fetch EXCEPT ![t] = f],
           UNCHANGED <<inFlight, probing>>
    PROVE  LeaseIsHeld' /\ Books'
<1>1. fetch \in [Callers -> Fetch]
  BY DEF IInv, TypeOK
<1>2. Leased' = Leased /\ Probes' = Probes
  BY <1>1 DEF Leased, Probes
<1>3. LeaseIsHeld'
  BY <1>1 DEF IInv, LeaseIsHeld
<1> QED
  BY <1>2, <1>3 DEF IInv, Books
-----------------------------------------------------------------------------
(* Steps of a fetch *)

\* The fetch is at an await of its own: it is on record, and not in the queue.
LEMMA FetchIs ==
    ASSUME IInv, NEW t \in Callers
    PROVE  /\ fetch[t] \in Fetch /\ queue \in Seq(Callers)
           /\ fetch[t].attempt \in 0 .. Attempts
           /\ fetch[t].phase \in {"queued", "leased", "backoff", "storing"} <=> Active(t)
BY DEF IInv, TypeOK, Fetch, Active, Ended

LEMMA SteppedIs ==
    ASSUME IInv, NEW t \in Callers,
           NEW phase \in {"backoff", "storing", "stored", "failed"}, Step(t, phase)
    PROVE  \E f \in Fetch : /\ fetch' = [fetch EXCEPT ![t] = f]
                            /\ f.phase = phase /\ f.lease = "none"
<1> DEFINE f == [fetch[t] EXCEPT !.phase = phase, !.lease = "none"]
<1>1. f \in Fetch /\ f.phase = phase /\ f.lease = "none"
  BY FetchIs DEF Fetch
<1>2. fetch' = [fetch EXCEPT ![t] = f]
  BY DEF Step, IInv, TypeOK
<1> HIDE DEF f
<1> QED
  BY <1>1, <1>2

LEMMA AgainIs ==
    ASSUME ConstantsAssumption, IInv, NEW t \in Callers, Again(t)
    PROVE  /\ queue' = Queued(queue, t)
           /\ \E f \in Fetch : /\ fetch' = [fetch EXCEPT ![t] = f]
                               /\ f.phase = "queued" /\ f.lease = "none"
<1> DEFINE f == [phase |-> "queued", attempt |-> fetch[t].attempt + 1, lease |-> "none"]
<1>1. f \in Fetch /\ f.phase = "queued" /\ f.lease = "none"
  BY FetchIs DEF Fetch, Again, ConstantsAssumption
<1>2. fetch' = [fetch EXCEPT ![t] = f] /\ queue' = Queued(queue, t)
  BY DEF Again, IInv, TypeOK
<1> HIDE DEF f
<1> QED
  BY <1>1, <1>2

\* A lease comes back with an answer, whatever it is.
LEMMA AnswerInv ==
    ASSUME ConstantsAssumption, IsFiniteSet(Callers), IInv, NEW t \in Callers, Answer(t)
    PROVE  IInv'
<1>1. PICK outcome \in {"success", "minute", "daily", "transient"} :
         /\ fetch[t].phase = "leased" /\ Release(fetch[t].lease, outcome)
         /\ \/ UNCHANGED queue
               /\ \E phase \in {"backoff", "storing", "failed"} : Step(t, phase)
            \/ Again(t)
  BY DEF Answer, Succeeds, MinuteLimit, DailyLimit, Transient, AuthenticationFails
<1>2. /\ awake' = TRUE /\ authFailed' \in {authFailed, TRUE}
      /\ UNCHANGED <<caller, pending, cached, paced, timer>>
  BY DEF Answer, Succeeds, MinuteLimit, DailyLimit, Transient, AuthenticationFails
<1>3. PICK f \in Fetch :
         /\ fetch' = [fetch EXCEPT ![t] = f] /\ f.lease = "none"
         /\ \/ f.phase \in {"backoff", "storing", "failed"} /\ UNCHANGED queue
            \/ f.phase = "queued" /\ queue' = Queued(queue, t)
  <2>1. CASE Again(t)
    BY <2>1, AgainIs
  <2>2. ASSUME NEW phase \in {"backoff", "storing", "failed"}, Step(t, phase), UNCHANGED queue
        PROVE  \E f \in Fetch : /\ fetch' = [fetch EXCEPT ![t] = f] /\ f.lease = "none"
                                /\ f.phase = phase
    BY <2>2, SteppedIs
  <2> QED
    BY <1>1, <2>1, <2>2
<1>4. queue' \in Seq(Callers) /\ QueueWaits'
  BY <1>1, <1>3, QueuesUp, QueueStays, FetchIs
<1>5. FetchOnRecord'
  BY <1>1, <1>2, <1>3, RecordStays, FetchIs
<1>6. /\ LeaseIsHeld' /\ Books'
      /\ state' \in {"normal", "cooldown", "half_open"} /\ probing' \in BOOLEAN
      /\ blocked' \in {"none", "minute", "daily", "passed"} /\ inFlight' \in 0 .. MaxInFlight
  BY <1>1, <1>3, Released
<1>7. TypeOK'
  BY <1>2, <1>3, <1>4, <1>6 DEF IInv, TypeOK
<1> QED
  BY <1>4, <1>5, <1>6, <1>7 DEF IInv

LEMMA BackoffEndsInv ==
    ASSUME ConstantsAssumption, IInv, NEW t \in Callers, BackoffEnds(t)
    PROVE  IInv'
<1>1. /\ fetch[t].phase = "backoff" /\ Again(t) /\ awake' = TRUE
      /\ UNCHANGED <<caller, pending, cached, authFailed, state, blocked, probing,
                     inFlight, paced, timer>>
  BY DEF BackoffEnds
<1>2. PICK f \in Fetch : /\ fetch' = [fetch EXCEPT ![t] = f]
                         /\ f.phase = "queued" /\ f.lease = "none"
  BY <1>1, AgainIs
<1>3. queue' \in Seq(Callers) /\ QueueWaits'
  BY <1>1, <1>2, AgainIs, QueuesUp
<1>4. FetchOnRecord'
  BY <1>1, <1>2, RecordStays, FetchIs
<1>5. LeaseIsHeld' /\ Books'
  <2>1. fetch[t].lease = "none"
    BY <1>1 DEF IInv, LeaseIsHeld
  <2> QED
    BY <1>1, <1>2, <2>1, BooksStay
<1>6. TypeOK'
  BY <1>1, <1>2, <1>3 DEF IInv, TypeOK
<1> QED
  BY <1>3, <1>4, <1>5, <1>6 DEF IInv

LEMMA StoreInv ==
    ASSUME IInv, NEW t \in Callers, Store(t)
    PROVE  IInv'
<1>1. /\ fetch[t].phase = "storing"
      /\ cached' \in {cached, cached \cup {KeyOf(t)}}
      /\ UNCHANGED <<caller, pending, authFailed, queue, state, blocked, probing, inFlight,
                     paced, awake, timer>>
  BY DEF Store, coordinator
<1>2. PICK f \in Fetch : /\ fetch' = [fetch EXCEPT ![t] = f]
                         /\ f.phase \in {"stored", "failed"} /\ f.lease = "none"
  <2>1. \E phase \in {"stored", "failed"} : Step(t, phase)
    BY DEF Store
  <2> QED
    BY <2>1, SteppedIs
<1>3. KeyOf(t) \in Keys
  BY <1>1, FetchIs DEF IInv, FetchOnRecord
<1>4. QueueWaits' /\ FetchOnRecord'
  BY <1>1, <1>2, QueueStays, RecordStays, FetchIs
<1>5. LeaseIsHeld' /\ Books'
  <2>1. fetch[t].lease = "none"
    BY <1>1 DEF IInv, LeaseIsHeld
  <2> QED
    BY <1>1, <1>2, <2>1, BooksStay
<1>6. TypeOK'
  BY <1>1, <1>2, <1>3 DEF IInv, TypeOK
<1> QED
  BY <1>4, <1>5, <1>6 DEF IInv

-----------------------------------------------------------------------------
(* The dispatcher *)

LEMMA DispatchInv ==
    ASSUME ConstantsAssumption, IsFiniteSet(Callers), IInv, Dispatch
    PROVE  IInv'
<1> DEFINE t == Head(queue)
           lease == IF Seen = "half_open" THEN "probe" ELSE "plain"
           f == [fetch[t] EXCEPT !.phase = "leased", !.lease = lease]
<1>1. /\ Dispatchable /\ Observe /\ queue' = Tail(queue) /\ inFlight' = inFlight + 1
      /\ paced' = TRUE /\ probing' = (probing \/ Seen = "half_open")
      /\ UNCHANGED <<caller, pending, cached, authFailed, awake, timer>>
  BY DEF Dispatch
<1>2. /\ queue \in Seq(Callers) /\ queue # <<>> /\ inFlight < MaxInFlight
      /\ fetch \in [Callers -> Fetch]
  BY <1>1 DEF Dispatchable, IInv, TypeOK
<1>3. /\ t \in Callers /\ t = queue[1] /\ Len(queue) \in Nat /\ Len(queue) >= 1
      /\ Tail(queue) \in Seq(Callers) /\ Len(Tail(queue)) = Len(queue) - 1
      /\ \A i \in 1 .. Len(Tail(queue)) : Tail(queue)[i] = queue[i + 1]
  BY <1>2
<1>4. fetch[t].phase = "queued" /\ fetch[t].lease = "none"
  BY <1>3 DEF IInv, QueueWaits, LeaseIsHeld
<1>5. fetch' = [fetch EXCEPT ![t] = f]
  BY <1>2, <1>3 DEF Dispatch
<1>7. lease \in {"plain", "probe"} /\ (Seen = "half_open" => lease = "probe")
  OBVIOUS
<1> HIDE DEF t, lease
<1>6. f \in Fetch /\ f.phase = "leased" /\ f.lease = lease
  <2>1. fetch[t] \in Fetch
    BY <1>2, <1>3
  <2> QED
    BY <1>7, <2>1 DEF Fetch
<1> HIDE DEF f
<1>8. QueueWaits'
  <2>1. \A i, j \in 1 .. Len(queue) : queue[i] = queue[j] => i = j
    BY DEF IInv, QueueWaits
  <2>2. ASSUME NEW i \in 1 .. Len(queue')
        PROVE  i + 1 \in 1 .. Len(queue) /\ queue'[i] = queue[i + 1] /\ queue'[i] # t
    BY <1>1, <1>3, <2>1
  <2>3. \A i \in 1 .. Len(queue) : queue[i] \in Callers /\ fetch[queue[i]].phase = "queued"
    BY <1>2 DEF IInv, QueueWaits
  <2>4. ASSUME NEW i \in 1 .. Len(queue') PROVE fetch'[queue'[i]].phase = "queued"
    BY <1>2, <1>5, <2>2, <2>3
  <2>5. ASSUME NEW i \in 1 .. Len(queue'), NEW j \in 1 .. Len(queue'), queue'[i] = queue'[j]
        PROVE  i = j
    <3>1. i + 1 = j + 1
      BY <2>1, <2>2, <2>5
    <3> QED
      BY <1>1, <1>3, <3>1
  <2> QED
    BY <2>4, <2>5 DEF QueueWaits
<1>9. FetchOnRecord'
  BY <1>1, <1>3, <1>4, <1>5, <1>6, RecordStays, FetchIs
<1>10. LeaseIsHeld'
  BY <1>2, <1>3, <1>5, <1>6, <1>7 DEF IInv, LeaseIsHeld
<1>11. Leased' = Leased \cup {t} /\ t \notin Leased
  BY <1>2, <1>3, <1>4, <1>5, <1>6, <1>7 DEF Leased
<1>12. IsFiniteSet(Leased)
  <2>1. Leased \in SUBSET Callers
    BY DEF Leased
  <2> QED
    BY <2>1, FS_Subset
<1>13. inFlight' = Cardinality(Leased') /\ inFlight' \in 0 .. MaxInFlight
  <2>1. Cardinality(Leased') = Cardinality(Leased) + 1
    BY <1>11, <1>12, FS_AddElement
  <2>2. inFlight \in 0 .. MaxInFlight /\ MaxInFlight \in Nat /\ inFlight = Cardinality(Leased)
    BY DEF IInv, Books, TypeOK, ConstantsAssumption
  <2> QED
    BY <1>1, <1>2, <2>1, <2>2
<1>14. probing' => Probes' # {}
  <2>1. Seen = "half_open" => t \in Probes'
    BY <1>2, <1>3, <1>5, <1>6, <1>7 DEF Probes
  <2>2. Probes \subseteq Probes'
    BY <1>2, <1>3, <1>4, <1>5 DEF Probes
  <2>3. probing => Probes # {}
    BY DEF IInv, Books
  <2> QED
    BY <1>1, <2>1, <2>2, <2>3
<1>15. TypeOK'
  <2>1. probing' \in BOOLEAN
    BY <1>1
  <2>2. /\ state' \in {"normal", "cooldown", "half_open"}
        /\ blocked' \in {"none", "minute", "daily", "passed"}
    BY <1>1 DEF Observe, Seen, IInv, TypeOK
  <2> QED
    BY <1>1, <1>3, <1>5, <1>6, <1>13, <2>1, <2>2 DEF IInv, TypeOK
<1> QED
  BY <1>8, <1>9, <1>10, <1>13, <1>14, <1>15 DEF IInv, Books

\* A dispatcher that waits and a clock that goes on leave calls and fetches alone.
LEMMA WaitingInv ==
    ASSUME IInv, DispatcherWaits \/ PacePasses \/ BlockPasses \/ \E k \in Keys : CacheExpires(k)
    PROVE  IInv'
<1>1. /\ UNCHANGED <<caller, fetch, pending, authFailed, queue, probing, inFlight>>
      /\ cached' \subseteq cached
      /\ state' \in {state, Seen} /\ blocked' \in {blocked, "none", "passed"}
      /\ paced' \in {paced, FALSE} /\ timer' \in {timer, "none", "pace", "block"}
  BY DEF DispatcherWaits, PacePasses, BlockPasses, CacheExpires, Observe, coordinator
<1>2. awake' \in BOOLEAN
  BY DEF DispatcherWaits, PacePasses, BlockPasses, CacheExpires, coordinator, IInv, TypeOK
<1>3. TypeOK'
  BY <1>1, <1>2 DEF IInv, TypeOK, Seen
<1>4. LeaseIsHeld' /\ Books' /\ QueueWaits' /\ FetchOnRecord'
  BY <1>1 DEF IInv, LeaseIsHeld, Books, Leased, Probes, QueueWaits, FetchOnRecord, Active,
      Ended, KeyOf
<1> QED
  BY <1>3, <1>4 DEF IInv
-----------------------------------------------------------------------------
(* Steps of a call *)

\* A call that has not joined a fetch leaves everything else alone.
LEMMA AloneInv ==
    ASSUME ConstantsAssumption, IInv, NEW c \in Callers, Ask(c) \/ ReadCache(c)
    PROVE  IInv'
<1>1. /\ caller[c].phase \in {"idle", "reading"}
      /\ UNCHANGED <<fetch, pending, cached, authFailed, queue, state, blocked, probing,
                     inFlight, paced, awake, timer>>
  BY DEF Ask, ReadCache, coordinator
<1>3. caller \in [Callers -> Call] /\ caller[c] \in Call
  BY DEF IInv, TypeOK
<1>4. PICK call \in Call :
         /\ caller' = [caller EXCEPT ![c] = call]
         /\ call.phase \in {"reading", "missed", "answered", "refused"} /\ call.key \in Keys
  <2>1. CASE Ask(c)
    <3>1. PICK k \in Keys, phase \in {"reading", "refused"} :
             caller' = [caller EXCEPT ![c].phase = phase, ![c].key = k]
      <4>1. Asks[c] \subseteq Keys
        BY DEF ConstantsAssumption
      <4> QED
        BY <2>1, <4>1 DEF Ask
    <3> DEFINE call == [caller[c] EXCEPT !.phase = phase, !.key = k]
    <3>2. call \in Call /\ call.phase = phase /\ call.key = k
      BY <1>3 DEF Call
    <3>3. caller' = [caller EXCEPT ![c] = call]
      BY <1>3, <3>1
    <3> HIDE DEF call
    <3> QED
      BY <3>2, <3>3
  <2>2. CASE ReadCache(c)
    <3>1. PICK phase \in {"missed", "answered"} : caller' = [caller EXCEPT ![c].phase = phase]
      BY <2>2 DEF ReadCache
    <3>2. caller[c].key \in Keys
      BY <2>2 DEF ReadCache, IInv, FetchOnRecord, KeyOf
    <3> DEFINE call == [caller[c] EXCEPT !.phase = phase]
    <3>3. call \in Call /\ call.phase = phase /\ call.key \in Keys
      BY <1>3, <3>2 DEF Call
    <3>4. caller' = [caller EXCEPT ![c] = call]
      BY <1>3, <3>1
    <3> HIDE DEF call
    <3> QED
      BY <3>3, <3>4
  <2> QED
    BY <2>1, <2>2
<1>5. TypeOK'
  BY <1>1, <1>3, <1>4 DEF IInv, TypeOK
<1>6. LeaseIsHeld' /\ Books' /\ QueueWaits'
  BY <1>1 DEF IInv, LeaseIsHeld, Books, Leased, Probes, QueueWaits
<1>7. FetchOnRecord'
  <2>1. fetch[c].phase = "none"
    BY <1>1 DEF IInv, FetchOnRecord
  <2> QED
    BY <1>1, <1>3, <1>4, <2>1 DEF IInv, TypeOK, FetchOnRecord, Active, Ended, KeyOf
<1> QED
  BY <1>5, <1>6, <1>7 DEF IInv

LEMMA JoinInv ==
    ASSUME ConstantsAssumption, IInv, NEW c \in Callers, Join(c)
    PROVE  IInv'
<1> DEFINE k == KeyOf(c)
<1>1. /\ caller[c].phase = "missed" /\ k \in Keys /\ UNCHANGED <<cached, authFailed>>
      /\ fetch[c].phase = "none" /\ fetch[c].lease = "none" /\ ~Active(c)
      /\ caller \in [Callers -> Call] /\ fetch \in [Callers -> Fetch]
      /\ pending \in [Keys -> Callers \cup {None}]
  BY DEF Join, IInv, TypeOK, FetchOnRecord, LeaseIsHeld, Active
<1>2. ASSUME NEW u \in Callers, caller' = [caller EXCEPT ![c].phase = "joined", ![c].on = u]
      PROVE  \E call \in Call : /\ caller' = [caller EXCEPT ![c] = call]
                                /\ call.phase = "joined" /\ call.on = u /\ call.key = k
  <2> DEFINE call == [caller[c] EXCEPT !.phase = "joined", !.on = u]
  <2>1. call \in Call /\ call.phase = "joined" /\ call.on = u /\ call.key = k
    BY <1>1 DEF Call, KeyOf
  <2>2. caller' = [caller EXCEPT ![c] = call]
    BY <1>1, <1>2
  <2> HIDE DEF call
  <2> QED
    BY <2>1, <2>2
<1> HIDE DEF k
<1>3. CASE /\ pending[k] # None
           /\ caller' = [caller EXCEPT ![c].phase = "joined", ![c].on = pending[k]]
           /\ UNCHANGED <<fetch, pending, coordinator>>
  <2>4. pending[k] \in Callers
    BY <1>1, <1>3
  <2>1. PICK call \in Call : /\ caller' = [caller EXCEPT ![c] = call]
                             /\ call.phase = "joined" /\ call.on \in Callers /\ call.key = k
    BY <1>2, <1>3, <2>4
  <2>5. UNCHANGED <<fetch, pending, cached, authFailed, queue, state, blocked, probing,
                    inFlight, paced, awake, timer>>
    BY <1>1, <1>3 DEF coordinator
  <2>6. caller' \in [Callers -> Call]
    BY <1>1, <2>1
  <2>7. TypeOK'
    BY <2>5, <2>6 DEF IInv, TypeOK
  <2>2. TypeOK' /\ LeaseIsHeld' /\ Books' /\ QueueWaits'
    BY <2>5, <2>7 DEF IInv, LeaseIsHeld, Books, Leased, Probes, QueueWaits
  <2>3. FetchOnRecord'
    BY <1>1, <1>3, <2>1 DEF IInv, FetchOnRecord, Active, Ended, KeyOf, k
  <2> QED
    BY <2>2, <2>3 DEF IInv
<1>4. CASE /\ pending[k] = None
           /\ caller' = [caller EXCEPT ![c].phase = "joined", ![c].on = c]
           /\ pending' = [pending EXCEPT ![k] = c]
           /\ fetch' = [fetch EXCEPT ![c].phase = "queued", ![c].attempt = 1]
           /\ Acquire(c)
           /\ UNCHANGED <<state, blocked, probing, inFlight, paced, timer>>
  <2>1. PICK call \in Call : /\ caller' = [caller EXCEPT ![c] = call]
                             /\ call.phase = "joined" /\ call.on = c /\ call.key = k
    BY <1>2, <1>4
  <2>2. PICK f \in Fetch : /\ fetch' = [fetch EXCEPT ![c] = f]
                           /\ f.phase = "queued" /\ f.lease = "none"
    <3> DEFINE f == [fetch[c] EXCEPT !.phase = "queued", !.attempt = 1]
    <3>1. 1 \in 0 .. Attempts
      BY DEF ConstantsAssumption
    <3>2. f \in Fetch /\ f.phase = "queued" /\ f.lease = "none"
      BY <1>1, <3>1 DEF Fetch
    <3>3. fetch' = [fetch EXCEPT ![c] = f]
      BY <1>1, <1>4
    <3> HIDE DEF f
    <3> QED
      BY <3>2, <3>3
  <2>3. queue' \in Seq(Callers) /\ QueueWaits'
    BY <1>1, <1>4, <2>2, QueuesUp DEF Acquire
  <2>4. LeaseIsHeld' /\ Books'
    <3>1. UNCHANGED <<inFlight, probing>> /\ f.phase # "leased"
      BY <1>4, <2>2
    <3> QED
      BY <1>1, <2>2, <3>1, BooksStay
  <2>5. TypeOK'
    <3>1. /\ caller' \in [Callers -> Call] /\ fetch' \in [Callers -> Fetch]
          /\ pending' \in [Keys -> Callers \cup {None}]
      <4>1. caller' \in [Callers -> Call] /\ fetch' \in [Callers -> Fetch]
        BY <1>1, <2>1, <2>2
      <4>2. pending' = [pending EXCEPT ![k] = c]
        BY <1>4
      <4> QED
        BY <1>1, <4>1, <4>2
    <3>2. /\ awake' = TRUE
          /\ UNCHANGED <<cached, authFailed, state, blocked, probing, inFlight, paced, timer>>
      BY <1>1, <1>4 DEF Acquire
    <3> QED
      BY <2>3, <3>1, <3>2 DEF IInv, TypeOK
  <2>6. FetchOnRecord'
    <3>1. ASSUME NEW t \in Callers, Active(t)'
          PROVE  KeyOf(t)' \in Keys /\ pending'[KeyOf(t)'] = t
      <4>1. CASE t = c
        BY <1>1, <1>4, <2>1, <4>1 DEF KeyOf
      <4>2. CASE t # c
        <5>1. Active(t) /\ KeyOf(t)' = KeyOf(t)
          BY <1>1, <2>1, <2>2, <3>1, <4>2 DEF Active, Ended, KeyOf
        <5>2. KeyOf(t) \in Keys /\ pending[KeyOf(t)] = t /\ t # None
          BY <5>1 DEF IInv, FetchOnRecord, ConstantsAssumption
        <5> QED
          BY <1>1, <1>4, <5>1, <5>2
      <4> QED
        BY <4>1, <4>2
    <3>2. ASSUME NEW x \in Keys, pending'[x] # None
          PROVE  /\ caller'[pending'[x]].phase = "joined" /\ caller'[pending'[x]].on = pending'[x]
                 /\ caller'[pending'[x]].key = x /\ fetch'[pending'[x]].phase # "none"
      <4>1. CASE x = k
        BY <1>1, <1>4, <2>1, <2>2, <4>1
      <4>2. CASE x # k
        <5>1. /\ pending'[x] = pending[x] /\ pending[x] # None
              /\ caller[pending[x]].phase = "joined" /\ caller[pending[x]].on = pending[x]
              /\ caller[pending[x]].key = x /\ fetch[pending[x]].phase # "none"
              /\ pending[x] \in Callers
          BY <1>1, <1>4, <3>2, <4>2 DEF IInv, FetchOnRecord, KeyOf
        <5>2. pending[x] # c
          BY <1>1, <5>1
        <5> QED
          BY <1>1, <2>1, <2>2, <5>1, <5>2
      <4> QED
        BY <4>1, <4>2
    <3>3. ASSUME NEW d \in Callers
          PROVE  /\ caller'[d].phase \in {"idle", "reading", "missed"} => fetch'[d].phase = "none"
                 /\ caller'[d].phase \in {"reading", "missed", "joined"} => caller'[d].key \in Keys
                 /\ caller'[d].phase = "joined" => caller'[d].on \in Callers
      BY <1>1, <2>1, <2>2 DEF IInv, FetchOnRecord, KeyOf
    <3> QED
      BY <3>1, <3>2, <3>3 DEF FetchOnRecord, KeyOf
  <2> QED
    BY <2>3, <2>4, <2>5, <2>6 DEF IInv
<1> QED
  BY <1>3, <1>4 DEF Join, k

\* A fetch that goes on is not the one the call has waited for, and one that
\* stays on record has a call of its own that still waits.
LEMMA ReturnInv ==
    ASSUME ConstantsAssumption, IInv, NEW c \in Callers, Return(c)
    PROVE  IInv'
<1> DEFINE k == KeyOf(c)
           u == caller[c].on
<1>1. /\ caller[c].phase = "joined" /\ Ended(u) /\ k \in Keys /\ u \in Callers
      /\ pending' = [pending EXCEPT ![k] = IF @ = u THEN None ELSE @]
      /\ UNCHANGED <<fetch, cached, authFailed, queue, state, blocked, probing, inFlight,
                     paced, awake, timer>>
      /\ caller \in [Callers -> Call] /\ pending \in [Keys -> Callers \cup {None}]
  BY DEF Return, IInv, TypeOK, FetchOnRecord, coordinator
<1>2. PICK phase \in {"answered", "refused"} : caller' = [caller EXCEPT ![c].phase = phase]
  BY DEF Return
<1> DEFINE call == [caller[c] EXCEPT !.phase = phase]
<1>3. call \in Call /\ call.phase = phase /\ call.key = k
  BY <1>1 DEF Call, KeyOf
<1>4. caller' = [caller EXCEPT ![c] = call]
  BY <1>1, <1>2
<1>5. u = caller[c].on /\ k = caller[c].key
  BY DEF KeyOf
<1> HIDE DEF call, k, u
<1>6. TypeOK'
  BY <1>1, <1>3, <1>4 DEF IInv, TypeOK
<1>7. LeaseIsHeld' /\ Books' /\ QueueWaits'
  BY <1>1 DEF IInv, LeaseIsHeld, Books, Leased, Probes, QueueWaits
<1>8. FetchOnRecord'
  <2>1. ASSUME NEW t \in Callers, Active(t)'
        PROVE  KeyOf(t)' \in Keys /\ pending'[KeyOf(t)'] = t
    <3>1. Active(t) /\ KeyOf(t)' = KeyOf(t) /\ t # u
      BY <1>1, <1>3, <1>4, <1>5, <2>1 DEF Active, Ended, KeyOf
    <3>2. KeyOf(t) \in Keys /\ pending[KeyOf(t)] = t
      BY <3>1 DEF IInv, FetchOnRecord
    <3> QED
      BY <1>1, <3>1, <3>2
  <2>2. ASSUME NEW x \in Keys, pending'[x] # None
        PROVE  /\ caller'[pending'[x]].phase = "joined" /\ caller'[pending'[x]].on = pending'[x]
               /\ caller'[pending'[x]].key = x /\ fetch'[pending'[x]].phase # "none"
    <3>1. pending'[x] = pending[x] /\ pending[x] # None /\ ~(x = k /\ pending[x] = u)
      BY <1>1, <2>2
    <3>2. /\ caller[pending[x]].phase = "joined" /\ caller[pending[x]].on = pending[x]
          /\ caller[pending[x]].key = x /\ fetch[pending[x]].phase # "none"
          /\ pending[x] \in Callers
      BY <1>1, <3>1 DEF IInv, FetchOnRecord, KeyOf
    <3>3. pending[x] # c
      BY <1>5, <3>1, <3>2
    <3> QED
      BY <1>1, <1>4, <3>1, <3>2, <3>3
  <2>3. ASSUME NEW d \in Callers
        PROVE  /\ caller'[d].phase \in {"idle", "reading", "missed"} => fetch'[d].phase = "none"
               /\ caller'[d].phase \in {"reading", "missed", "joined"} => caller'[d].key \in Keys
               /\ caller'[d].phase = "joined" => caller'[d].on \in Callers
    BY <1>1, <1>3, <1>4 DEF IInv, FetchOnRecord, KeyOf
  <2> QED
    BY <2>1, <2>2, <2>3 DEF FetchOnRecord, KeyOf
<1> QED
  BY <1>6, <1>7, <1>8 DEF IInv

-----------------------------------------------------------------------------

LEMMA Inductive ==
    ASSUME ConstantsAssumption, IsFiniteSet(Callers), IInv, [Next]_vars
    PROVE  IInv'
<1>1. ASSUME NEW c \in Callers, Ask(c) \/ Query(c)
      PROVE  IInv'
  BY <1>1, AloneInv, JoinInv, ReturnInv DEF Query
<1>2. ASSUME NEW t \in Callers, Answer(t) \/ BackoffEnds(t) \/ Store(t)
      PROVE  IInv'
  BY <1>2, AnswerInv, BackoffEndsInv, StoreInv
<1>3. CASE UNCHANGED vars
  BY <1>3 DEF vars, coordinator, IInv, TypeOK, LeaseIsHeld, Books, Leased, Probes, QueueWaits,
      FetchOnRecord, Active, Ended, KeyOf
<1> QED
  BY <1>1, <1>2, <1>3, DispatchInv, WaitingInv DEF Next

\* What the record of fetches says of calls that want the same.
LEMMA RecordIsShared ==
    ASSUME ConstantsAssumption, IInv
    PROVE  FetchesAreShared
<1>1. OneFetchPerKey
  BY DEF IInv, FetchOnRecord, Active, OneFetchPerKey
<1>2. NoStaleFetch
  BY DEF IInv, TypeOK, FetchOnRecord, NoStaleFetch
<1> QED
  BY <1>1, <1>2 DEF FetchesAreShared

\* The coordinator's count is exactly the leases that are out, whatever the
\* endpoint answers and in whatever order: release() gives back what the
\* dispatcher handed out, and its flag of a probe is up only while one is out.
THEOREM Accounting ==
    ASSUME IsFiniteSet(Callers)
    PROVE  Spec => []LeasesAreAccounted
<1>1. Init => IInv
  BY ConstantsAssumption, InitInv
<1>2. IInv /\ [Next]_vars => IInv'
  BY ConstantsAssumption, Inductive
<1>3. IInv => LeasesAreAccounted
  BY DEF IInv, Books, LeasesAreAccounted
<1> QED
  BY <1>1, <1>2, <1>3, PTL DEF Spec

\* Calls of query() that want the same share one fetch, and none finds the
\* answer or the failure of one whose callers have all resumed.
THEOREM Sharing ==
    ASSUME IsFiniteSet(Callers)
    PROVE  Spec => []FetchesAreShared
<1>1. Init => IInv
  BY ConstantsAssumption, InitInv
<1>2. IInv /\ [Next]_vars => IInv'
  BY ConstantsAssumption, Inductive
<1>3. IInv => FetchesAreShared
  BY ConstantsAssumption, RecordIsShared
<1> QED
  BY <1>1, <1>2, <1>3, PTL DEF Spec
===============================================================================
