-------------------------- MODULE AlphaVantageBroker --------------------------
(***************************************************************************)
(* The broker of Alpha Vantage requests: callers of query() share one      *)
(* fetch per request key, and every attempt of a fetch needs a lease of    *)
(* the quota coordinator, which has one dispatcher.                        *)
(*                                                                         *)
(* The broker is one asyncio event loop, and nothing awaits while it holds *)
(* the coordinator's lock or the lock of the pending fetches: what runs    *)
(* between two awaits is one action.  Cache files are read in threads.     *)
(***************************************************************************)
EXTENDS Integers, Sequences, FiniteSets

CONSTANTS
    Callers,       \* calls of query()
    Research,      \* those of the consumer "research"; the others validate
    Keys,          \* request keys
    Asks,          \* the keys a call may be for
    MaxInFlight,
    Attempts,      \* of the retry policy
    None           \* no fetch, no key

ASSUME ConstantsAssumption ==
    /\ Research \subseteq Callers
    /\ Asks \in [Callers -> SUBSET Keys]
    /\ MaxInFlight \in Nat \ {0} /\ Attempts \in Nat \ {0}
    /\ None \notin Callers \cup Keys

VARIABLES
    caller,      \* the calls of query()
    fetch,       \* the task of _fetch that a caller created
    pending,     \* _pending: key to fetch, named by the caller that created it
    cached,      \* keys with a fresh response on disk
    authFailed,  \* _authentication_failed
    queue,       \* _waiters, in the order of the heap
    state,       \* _state
    blocked,     \* _blocked_until: what it waits for, and whether it has passed
    probing,     \* _probe_in_flight
    inFlight,    \* _in_flight
    paced,       \* _next_allowed_at lies in the future
    awake,       \* _wake is set, or the dispatcher has something to look at
    timer        \* what the dispatcher's wait will time out for

coordinator == <<queue, state, blocked, probing, inFlight, paced, awake, timer>>
vars == <<caller, fetch, pending, cached, authFailed, coordinator>>

\* Where a call awaits, its key, and the fetch it joined.
Call == [phase : {"idle", "reading", "missed", "joined", "answered", "refused"},
         key : Keys \cup {None}, on : Callers \cup {None}]

\* Where a fetch awaits, which attempt it makes, and its lease.
Fetch == [phase : {"none", "queued", "leased", "backoff", "storing", "stored", "failed"},
          attempt : 0 .. Attempts, lease : {"none", "plain", "probe"}]

KeyOf(c) == caller[c].key
Ended(t) == fetch[t].phase \in {"stored", "failed"}
Leased == {t \in Callers : fetch[t].lease # "none"}
Probes == {t \in Callers : fetch[t].lease = "probe"}

TypeOK ==
    /\ caller \in [Callers -> Call]
    /\ fetch \in [Callers -> Fetch]
    /\ pending \in [Keys -> Callers \cup {None}]
    /\ cached \subseteq Keys
    /\ authFailed \in BOOLEAN /\ probing \in BOOLEAN
    /\ paced \in BOOLEAN /\ awake \in BOOLEAN
    /\ queue \in Seq(Callers)
    /\ state \in {"normal", "cooldown", "half_open"}
    /\ blocked \in {"none", "minute", "daily", "passed"}
    /\ inFlight \in 0 .. MaxInFlight
    /\ timer \in {"none", "pace", "block"}

Init ==
    /\ caller = [c \in Callers |-> [phase |-> "idle", key |-> None, on |-> None]]
    /\ fetch = [t \in Callers |-> [phase |-> "none", attempt |-> 0, lease |-> "none"]]
    /\ pending = [k \in Keys |-> None]
    /\ cached = {} /\ authFailed = FALSE
    /\ queue = <<>> /\ state = "normal" /\ blocked = "none" /\ probing = FALSE
    /\ inFlight = 0 /\ paced = FALSE /\ awake = TRUE /\ timer = "none"

-----------------------------------------------------------------------------
(* The quota coordinator *)

\* The heap: research before the others, each class in order of arrival.  The
\* class is that of the caller that created the fetch.
Queued(q, t) ==
    LET ahead == IF t \in Research THEN Cardinality({i \in DOMAIN q : q[i] \in Research})
                                  ELSE Len(q)
    IN  SubSeq(q, 1, ahead) \o <<t>> \o SubSeq(q, ahead + 1, Len(q))

\* acquire(): the dispatcher is woken, the caller awaits its lease.
Acquire(t) == queue' = Queued(queue, t) /\ awake' = TRUE

Block(kind) ==
    /\ state' = "cooldown" /\ blocked' = kind /\ probing' = FALSE

ReleaseForgettingProbe(lease, outcome) ==
    /\ inFlight' = inFlight - 1
    /\ \/ outcome \in {"minute", "daily"} /\ Block(outcome)
       \/ /\ lease = "probe" /\ outcome = "success"
          /\ state' = "normal" /\ blocked' = "none" /\ probing' = FALSE
       \/ /\ outcome = "transient" \/ (lease = "plain" /\ outcome = "success")
          /\ UNCHANGED <<state, blocked, probing>>

\* release(): any rate limit starts a cooldown, and so does a probe's failure;
\* a probe's success ends whatever cooldown there is.
Release(lease, outcome) ==
    /\ inFlight' = inFlight - 1
    /\ \/ outcome \in {"minute", "daily"} /\ Block(outcome)
       \/ /\ lease = "probe" /\ outcome = "success"
          /\ state' = "normal" /\ blocked' = "none" /\ probing' = FALSE
       \/ lease = "probe" /\ outcome = "transient" /\ Block("minute")
       \/ /\ lease = "plain" /\ outcome \in {"success", "transient"}
          /\ UNCHANGED <<state, blocked, probing>>

\* What the dispatcher finds: a cooldown that has passed becomes half_open.
Seen == IF state = "cooldown" /\ blocked = "passed" THEN "half_open" ELSE state

Dispatchable ==
    /\ Seen # "cooldown" /\ queue # <<>> /\ inFlight < MaxInFlight
    /\ ~(Seen = "half_open" /\ probing)

Observe ==
    /\ state' = Seen
    /\ blocked' = IF blocked = "passed" THEN "none" ELSE blocked

\* An iteration of _dispatch_loop that hands out a lease, and goes on.
Dispatch ==
    /\ awake /\ ~paced /\ Dispatchable
    /\ Observe
    /\ fetch' = [fetch EXCEPT ![Head(queue)].phase = "leased",
                              ![Head(queue)].lease = IF Seen = "half_open" THEN "probe" ELSE "plain"]
    /\ queue' = Tail(queue) /\ inFlight' = inFlight + 1 /\ paced' = TRUE
    /\ probing' = (probing \/ Seen = "half_open")
    /\ UNCHANGED <<caller, pending, cached, authFailed, awake, timer>>

WaitsWithoutTimer ==
    /\ awake /\ (paced \/ ~Dispatchable)
    /\ Observe
    /\ awake' = FALSE
    /\ timer' = IF Seen = "cooldown" THEN "block" ELSE "none"
    /\ UNCHANGED <<caller, fetch, pending, cached, authFailed, queue, probing, inFlight, paced>>

\* One that finds nothing to hand out: _wake is cleared, and the wait has a
\* timeout if a cooldown or the pace is what is missing.
DispatcherWaits ==
    /\ awake /\ (paced \/ ~Dispatchable)
    /\ Observe
    /\ awake' = FALSE
    /\ timer' = IF Seen = "cooldown" THEN "block" ELSE IF Dispatchable THEN "pace" ELSE "none"
    /\ UNCHANGED <<caller, fetch, pending, cached, authFailed, queue, probing, inFlight, paced>>

PacePasses ==
    /\ paced
    /\ paced' = FALSE /\ awake' = (awake \/ timer = "pace")
    /\ UNCHANGED <<caller, fetch, pending, cached, authFailed, queue, state, blocked,
                   probing, inFlight, timer>>

BlockPasses ==
    /\ blocked \in {"minute", "daily"}
    /\ blocked' = "passed" /\ awake' = (awake \/ timer = "block")
    /\ UNCHANGED <<caller, fetch, pending, cached, authFailed, queue, state,
                   probing, inFlight, paced, timer>>

-----------------------------------------------------------------------------
(* query() *)

\* A call is refused at once after an authentication failure; otherwise a
\* thread reads the cache.
Ask(c) ==
    /\ caller[c].phase = "idle"
    /\ \E k \in Asks[c] :
           caller' = [caller EXCEPT ![c].phase = IF authFailed THEN "refused" ELSE "reading",
                                    ![c].key = k]
    /\ UNCHANGED <<fetch, pending, cached, authFailed, coordinator>>

ReadCache(c) ==
    /\ caller[c].phase = "reading"
    /\ caller' = [caller EXCEPT ![c].phase = IF KeyOf(c) \in cached THEN "answered" ELSE "missed"]
    /\ UNCHANGED <<fetch, pending, cached, authFailed, coordinator>>

\* The fetch of the key is joined, one that has ended included; else a new one
\* starts and waits for a lease.
Join(c) ==
    /\ caller[c].phase = "missed"
    /\ LET k == KeyOf(c) IN
       \/ /\ pending[k] # None
          /\ caller' = [caller EXCEPT ![c].phase = "joined", ![c].on = pending[k]]
          /\ UNCHANGED <<fetch, pending, coordinator>>
       \/ /\ pending[k] = None
          /\ caller' = [caller EXCEPT ![c].phase = "joined", ![c].on = c]
          /\ pending' = [pending EXCEPT ![k] = c]
          /\ fetch' = [fetch EXCEPT ![c].phase = "queued", ![c].attempt = 1]
          /\ Acquire(c)
          /\ UNCHANGED <<state, blocked, probing, inFlight, paced, timer>>
    /\ UNCHANGED <<cached, authFailed>>

ReturnKeepingFailed(c) ==
    /\ caller[c].phase = "joined" /\ Ended(caller[c].on)
    /\ caller' = [caller EXCEPT ![c].phase =
                      IF fetch[caller[c].on].phase = "stored" THEN "answered" ELSE "refused"]
    /\ pending' = [pending EXCEPT ![KeyOf(c)] =
                      IF @ = caller[c].on /\ fetch[@].phase = "stored" THEN None ELSE @]
    /\ UNCHANGED <<fetch, cached, authFailed, coordinator>>

\* A joined fetch has ended: its caller resumes, and removes that fetch, and no
\* other, from _pending.
Return(c) ==
    /\ caller[c].phase = "joined" /\ Ended(caller[c].on)
    /\ caller' = [caller EXCEPT ![c].phase =
                      IF fetch[caller[c].on].phase = "stored" THEN "answered" ELSE "refused"]
    /\ pending' = [pending EXCEPT ![KeyOf(c)] = IF @ = caller[c].on THEN None ELSE @]
    /\ UNCHANGED <<fetch, cached, authFailed, coordinator>>

-----------------------------------------------------------------------------
(* _fetch() *)

Step(t, phase) ==
    fetch' = [fetch EXCEPT ![t].phase = phase, ![t].lease = "none"]

\* The next attempt, if the policy allows one: acquire() follows release()
\* with no await that suspends.
Again(t) ==
    /\ fetch[t].attempt < Attempts
    /\ fetch' = [fetch EXCEPT ![t] = [phase |-> "queued", attempt |-> @.attempt + 1,
                                      lease |-> "none"]]
    /\ queue' = Queued(queue, t)

Last(t) == fetch[t].attempt = Attempts

Succeeds(t) ==
    /\ fetch[t].phase = "leased"
    /\ Release(fetch[t].lease, "success")
    /\ Step(t, "storing")
    /\ awake' = TRUE
    /\ UNCHANGED <<caller, pending, cached, authFailed, queue, paced, timer>>

\* 429 or a notice of the minute's quota: the next attempt queues at once.
MinuteLimit(t) ==
    /\ fetch[t].phase = "leased"
    /\ Release(fetch[t].lease, "minute")
    /\ \/ Again(t)
       \/ Last(t) /\ Step(t, "failed") /\ UNCHANGED queue
    /\ awake' = TRUE
    /\ UNCHANGED <<caller, pending, cached, authFailed, paced, timer>>

\* A notice of the day's quota ends the fetch.
DailyLimit(t) ==
    /\ fetch[t].phase = "leased"
    /\ Release(fetch[t].lease, "daily")
    /\ Step(t, "failed")
    /\ awake' = TRUE
    /\ UNCHANGED <<caller, pending, cached, authFailed, queue, paced, timer>>

\* Network errors, 5xx and transient notices back off; other errors end it.
Transient(t) ==
    /\ fetch[t].phase = "leased"
    /\ Release(fetch[t].lease, "transient")
    /\ \/ ~Last(t) /\ Step(t, "backoff")
       \/ Step(t, "failed")
    /\ awake' = TRUE
    /\ UNCHANGED <<caller, pending, cached, authFailed, queue, paced, timer>>

\* The credentials are rejected: released as a success.
AuthenticationFails(t) ==
    /\ fetch[t].phase = "leased"
    /\ authFailed' = TRUE
    /\ Release(fetch[t].lease, "success")
    /\ Step(t, "failed")
    /\ awake' = TRUE
    /\ UNCHANGED <<caller, pending, cached, queue, paced, timer>>

BackoffEnds(t) ==
    /\ fetch[t].phase = "backoff"
    /\ Again(t)
    /\ awake' = TRUE
    /\ UNCHANGED <<caller, pending, cached, authFailed, state, blocked, probing,
                   inFlight, paced, timer>>

\* The response is written to disk by a thread; if that fails, so does the fetch.
Store(t) ==
    /\ fetch[t].phase = "storing"
    /\ \/ Step(t, "stored") /\ cached' = cached \cup {KeyOf(t)}
       \/ Step(t, "failed") /\ UNCHANGED cached
    /\ UNCHANGED <<caller, pending, authFailed, coordinator>>

CacheExpires(k) ==
    /\ k \in cached
    /\ cached' = cached \ {k}
    /\ UNCHANGED <<caller, fetch, pending, authFailed, coordinator>>

-----------------------------------------------------------------------------

Answer(t) ==
    \/ Succeeds(t) \/ MinuteLimit(t) \/ DailyLimit(t) \/ Transient(t)
    \/ AuthenticationFails(t)

Query(c) == ReadCache(c) \/ Join(c) \/ Return(c)

Next ==
    \/ \E c \in Callers : Ask(c) \/ Query(c)
    \/ \E t \in Callers : Answer(t) \/ BackoffEnds(t) \/ Store(t)
    \/ Dispatch \/ DispatcherWaits \/ PacePasses \/ BlockPasses
    \/ \E k \in Keys : CacheExpires(k)

Spec == Init /\ [][Next]_vars

\* The event loop runs what is ready, time passes, and every request is
\* answered or times out.  A call and the fetch it created are never both ready,
\* so that one condition covers the steps of the two.
FairSpec ==
    /\ Spec
    /\ \A c \in Callers : WF_vars(Query(c) \/ Answer(c) \/ BackoffEnds(c) \/ Store(c))
    /\ WF_vars(Dispatch \/ DispatcherWaits) /\ WF_vars(PacePasses) /\ WF_vars(BlockPasses)

-----------------------------------------------------------------------------
(* Properties *)

\* The coordinator's books agree with what is out: its count is exactly the
\* leases, so that capacity neither leaks away nor is handed out twice, and it
\* holds back further probes only while one is really out, because a flag left
\* behind would stop all requests for ever.
LeasesAreAccounted ==
    /\ TypeOK
    /\ inFlight = Cardinality(Leased)
    /\ probing => Probes # {}

\* One upstream fetch per key at a time, however the calls that share it end.
OneFetchPerKey ==
    \A t, u \in Callers :
        (t # u /\ KeyOf(t) = KeyOf(u)) =>
            ~(/\ fetch[t].phase # "none" /\ ~Ended(t)
              /\ fetch[u].phase # "none" /\ ~Ended(u))

\* An ended fetch is in _pending only as long as one of its callers has not
\* resumed: later calls get neither its old answer nor its old failure.
NoStaleFetch ==
    \A k \in Keys : LET t == pending[k] IN
        (t # None /\ Ended(t)) =>
            \E c \in Callers : caller[c].phase = "joined" /\ caller[c].on = t

\* Callers that want the same share one fetch, and no more than its answer.
FetchesAreShared == OneFetchPerKey /\ NoStaleFetch

\* Every call returns: no wake-up of the dispatcher is lost, no probe waited
\* for in vain, no queue forgotten after a cooldown.  (A caller of the model
\* calls once, so that in the end no call is under way.)
EveryCallReturns ==
    <>[](\A c \in Callers : caller[c].phase \in {"idle", "answered", "refused"})
=============================================================================
