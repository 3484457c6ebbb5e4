---------------------------- MODULE ServicesProofs ----------------------------
(***************************************************************************)
(* What the services beside the execution of runs guarantee, for every     *)
(* number of runs, workers, samples and attempts: the data gate on its     *)
(* own, then the breakers, and last the services side by side, where the   *)
(* proofs about the validation jobs and about the webhooks are used.       *)
(***************************************************************************)
EXTENDS MCServices, SequenceTheorems, WellFoundedInduction, TLAPS

-----------------------------------------------------------------------------
(* The data gate *)

\* A row without a run has no requirement, and no manifest is pinned before a
\* run has passed the gate.
Unused ==
    \A r \in Runs :
        /\ status[r] = "absent" => req[r].status = "none"
        /\ status[r] \in {"absent", "waiting_for_data"} => config[r] = None

\* The gate has turned down what its requirement says it has, and pinned nothing:
\* such a run is not among those a recovery returns to the queue.
TurnedDown ==
    \A r \in Runs : req[r].status \in Settled \ {"ready"} =>
                        status[r] = req[r].status /\ config[r] = None

\* Only a waiting requirement is claimed.
HeldIsWaiting == \A r \in Runs : req[r].holder # None => req[r].status = "waiting"

\* A cancellation holds the row of a run it has found waiting.
CancelledIsWaiting == \A r \in cancelling : status[r] = "waiting_for_data"

\* A poller that is busy is so with a run, and once it has heard, with an answer.
BusyWithRun ==
    \A p \in Pollers :
        /\ poller[p].phase # "idle" => poller[p].run \in Runs
        /\ poller[p].phase \in {"answered", "locked"} => poller[p].answer \in Answers

IInv ==
    /\ TypeOK
    /\ Unused /\ TurnedDown /\ HeldIsWaiting /\ CancelledIsWaiting /\ BusyWithRun
    /\ GateAgrees /\ ReadyIsVerified /\ WriterHoldsClaim

LEMMA IInvInit == Init => IInv
BY ConstantsAssumption
DEF Init, IInv, TypeOK, Unused, TurnedDown, Settled, HeldIsWaiting, CancelledIsWaiting,
    BusyWithRun, GateAgrees, ReadyIsVerified, WriterHoldsClaim, Idle, NoRequirement

-----------------------------------------------------------------------------
(* The effect of a step on one run and its requirement.                    *)

Kept(r) == status'[r] = status[r] /\ config'[r] = config[r] /\ req'[r] = req[r]

Created(r) ==
    /\ status[r] = "absent"
    /\ \/ /\ status'[r] = "waiting_for_data" /\ req'[r] = Waiting(TRUE)
          /\ config'[r] = config[r]
       \/ status'[r] = "queued" /\ req'[r] = req[r] /\ config'[r] \in Manifests

\* A claim, its end, or the passage of time: the requirement goes on waiting.
Polled(r) ==
    /\ req[r].status = "waiting" /\ req'[r].status = "waiting"
    /\ status'[r] = status[r] /\ config'[r] = config[r]

Decided(r) ==
    /\ status[r] = "waiting_for_data" /\ req[r].status = "waiting"
    /\ \E outcome \in Settled :
          /\ req'[r] = Closed(outcome)
          /\ IF outcome = "ready"
             THEN status'[r] = "queued" /\ config'[r] = "sound"
             ELSE status'[r] = outcome /\ config'[r] = config[r]

\* Among what happens to a run that passed the gate: it is parked and returned.
GoesOn(r) ==
    /\ \/ status[r] \in {"queued", "admitted"}
       \/ status[r] = "needs_attention" /\ config[r] # None
    /\ status'[r] \in {"admitted"} \cup Ended
    /\ config'[r] = config[r] /\ req'[r] = req[r]

RowStep(r) == Kept(r) \/ Created(r) \/ Polled(r) \/ Decided(r) \/ GoesOn(r)

\* Every transaction treats every run in one of these ways.
LEMMA RowSteps ==
    ASSUME IInv, [Next]_vars, NEW q \in Runs
    PROVE  RowStep(q)
<1> USE ConstantsAssumption DEF RowStep, Kept
<1>a. /\ status \in [Runs -> {"absent", "waiting_for_data", "queued", "admitted"} \cup Ended]
      /\ config \in [Runs -> Manifests \cup {None}]
      /\ DOMAIN req = Runs
  BY DEF IInv, TypeOK
<1>b. \A p \in Pollers : poller[p].phase = "locked" =>
          /\ poller[p].run \in Runs /\ poller[p].answer \in Answers
          /\ req[poller[p].run].status = "waiting"
          /\ status[poller[p].run] = "waiting_for_data"
  BY DEF IInv, WriterHoldsClaim, GateAgrees, BusyWithRun
<1>1. ASSUME NEW r \in Runs, Submit(r) PROVE RowStep(q)
  BY <1>a, <1>1 DEF Submit, Resolve, Created
<1>2. ASSUME NEW r \in Runs, NEW new \in Runs, Retry(r, new) PROVE RowStep(q)
  BY <1>a, <1>2 DEF Retry, Resolve, Created
<1>3. ASSUME NEW r \in Runs, CancelQueued(r) \/ Admit(r) \/ End(r) \/ Park(r) \/ Resume(r)
      PROVE  RowStep(q)
  BY <1>a, <1>3 DEF CancelQueued, Admit, End, Park, Resume, Ended, GoesOn
<1>4. ASSUME NEW r \in Runs, CancelLocks(r) PROVE RowStep(q)
  BY <1>4 DEF CancelLocks
<1>5. ASSUME NEW r \in Runs, Cancel(r) PROVE RowStep(q)
  <2>1. status[r] = "waiting_for_data" /\ req[r].status = "waiting"
    BY <1>5 DEF Cancel, IInv, CancelledIsWaiting, GateAgrees
  <2> QED
    BY <1>a, <1>5, <2>1 DEF Cancel, Decided, Settled, Ended
<1>6. ASSUME NEW r \in Runs, NEW p \in Pollers, Claim(p, r) PROVE RowStep(q)
  <2>1. req' = [req EXCEPT ![r] = [[@ EXCEPT !.holder = p] EXCEPT !.expired = FALSE]]
    BY <1>6 DEF Claim
  <2>2. req'[q] = req[q] \/ (q = r /\ req'[q].status = req[q].status)
    BY <1>a, <2>1 DEF IInv, TypeOK
  <2> QED
    BY <1>6, <2>2 DEF Claim, Polled
<1>7. ASSUME NEW p \in Pollers, NEW answer \in Answers, Hear(p, answer) PROVE RowStep(q)
  BY <1>7 DEF Hear
<1>8. ASSUME NEW p \in Pollers, Lock(p) PROVE RowStep(q)
  BY <1>8 DEF Lock
<1>9. ASSUME NEW p \in Pollers, Apply(p) PROVE RowStep(q)
  <2> DEFINE r == poller[p].run
  <2>1. r \in Runs /\ req[r].status = "waiting" /\ status[r] = "waiting_for_data"
    BY <1>b, <1>9 DEF Apply
  <2>2. CASE Release(r)
    BY <1>a, <2>1, <2>2 DEF Release, Waiting, Polled
  <2>3. CASE Finish(r, "failed") \/ Finish(r, "needs_attention")
    BY <1>a, <2>1, <2>3 DEF Finish, Decided, Settled, Ended
  <2>4. CASE QueueRun(r, "sound")
    BY <1>a, <2>1, <2>4 DEF QueueRun, Decided, Settled
  <2> QED
    BY <1>9, <2>2, <2>3, <2>4 DEF Apply, Verified
<1>10. ASSUME NEW p \in Pollers, Crash(p) \/ CancelIsVictim(p) PROVE RowStep(q)
  BY <1>10 DEF Crash, CancelIsVictim
<1>11. ASSUME NEW r \in Runs, LeaseExpires(r) \/ PollIsDue(r) PROVE RowStep(q)
  <2>1. req[r].status = "waiting"
    BY <1>11 DEF LeaseExpires, PollIsDue, IInv, HeldIsWaiting
  <2>2. req'[q] = req[q] \/ (q = r /\ req'[q].status = req[q].status)
    BY <1>a, <1>11 DEF LeaseExpires, PollIsDue, IInv, TypeOK
  <2> QED
    BY <1>11, <2>1, <2>2 DEF LeaseExpires, PollIsDue, Polled
<1>12. CASE UNCHANGED vars
  BY <1>12 DEF vars
<1> QED
  BY <1>1, <1>2, <1>3, <1>4, <1>5, <1>6, <1>7, <1>8, <1>9, <1>10, <1>11, <1>12 DEF Next

-----------------------------------------------------------------------------
(* The invariant.                                                          *)

Requirement == [status : {"none", "waiting"} \cup Settled, due : BOOLEAN,
                holder : Pollers \cup {None}, expired : BOOLEAN]

Seat == [phase : {"idle", "asking", "answered", "locked"},
         run : Runs \cup {None}, answer : Answers \cup {None}]

\* The records that the actions write, and the changes they make to one.
LEMMA Records ==
    /\ \A due \in BOOLEAN : Waiting(due) \in Requirement
    /\ \A outcome \in Settled : Closed(outcome) \in Requirement
    /\ \A x \in Requirement :
          /\ \A p \in Pollers :
                [[x EXCEPT !.holder = p] EXCEPT !.expired = FALSE] \in Requirement
          /\ [x EXCEPT !.expired = TRUE] \in Requirement
          /\ [x EXCEPT !.due = TRUE] \in Requirement
    /\ Idle \in Seat
    /\ \A r \in Runs : [Idle EXCEPT !.phase = "asking", !.run = r] \in Seat
    /\ \A x \in Seat :
          /\ \A answer \in Answers :
                [[x EXCEPT !.phase = "answered"] EXCEPT !.answer = answer] \in Seat
          /\ [x EXCEPT !.phase = "locked"] \in Seat
<1>1. \A due \in BOOLEAN : Waiting(due) \in Requirement
  BY DEF Waiting, Requirement
<1>2. \A outcome \in Settled : Closed(outcome) \in Requirement
  BY DEF Closed, Requirement, Settled
<1>3. ASSUME NEW x \in Requirement
      PROVE  /\ \A p \in Pollers :
                   [[x EXCEPT !.holder = p] EXCEPT !.expired = FALSE] \in Requirement
             /\ [x EXCEPT !.expired = TRUE] \in Requirement
             /\ [x EXCEPT !.due = TRUE] \in Requirement
  BY DEF Requirement
<1>4. Idle \in Seat
  BY DEF Idle, Seat
<1>5. \A r \in Runs : [Idle EXCEPT !.phase = "asking", !.run = r] \in Seat
  BY DEF Idle, Seat
<1>6. ASSUME NEW x \in Seat
      PROVE  /\ \A answer \in Answers :
                   [[x EXCEPT !.phase = "answered"] EXCEPT !.answer = answer] \in Seat
             /\ [x EXCEPT !.phase = "locked"] \in Seat
  BY DEF Seat
<1> QED
  BY <1>1, <1>2, <1>3, <1>4, <1>5, <1>6

LEMMA TypeStep == IInv /\ [Next]_vars => TypeOK'
<1> SUFFICES ASSUME IInv, [Next]_vars PROVE TypeOK'
  OBVIOUS
<1> DEFINE Status == {"absent", "waiting_for_data", "queued", "admitted"} \cup Ended
           Pinned == Manifests \cup {None}
           Typed == /\ status \in [Runs -> Status] /\ config \in [Runs -> Pinned]
                    /\ req \in [Runs -> Requirement] /\ poller \in [Pollers -> Seat]
                    /\ cancelling \subseteq Runs /\ crashes \in 0 .. MaxCrashes
<1>a. Typed
  BY DEF IInv, TypeOK, Requirement, Seat
<1>b. Typed' => TypeOK'
  BY DEF TypeOK, Requirement, Seat
<1>c. {"waiting_for_data", "queued", "admitted"} \cup Ended \subseteq Status
  OBVIOUS
<1>d. Manifests \subseteq Pinned /\ {"failed", "needs_attention", "cancelled"} \subseteq Ended
  BY DEF Ended
<1>e. \A n \in 0 .. MaxCrashes : n < MaxCrashes => n + 1 \in 0 .. MaxCrashes
  BY ConstantsAssumption
<1> HIDE DEF Status, Pinned
<1> USE <1>a, <1>c, <1>d, Records
<1>1. ASSUME NEW r \in Runs, Submit(r) PROVE Typed'
  BY <1>1 DEF Submit, Resolve
<1>2. ASSUME NEW r \in Runs, NEW new \in Runs, Retry(r, new) PROVE Typed'
  <2>1. CASE config[r] = None
    BY <1>2, <2>1 DEF Retry, Resolve
  <2>2. CASE config[r] # None
    BY <1>2, <2>2 DEF Retry
  <2> QED
    BY <2>1, <2>2
<1>3. ASSUME NEW r \in Runs, CancelQueued(r) \/ Admit(r) \/ End(r) \/ Park(r) \/ Resume(r)
      PROVE  Typed'
  BY <1>3 DEF CancelQueued, Admit, End, Park, Resume
<1>4. ASSUME NEW r \in Runs, CancelLocks(r) PROVE Typed'
  BY <1>4 DEF CancelLocks
<1>5. ASSUME NEW r \in Runs, Cancel(r) PROVE Typed'
  BY <1>5 DEF Cancel, Settled
<1>6. ASSUME NEW r \in Runs, NEW p \in Pollers, Claim(p, r) PROVE Typed'
  <2> DEFINE claimed == [[req[r] EXCEPT !.holder = p] EXCEPT !.expired = FALSE]
             seat == [Idle EXCEPT !.phase = "asking", !.run = r]
  <2>1. claimed \in Requirement /\ seat \in Seat
    <3>1. req[r] \in Requirement
      OBVIOUS
    <3> QED
      BY <3>1
  <2>2. req' = [req EXCEPT ![r] = claimed]
    BY <1>6 DEF Claim
  <2>3. poller' = [poller EXCEPT ![p] = seat] /\ UNCHANGED <<status, config, cancelling, crashes>>
    BY <1>6 DEF Claim
  <2> HIDE DEF claimed, seat
  <2> QED
    BY <2>1, <2>2, <2>3
<1>7. ASSUME NEW p \in Pollers, NEW answer \in Answers, Hear(p, answer) PROVE Typed'
  <2> DEFINE seat == [[poller[p] EXCEPT !.phase = "answered"] EXCEPT !.answer = answer]
  <2>1. seat \in Seat
    <3>1. poller[p] \in Seat
      OBVIOUS
    <3> QED
      BY <3>1
  <2>2. /\ poller' = [poller EXCEPT ![p] = seat]
        /\ UNCHANGED <<status, config, req, cancelling, crashes>>
    BY <1>7 DEF Hear
  <2> HIDE DEF seat
  <2> QED
    BY <2>1, <2>2
<1>8. ASSUME NEW p \in Pollers, Lock(p) PROVE Typed'
  BY <1>8 DEF Lock
<1>9. ASSUME NEW p \in Pollers, Apply(p) PROVE Typed'
  <2> DEFINE r == poller[p].run
  <2>1. r \in Runs
    BY <1>9 DEF Apply, IInv, BusyWithRun
  <2>2. /\ poller' = [poller EXCEPT ![p] = Idle]
        /\ UNCHANGED <<cancelling, crashes>>
        /\ \/ Release(r) \/ Finish(r, "failed") \/ Finish(r, "needs_attention")
           \/ QueueRun(r, "sound")
    BY <1>9 DEF Apply, Verified
  <2> HIDE DEF r
  <2>3. CASE Release(r)
    BY <2>1, <2>2, <2>3 DEF Release
  <2>4. ASSUME NEW outcome \in {"failed", "needs_attention"}, Finish(r, outcome) PROVE Typed'
    BY <2>1, <2>2, <2>4 DEF Finish, Settled
  <2>5. CASE QueueRun(r, "sound")
    BY <2>1, <2>2, <2>5 DEF QueueRun, Settled, Manifests
  <2> QED
    BY <2>2, <2>3, <2>4, <2>5
<1>10. ASSUME NEW p \in Pollers, Crash(p) PROVE Typed'
  <2>1. crashes' \in 0 .. MaxCrashes
    BY <1>e, <1>10 DEF Crash
  <2> QED
    BY <1>10, <2>1 DEF Crash
<1>11. ASSUME NEW p \in Pollers, CancelIsVictim(p) PROVE Typed'
  BY <1>11 DEF CancelIsVictim
<1>12. ASSUME NEW r \in Runs, LeaseExpires(r) PROVE Typed'
  <2> DEFINE new == [req[r] EXCEPT !.expired = TRUE]
  <2>1. new \in Requirement
    <3>1. req[r] \in Requirement
      OBVIOUS
    <3> QED
      BY <3>1
  <2>2. req' = [req EXCEPT ![r] = new] /\ UNCHANGED <<status, config, poller, cancelling, crashes>>
    BY <1>12 DEF LeaseExpires
  <2> HIDE DEF new
  <2> QED
    BY <2>1, <2>2
<1>13. ASSUME NEW r \in Runs, PollIsDue(r) PROVE Typed'
  <2> DEFINE new == [req[r] EXCEPT !.due = TRUE]
  <2>1. new \in Requirement
    <3>1. req[r] \in Requirement
      OBVIOUS
    <3> QED
      BY <3>1
  <2>2. req' = [req EXCEPT ![r] = new] /\ UNCHANGED <<status, config, poller, cancelling, crashes>>
    BY <1>13 DEF PollIsDue
  <2> HIDE DEF new
  <2> QED
    BY <2>1, <2>2
<1>14. ASSUME UNCHANGED vars PROVE Typed'
  BY <1>14 DEF vars
<1> QED
  BY <1>b, <1>1, <1>2, <1>3, <1>4, <1>5, <1>6, <1>7, <1>8, <1>9, <1>10, <1>11, <1>12, <1>13,
     <1>14
  DEF Next

\* Run and requirement move together, and a manifest is pinned once.
LEMMA RowInvariants ==
    IInv /\ [Next]_vars =>
        Unused' /\ TurnedDown' /\ HeldIsWaiting' /\ GateAgrees' /\ ReadyIsVerified'
<1> SUFFICES ASSUME IInv, [Next]_vars, NEW q \in Runs
             PROVE  /\ status'[q] = "absent" => req'[q].status = "none"
                    /\ status'[q] \in {"absent", "waiting_for_data"} => config'[q] = None
                    /\ req'[q].status \in Settled \ {"ready"} =>
                          status'[q] = req'[q].status /\ config'[q] = None
                    /\ req'[q].holder # None => req'[q].status = "waiting"
                    /\ status'[q] = "waiting_for_data" <=> req'[q].status = "waiting"
                    /\ req'[q].status = "ready" => config'[q] = "sound"
  BY DEF Unused, TurnedDown, HeldIsWaiting, GateAgrees, ReadyIsVerified
<1>1. RowStep(q)
  BY RowSteps
<1>2. /\ status[q] = "absent" => req[q].status = "none"
      /\ status[q] \in {"absent", "waiting_for_data"} => config[q] = None
      /\ req[q].status \in Settled \ {"ready"} => status[q] = req[q].status /\ config[q] = None
      /\ req[q].holder # None => req[q].status = "waiting"
      /\ status[q] = "waiting_for_data" <=> req[q].status = "waiting"
      /\ req[q].status = "ready" => config[q] = "sound"
  BY DEF IInv, Unused, TurnedDown, HeldIsWaiting, GateAgrees, ReadyIsVerified
<1>3. CASE Kept(q) \/ Polled(q) \/ GoesOn(q)
  BY <1>2, <1>3 DEF Kept, Polled, GoesOn, Ended, Settled
<1>4. CASE Created(q)
  BY <1>2, <1>4 DEF Created, Waiting, Settled
<1>5. CASE Decided(q)
  BY <1>2, <1>5 DEF Decided, Closed, Settled, Ended
<1> QED
  BY <1>1, <1>3, <1>4, <1>5 DEF RowStep

\* A cancellation has its run locked, and only a poller that waited for it can
\* decide otherwise, which it does not get to do before the cancellation ends.
LEMMA CancellationStep == IInv /\ [Next]_vars => CancelledIsWaiting'
<1> SUFFICES ASSUME IInv, [Next]_vars, NEW q \in cancelling' PROVE status'[q] = "waiting_for_data"
  BY DEF CancelledIsWaiting
<1>a. /\ cancelling \subseteq Runs
      /\ status \in [Runs -> {"absent", "waiting_for_data", "queued", "admitted"} \cup Ended]
      /\ \A r \in cancelling : status[r] = "waiting_for_data"
  BY DEF IInv, TypeOK, CancelledIsWaiting
<1> USE <1>a
<1>1. ASSUME NEW r \in Runs, Submit(r) PROVE status'[q] = "waiting_for_data"
  BY <1>1 DEF Submit, Resolve
<1>2. ASSUME NEW r \in Runs, NEW new \in Runs, Retry(r, new) PROVE status'[q] = "waiting_for_data"
  BY <1>2 DEF Retry, Resolve
<1>3. ASSUME NEW r \in Runs, CancelQueued(r) \/ Admit(r) \/ End(r) \/ Park(r) \/ Resume(r)
      PROVE  status'[q] = "waiting_for_data"
  BY <1>3 DEF CancelQueued, Admit, End, Park, Resume
<1>4. ASSUME NEW r \in Runs, CancelLocks(r) \/ Cancel(r) PROVE status'[q] = "waiting_for_data"
  BY <1>4 DEF CancelLocks, Cancel
<1>5. ASSUME NEW p \in Pollers, Apply(p) PROVE status'[q] = "waiting_for_data"
  <2>1. /\ cancelling' = cancelling
        /\ \/ status' = status
           \/ /\ poller[p].run \notin cancelling
              /\ \E new : status' = [status EXCEPT ![poller[p].run] = new]
    BY <1>5 DEF Apply, Release, Finish, QueueRun, Decisions
  <2> QED
    BY <2>1
<1>6. ASSUME NEW p \in Pollers, CancelIsVictim(p) PROVE status'[q] = "waiting_for_data"
  BY <1>6 DEF CancelIsVictim
<1>7. CASE UNCHANGED <<status, cancelling>>
  BY <1>7
<1>8. ASSUME NEW p \in Pollers, NEW r \in Runs, Claim(p, r)
      PROVE  UNCHANGED <<status, cancelling>>
  BY <1>8 DEF Claim
<1>9. ASSUME NEW r \in Runs, LeaseExpires(r) \/ PollIsDue(r)
      PROVE  UNCHANGED <<status, cancelling>>
  BY <1>9 DEF LeaseExpires, PollIsDue
<1>10. ASSUME NEW p \in Pollers,
             (\E answer \in Answers : Hear(p, answer)) \/ Lock(p) \/ Crash(p)
      PROVE  UNCHANGED <<status, cancelling>>
  BY <1>10 DEF Hear, Lock, Crash
<1> QED
  BY <1>1, <1>2, <1>3, <1>4, <1>5, <1>6, <1>7, <1>8, <1>9, <1>10 DEF Next, vars

-----------------------------------------------------------------------------
(* The pollers.                                                            *)

\* What the invariant says of one poller.
SeatIsGood(p) ==
    /\ poller[p].phase # "idle" => poller[p].run \in Runs
    /\ poller[p].phase \in {"answered", "locked"} => poller[p].answer \in Answers
    /\ poller[p].phase = "locked" =>
          req[poller[p].run].holder = p /\ status[poller[p].run] = "waiting_for_data"

\* While a poller is locked nothing else takes its run from it: not another
\* poller, nor a cancellation.
LEMMA PollerSteps ==
    ASSUME IInv, [Next]_vars, NEW p \in Pollers
    PROVE  SeatIsGood(p)'
<1>a. /\ DOMAIN req = Runs /\ DOMAIN status = Runs /\ DOMAIN poller = Pollers
      /\ cancelling \subseteq Runs
      /\ \A r \in Runs : DOMAIN req[r] = {"status", "due", "holder", "expired"}
      /\ \A s \in Pollers : DOMAIN poller[s] = {"phase", "run", "answer"}
  BY DEF IInv, TypeOK
<1>b. \A s \in Pollers : SeatIsGood(s)
  BY DEF IInv, SeatIsGood, BusyWithRun, WriterHoldsClaim
<1>c. /\ \A r \in Runs : status[r] = "waiting_for_data" <=> req[r].status = "waiting"
      /\ \A r \in Runs : req[r].holder # None => req[r].status = "waiting"
  BY DEF IInv, GateAgrees, HeldIsWaiting
<1> USE <1>a, <1>b
\* Steps that leave p alone need only leave its run alone.
<1>k. ASSUME poller'[p] = poller[p],
             poller[p].phase = "locked" =>
                 /\ req'[poller[p].run].holder = req[poller[p].run].holder
                 /\ status'[poller[p].run] = status[poller[p].run]
      PROVE  SeatIsGood(p)'
  BY <1>k DEF SeatIsGood
<1>i. ASSUME poller'[p] = Idle PROVE SeatIsGood(p)'
  BY <1>i DEF SeatIsGood, Idle
<1>1. ASSUME NEW r \in Runs, Submit(r) PROVE SeatIsGood(p)'
  BY <1>1, <1>k DEF Submit, Resolve, SeatIsGood
<1>2. ASSUME NEW r \in Runs, NEW new \in Runs, Retry(r, new) PROVE SeatIsGood(p)'
  BY <1>2, <1>k DEF Retry, Resolve, SeatIsGood
<1>3. ASSUME NEW r \in Runs, CancelQueued(r) \/ Admit(r) \/ End(r) \/ Park(r) \/ Resume(r)
      PROVE  SeatIsGood(p)'
  BY <1>3, <1>k DEF CancelQueued, Admit, End, Park, Resume, SeatIsGood
<1>4. ASSUME NEW r \in Runs, CancelLocks(r) PROVE SeatIsGood(p)'
  BY <1>4, <1>k DEF CancelLocks
<1>5. ASSUME NEW r \in Runs, Cancel(r) PROVE SeatIsGood(p)'
  BY <1>5, <1>k DEF Cancel
<1>6. ASSUME NEW r \in Runs, NEW s \in Pollers, Claim(s, r) PROVE SeatIsGood(p)'
  <2>1. CASE s = p
    BY <1>6, <2>1 DEF Claim, Idle, SeatIsGood
  <2>2. CASE s # p
    <3>1. poller'[p] = poller[p] /\ status' = status
      BY <1>6, <2>2 DEF Claim
    <3>2. poller[p].phase = "locked" => poller[p].run # r
      BY <1>6 DEF Claim, Locked
    <3>3. \A q \in Runs \ {r} : req'[q] = req[q]
      BY <1>6 DEF Claim
    <3> QED
      BY <3>1, <3>2, <3>3, <1>k DEF SeatIsGood
  <2> QED
    BY <2>1, <2>2
<1>7. ASSUME NEW s \in Pollers, NEW answer \in Answers, Hear(s, answer) PROVE SeatIsGood(p)'
  <2>1. CASE s = p
    BY <1>7, <2>1 DEF Hear, SeatIsGood
  <2>2. CASE s # p
    BY <1>7, <2>2, <1>k DEF Hear
  <2> QED
    BY <2>1, <2>2
<1>8. ASSUME NEW s \in Pollers, Lock(s) PROVE SeatIsGood(p)'
  <2>1. CASE s # p
    BY <1>8, <2>1, <1>k DEF Lock
  <2>2. CASE s = p /\ req[poller[p].run].holder # p
    BY <1>8, <2>2, <1>i DEF Lock
  <2>3. CASE s = p /\ req[poller[p].run].holder = p
    <3>1. /\ poller[p].phase = "answered"
          /\ poller'[p] = [poller[p] EXCEPT !.phase = "locked"]
          /\ UNCHANGED <<req, status>>
      BY <1>8, <2>3 DEF Lock
    <3>2. status[poller[p].run] = "waiting_for_data"
      BY <3>1, <2>3, <1>c, ConstantsAssumption DEF SeatIsGood
    <3> QED
      BY <3>1, <3>2, <2>3 DEF SeatIsGood
  <2> QED
    BY <2>1, <2>2, <2>3
<1>9. ASSUME NEW s \in Pollers, Apply(s) PROVE SeatIsGood(p)'
  <2> DEFINE r == poller[s].run
  <2>1. /\ poller' = [poller EXCEPT ![s] = Idle]
        /\ poller[s].phase = "locked"
        /\ \E new : req' = [req EXCEPT ![r] = new]
        /\ status' = status \/ \E new : status' = [status EXCEPT ![r] = new]
    BY <1>9 DEF Apply, Release, Finish, QueueRun
  <2>2. CASE s = p
    BY <2>1, <2>2, <1>i
  <2>3. CASE s # p
    <3>1. poller[p].phase = "locked" => poller[p].run # r
      BY <2>1, <2>3 DEF SeatIsGood
    <3>2. \A q \in Runs \ {r} : req'[q] = req[q] /\ status'[q] = status[q]
      BY <2>1
    <3>3. poller'[p] = poller[p]
      BY <2>1, <2>3
    <3> QED
      BY <3>1, <3>2, <3>3, <1>k DEF SeatIsGood
  <2> QED
    BY <2>2, <2>3
<1>10. ASSUME NEW s \in Pollers, Crash(s) \/ CancelIsVictim(s) PROVE SeatIsGood(p)'
  BY <1>10, <1>k, <1>i DEF Crash, CancelIsVictim
<1>11. ASSUME NEW r \in Runs, LeaseExpires(r) \/ PollIsDue(r) PROVE SeatIsGood(p)'
  <2>1. /\ UNCHANGED <<status, poller>>
        /\ \A q \in Runs : req'[q].holder = req[q].holder
    BY <1>11 DEF LeaseExpires, PollIsDue
  <2> QED
    BY <2>1, <1>k DEF SeatIsGood
<1>12. CASE UNCHANGED vars
  BY <1>12, <1>k DEF vars
<1> QED
  BY <1>1, <1>2, <1>3, <1>4, <1>5, <1>6, <1>7, <1>8, <1>9, <1>10, <1>11, <1>12 DEF Next

LEMMA PollerInvariants == IInv /\ [Next]_vars => BusyWithRun' /\ WriterHoldsClaim'
<1> SUFFICES ASSUME IInv, [Next]_vars PROVE BusyWithRun' /\ WriterHoldsClaim'
  OBVIOUS
<1>1. \A p \in Pollers : SeatIsGood(p)'
  BY PollerSteps
<1> QED
  BY <1>1 DEF SeatIsGood, BusyWithRun, WriterHoldsClaim

LEMMA Invariance == Spec => []IInv
<1>1. IInv /\ [Next]_vars => IInv'
  BY TypeStep, RowInvariants, CancellationStep, PollerInvariants DEF IInv
<1> QED
  BY <1>1, IInvInit, PTL DEF Spec

-----------------------------------------------------------------------------
(* Theorems                                                                *)

\* Every row and every poller stays within its type, whatever the interleaving.
THEOREM Typing == Spec => []TypeOK
BY Invariance, PTL DEF IInv

\* The run and its requirement wait together, for any number of pollers, crashes
\* and cancellations: apply_* and cancel_data_requirement write both rows.
THEOREM GateAgreement == Spec => []GateAgrees
BY Invariance, PTL DEF IInv

\* What passed the gate was verified: apply_ready is reached through the check of
\* the manifest's hash only.
THEOREM Verification == Spec => []ReadyIsVerified
BY Invariance, PTL DEF IInv

\* The compare of the claim in _locked keeps late answers out.
THEOREM Claiming == Spec => []WriterHoldsClaim
BY Invariance, PTL DEF IInv

\* What the gate has turned down and what has ended stays so, whatever recovery
\* returns to the queue, and a pinned manifest is not replaced.
THEOREM Finality == Spec => SettledIsFinal
<1>1. ASSUME IInv, [Next]_vars, NEW r \in Runs
      PROVE  /\ req[r].status \in Settled => req'[r] = req[r]
             /\ config[r] # None => config'[r] = config[r]
             /\ \/ req[r].status \in Settled \ {"ready"}
                \/ status[r] \in Ended \ {"needs_attention"}
                => status'[r] = status[r]
  <2>1. RowStep(r)
    BY <1>1, RowSteps
  <2>2. /\ status[r] = "absent" => req[r].status = "none"
        /\ status[r] \in {"absent", "waiting_for_data"} => config[r] = None
        /\ req[r].status \in Settled \ {"ready"} => status[r] = req[r].status /\ config[r] = None
    BY <1>1 DEF IInv, Unused, TurnedDown
  <2> QED
    BY <2>1, <2>2 DEF RowStep, Kept, Created, Polled, Decided, GoesOn, Settled, Ended
<1>2. IInv /\ [Next]_vars =>
          [\A r \in Runs :
              /\ req[r].status \in Settled => req'[r] = req[r]
              /\ config[r] # None => config'[r] = config[r]
              /\ \/ req[r].status \in Settled \ {"ready"}
                 \/ status[r] \in Ended \ {"needs_attention"}
                 => status'[r] = status[r]]_vars
  BY <1>1
<1> QED
  BY <1>2, Invariance, PTL DEF Spec, SettledIsFinal

-----------------------------------------------------------------------------
(* Circuit breakers *)

\* Rows of breakers that closed ones have forgotten their escalation in, and in which
\* no breaker is on probe that was not before.
InOrder(before) ==
    {rows \in [Breakers -> Circuits!Row] : \A b \in Breakers :
        /\ rows[b].status = "open" <=> rows[b].until # "none"
        /\ rows[b].status = "closed" => rows[b].backoff = Circuits!InitialBackoff
        /\ rows[b].status = "half_open" => before[b].status = "half_open"}

CircuitsInv == Circuits!TypeOK /\ Circuits!ClosedForgets /\ Circuits!ProbeIsAlone

LEMMA LeastNumber ==
    ASSUME NEW S \in SUBSET Nat, S # {}
    PROVE  \E x \in S : \A y \in S : x <= y
<1>1. PICK x \in S : \A y \in S : ~(<<y, x>> \in OpToRel(<, Nat))
  BY NatLessThanWellFounded, WFMin
<1>2. \A a, b \in Nat : a < b => <<a, b>> \in OpToRel(<, Nat)
  BY DEF OpToRel
<1>3. ASSUME NEW y \in S PROVE x <= y
  <2>1. x \in Nat /\ y \in Nat
    OBVIOUS
  <2>2. ~(y < x)
    BY <1>1, <1>2, <2>1, Zenon
  <2> QED
    BY <2>1, <2>2
<1> QED
  BY <1>3

\* A set of numbers that goes on from each number to the next has them all.
LEMMA UpTo ==
    ASSUME NEW N \in Nat, NEW S, 0 \in S, \A n \in 0 .. N : n # N /\ n \in S => n + 1 \in S
    PROVE  0 .. N \subseteq S
<1> DEFINE missing == {n \in 0 .. N : n \notin S}
<1> SUFFICES ASSUME missing # {} PROVE FALSE
  OBVIOUS
<1>1. missing \in SUBSET Nat
  OBVIOUS
<1>2. PICK m \in missing : \A n \in missing : m <= n
  <2> HIDE DEF missing
  <2> QED
    BY <1>1, LeastNumber
<1>3. m \in 1 .. N /\ m - 1 \in 0 .. N /\ m - 1 # N /\ (m - 1) + 1 = m
  BY <1>2
<1>4. m - 1 \in S
  BY <1>2, <1>3
<1> QED
  BY <1>2, <1>3, <1>4

\* What a row is when its deadline is set, or its status and its pause as well.
Timed(row, until) == [row EXCEPT !.until = until]
Turned(row, to, until) == [row EXCEPT !.status = to, !.until = until]
Paused(row, to, until, backoff) ==
    [row EXCEPT !.status = to, !.until = until, !.backoff = backoff]

IsSet(R, row, to, until, backoff) ==
    /\ Timed(row, until) \in R
    /\ Timed(row, until).status = row.status
    /\ Timed(row, until).until = until
    /\ Timed(row, until).backoff = row.backoff
    /\ Turned(row, to, until) \in R
    /\ Turned(row, to, until).status = to
    /\ Turned(row, to, until).until = until
    /\ Turned(row, to, until).backoff = row.backoff
    /\ Paused(row, to, until, backoff) \in R
    /\ Paused(row, to, until, backoff).status = to
    /\ Paused(row, to, until, backoff).until = until
    /\ Paused(row, to, until, backoff).backoff = backoff

RowsOf(A, B, C, F) == [status : A, until : B, backoff : C, failures : F]

LEMMA FieldsAre ==
    ASSUME NEW A, NEW B, NEW C, NEW F, NEW row \in RowsOf(A, B, C, F),
           NEW a \in A, NEW b \in B, NEW c \in C
    PROVE  IsSet(RowsOf(A, B, C, F), row, a, b, c)
BY DEF Timed, Turned, Paused, IsSet, RowsOf

LEMMA RowIs ==
    ASSUME NEW row \in Circuits!Row, NEW a \in {"closed", "open", "half_open"},
           NEW b \in {"none", "ahead", "over"}, NEW c \in {300, 600, 1200, 1800}
    PROVE  IsSet(Circuits!Row, row, a, b, c)
<1> DEFINE A == {"closed", "open", "half_open"}
           B == {"none", "ahead", "over"}
           C == {300, 600, 1200, 1800}
           F == 0 .. Circuits!FailuresToOpen
<1>1. Circuits!Row = RowsOf(A, B, C, F)
  BY DEF Circuits!Row, RowsOf
<1>2. a \in A /\ b \in B /\ c \in C
  OBVIOUS
<1> HIDE DEF A, B, C, F
<1> QED
  BY <1>1, <1>2, FieldsAre

LEMMA ClosedIs ==
    ASSUME NEW row \in Circuits!Row, row.status = "open" <=> row.until # "none",
           row.status = "closed" => row.backoff = Circuits!InitialBackoff
    PROVE  LET new == Circuits!Close(row)
           IN  /\ new \in Circuits!Row
               /\ new.status = "open" <=> new.until # "none"
               /\ new.status = "closed" => new.backoff = Circuits!InitialBackoff
               /\ new.status = "half_open" => row.status = "half_open"
<1> DEFINE closed == Paused(row, "closed", "none", Circuits!InitialBackoff)
<1>1. Circuits!InitialBackoff \in {300, 600, 1200, 1800}
  BY DEF Circuits!InitialBackoff
<1>2. /\ closed \in Circuits!Row /\ closed.status = "closed" /\ closed.until = "none"
      /\ closed.backoff = Circuits!InitialBackoff
  BY <1>1, RowIs DEF IsSet
<1>3. Circuits!Close(row) = IF row.status = "half_open" THEN closed ELSE row
  BY DEF Circuits!Close, Paused
<1> HIDE DEF closed
<1> QED
  BY <1>2, <1>3

LEMMA FailedIs ==
    ASSUME NEW row \in Circuits!Row, row.status = "open" <=> row.until # "none",
           row.status = "closed" => row.backoff = Circuits!InitialBackoff,
           NEW s, s.late \in BOOLEAN
    PROVE  LET new == Circuits!Fail(row, s)
           IN  /\ new \in Circuits!Row
               /\ new.status = "open" <=> new.until # "none"
               /\ new.status = "closed" => new.backoff = Circuits!InitialBackoff
               /\ new.status = "half_open" => row.status = "half_open"
<1> DEFINE counted == [row EXCEPT !.failures =
                           IF @ = Circuits!FailuresToOpen THEN @ ELSE @ + 1]
<1>1. /\ counted \in Circuits!Row /\ counted.status = row.status /\ counted.until = row.until
      /\ counted.backoff = row.backoff
  BY DEF Circuits!Row, Circuits!FailuresToOpen
<1> HIDE DEF counted
<1> DEFINE at == IF s.late THEN "over" ELSE "ahead"
           pause == Circuits!Doubled(counted.backoff)
           opened == Turned(counted, "open", at)
           reopened == Paused(counted, "open", at, pause)
<1>2. Circuits!Open(counted, s) = opened /\ Circuits!Reopen(counted, s) = reopened
  BY DEF Circuits!Open, Circuits!Reopen, Turned, Paused
<1>3. at \in {"none", "ahead", "over"} /\ at # "none"
  OBVIOUS
<1>4. pause \in {300, 600, 1200, 1800}
  BY <1>1 DEF Circuits!Doubled, Circuits!MaxBackoff, Circuits!Row
<1> HIDE DEF at, pause
<1>6. /\ opened \in Circuits!Row /\ opened.status = "open" /\ opened.until # "none"
      /\ reopened \in Circuits!Row /\ reopened.status = "open" /\ reopened.until # "none"
  <2>1. "open" \in {"closed", "open", "half_open"}
    OBVIOUS
  <2> QED
    BY <1>1, <1>3, <1>4, <2>1, RowIs DEF IsSet
<1>5. Circuits!Fail(row, s) \in {Circuits!Reopen(counted, s), Circuits!Open(counted, s), counted}
  BY DEF Circuits!Fail, counted
<1> QED
  BY <1>1, <1>2, <1>5, <1>6

LEMMA SampledIs ==
    ASSUME NEW before, NEW rows \in InOrder(before), NEW s, s.late \in BOOLEAN
    PROVE  Circuits!Sampled(rows, s) \in InOrder(before)
<1> DEFINE new(b) == IF s.healthy THEN Circuits!Close(rows[b]) ELSE Circuits!Fail(rows[b], s)
           all_ == [b \in Breakers |-> IF b = s.breaker THEN new(b) ELSE rows[b]]
<1>1. Circuits!Sampled(rows, s) = all_
  BY DEF Circuits!Sampled, InOrder
<1>2. ASSUME NEW b \in Breakers
      PROVE  /\ new(b) \in Circuits!Row
             /\ new(b).status = "open" <=> new(b).until # "none"
             /\ new(b).status = "closed" => new(b).backoff = Circuits!InitialBackoff
             /\ new(b).status = "half_open" => before[b].status = "half_open"
  <2>1. /\ rows[b] \in Circuits!Row
        /\ rows[b].status = "open" <=> rows[b].until # "none"
        /\ rows[b].status = "closed" => rows[b].backoff = Circuits!InitialBackoff
        /\ rows[b].status = "half_open" => before[b].status = "half_open"
    BY DEF InOrder
  <2> QED
    BY <2>1, ClosedIs, FailedIs
<1> HIDE DEF new
<1>3. all_ \in [Breakers -> Circuits!Row]
  BY <1>2 DEF InOrder
<1> QED
  BY <1>1, <1>2, <1>3 DEF InOrder

\* The samples of a file are applied one after the other, and leave the rows in order.
LEMMA RecordIs ==
    ASSUME CircuitsInv, NEW samples, Len(samples) \in Nat,
           \A i \in 1 .. Len(samples) : samples[i].late \in BOOLEAN,
           Circuits!Record(samples)
    PROVE  breaker' \in InOrder(breaker)
<1> DEFINE N == Len(samples)
           Good == InOrder(breaker)
           Unfolds(f) == f = [n \in 0 .. N |-> IF n = 0 THEN breaker
                                               ELSE Circuits!Sampled(f[n - 1], samples[n])]
           rows == CHOOSE f : Unfolds(f)
<1>1. breaker' = rows[N]
  BY DEF Circuits!Record
<1>2. breaker \in Good
  BY DEF CircuitsInv, Circuits!TypeOK, Circuits!ClosedForgets, InOrder
<1>3. \A r \in Good, i \in 1 .. N : Circuits!Sampled(r, samples[i]) \in Good
  BY SampledIs
<1>0. N \in Nat
  OBVIOUS
<1> HIDE DEF Good, N
<1>4. \E f : Unfolds(f)
  <2> DEFINE Begun(n, f) == /\ f \in [0 .. n -> Good] /\ f[0] = breaker
                            /\ \A i \in 1 .. n : f[i] = Circuits!Sampled(f[i - 1], samples[i])
             S == {n \in 0 .. N : \E f \in [0 .. n -> Good] : Begun(n, f)}
  <2>1. 0 \in S
    <3>1. Begun(0, [n \in 0 .. 0 |-> breaker])
      BY <1>2
    <3>2. [n \in 0 .. 0 |-> breaker] \in [0 .. 0 -> Good] /\ 0 \in 0 .. N
      BY <1>0, <1>2
    <3> HIDE DEF Begun
    <3> QED
      BY <3>1, <3>2
  <2>2. ASSUME NEW n \in 0 .. N, n # N, n \in S PROVE n + 1 \in S
    <3>1. PICK f \in [0 .. n -> Good] : Begun(n, f)
      <4> HIDE DEF Begun
      <4> QED
        BY <2>2
    <3> DEFINE g == [i \in 0 .. n + 1 |-> IF i = n + 1 THEN Circuits!Sampled(f[n], samples[n + 1])
                                          ELSE f[i]]
    <3>2. n + 1 \in 1 .. N /\ n \in 0 .. n /\ 0 # n + 1
      BY <1>0, <2>2
    <3>3. Circuits!Sampled(f[n], samples[n + 1]) \in Good
      BY <1>3, <3>2
    <3>4. g \in [0 .. n + 1 -> Good] /\ g[0] = breaker
      BY <3>1, <3>2, <3>3
    <3>5. ASSUME NEW i \in 1 .. n + 1 PROVE g[i] = Circuits!Sampled(g[i - 1], samples[i])
      <4>1. i \in 0 .. n + 1 /\ i - 1 \in 0 .. n + 1 /\ i - 1 # n + 1 /\ (i # n + 1 => i \in 1 .. n)
            /\ (n + 1) - 1 = n
        BY <2>2
      <4>2. CASE i = n + 1
        BY <4>1, <4>2
      <4>3. CASE i # n + 1
        BY <3>1, <4>1, <4>3
      <4> QED
        BY <4>2, <4>3
    <3>6. Begun(n + 1, g)
      BY <3>4, <3>5
    <3>7. n + 1 \in 0 .. N
      BY <1>0, <3>2
    <3> HIDE DEF Begun, g
    <3> QED
      BY <3>4, <3>6, <3>7
  <2>3. N \in S
    <3> HIDE DEF S
    <3> 0 .. N \subseteq S
      BY <1>0, <2>1, <2>2, UpTo
    <3> QED
      BY <1>0
  <2>4. PICK f \in [0 .. N -> Good] : Begun(N, f)
    <3> HIDE DEF Begun
    <3> QED
      BY <2>3
  <2>5. Unfolds(f)
    <3>1. \A n \in 0 .. N : f[n] = IF n = 0 THEN breaker
                                   ELSE Circuits!Sampled(f[n - 1], samples[n])
      BY <1>0, <2>4
    <3> QED
      BY <2>4, <3>1
  <2> QED
    BY <2>5
<1>5. Unfolds(rows)
  <2> HIDE DEF Unfolds
  <2> QED
    BY <1>4
<1>6. /\ rows[0] = breaker
      /\ \A n \in 0 .. N : n # 0 => rows[n] = Circuits!Sampled(rows[n - 1], samples[n])
  <2> HIDE DEF rows
  <2> QED
    BY <1>0, <1>5
<1> HIDE DEF rows
<1>7. 0 .. N \subseteq {n \in 0 .. N : rows[n] \in Good}
  <2> DEFINE S == {n \in 0 .. N : rows[n] \in Good}
  <2>1. 0 \in S
    BY <1>0, <1>2, <1>6
  <2>2. ASSUME NEW n \in 0 .. N, n # N, n \in S PROVE n + 1 \in S
    <3>1. n + 1 \in 0 .. N /\ n + 1 \in 1 .. N /\ n + 1 # 0 /\ (n + 1) - 1 = n
      BY <1>0, <2>2
    <3> QED
      BY <1>3, <1>6, <2>2, <3>1
  <2> HIDE DEF S
  <2> QED
    BY <1>0, <2>1, <2>2, UpTo DEF S
<1> QED
  BY <1>0, <1>1, <1>7 DEF Good

LEMMA CircuitsInit == Circuits!Init => CircuitsInv
<1> SUFFICES ASSUME Circuits!Init PROVE CircuitsInv
  OBVIOUS
<1>1. [status |-> "closed", until |-> "none", backoff |-> Circuits!InitialBackoff,
       failures |-> 0] \in Circuits!Row
  BY DEF Circuits!Row, Circuits!FailuresToOpen, Circuits!InitialBackoff
<1> QED
  BY <1>1 DEF Circuits!Init, CircuitsInv, Circuits!TypeOK, Circuits!ClosedForgets,
     Circuits!ProbeIsAlone

\* What is recorded puts no breaker on probe.
LEMMA RecordedInv ==
    ASSUME CircuitsInv, NEW samples, Len(samples) \in Nat,
           \A i \in 1 .. Len(samples) : samples[i].late \in BOOLEAN,
           Circuits!Record(samples), probes' = probes,
           run' \in [Runs -> {"absent", "queued", "running"}]
    PROVE  CircuitsInv'
<1>1. breaker' \in InOrder(breaker)
  BY RecordIs
<1> QED
  BY <1>1 DEF InOrder, CircuitsInv, Circuits!TypeOK, Circuits!ClosedForgets, Circuits!ProbeIsAlone

\* The run that is admitted is the probe of all breakers whose pause is over.
LEMMA AdmitInv ==
    ASSUME CircuitsInv, NEW r \in Runs, Circuits!Admit(r)
    PROVE  CircuitsInv'
<1>1. /\ \A b \in Breakers : breaker[b].status # "half_open"
      /\ breaker' = [b \in Breakers |-> Circuits!Probed(breaker[b])]
      /\ run' = [run EXCEPT ![r] = "running"]
      /\ probes' = [b \in Breakers |->
                       IF breaker[b].status = "closed" THEN 0
                       ELSE IF breaker[b].status = "open" THEN 1 ELSE probes[b] + 1]
  BY DEF Circuits!Admit, Circuits!Blocked, Circuits!Blocks
<1>2. ASSUME NEW b \in Breakers
      PROVE  LET row == breaker[b]
                 new == Circuits!Probed(row)
             IN  /\ new \in Circuits!Row
                 /\ new.status = "open" <=> new.until # "none"
                 /\ new.status = "closed" => row.status = "closed" /\ new = row
                 /\ new.status = "half_open" => row.status = "open"
  <2>1. breaker[b] \in Circuits!Row /\ (breaker[b].status = "open" <=> breaker[b].until # "none")
    BY DEF CircuitsInv, Circuits!TypeOK
  <2> DEFINE probed == Turned(breaker[b], "half_open", "none")
  <2>2. probed \in Circuits!Row /\ probed.status = "half_open" /\ probed.until = "none"
    <3>1. "half_open" \in {"closed", "open", "half_open"} /\ 300 \in {300, 600, 1200, 1800}
      OBVIOUS
    <3> QED
      BY <2>1, <3>1, RowIs DEF IsSet
  <2>3. Circuits!Probed(breaker[b]) = IF breaker[b].status = "open" THEN probed ELSE breaker[b]
    BY DEF Circuits!Probed, Turned
  <2> HIDE DEF probed
  <2>4. breaker[b].status \in {"closed", "open"}
    BY <1>1, <2>1 DEF Circuits!Row
  <2> QED
    BY <2>1, <2>2, <2>3, <2>4
<1>3. \A b \in Breakers : probes[b] \in Nat
  BY DEF CircuitsInv, Circuits!TypeOK
<1>4. probes' \in [Breakers -> Nat] /\ run' \in [Runs -> {"absent", "queued", "running"}]
  BY <1>1, <1>3 DEF CircuitsInv, Circuits!TypeOK
<1>5. \A b \in Breakers : breaker'[b] = Circuits!Probed(breaker[b])
  BY <1>1
<1>6. breaker' \in [Breakers -> Circuits!Row]
  BY <1>1, <1>2
<1>7. \A b \in Breakers : breaker[b].status = "open" => probes'[b] = 1
  BY <1>1
<1> QED
  BY <1>2, <1>4, <1>5, <1>6, <1>7 DEF CircuitsInv, Circuits!TypeOK, Circuits!ClosedForgets,
     Circuits!ProbeIsAlone

\* The file of a runner, and what the outcome says of the gateway.
LEMMA FileIs ==
    ASSUME NEW file \in Circuits!Files, NEW verdict \in Circuits!Verdicts, MaxSamples \in Nat
    PROVE  LET samples == file \o verdict
           IN  Len(samples) \in Nat /\ \A i \in 1 .. Len(samples) : samples[i].late \in BOOLEAN
<1> DEFINE S == Circuits!Samples \cup {Circuits!Healthy(Gateway)}
                \cup Circuits!Failures(Gateway, {FALSE})
<1>1. \A s \in S : s.late \in BOOLEAN
  <2>1. \A b : Circuits!Healthy(b).late = FALSE
    BY DEF Circuits!Healthy
  <2>2. \A b, L : L \subseteq BOOLEAN => \A s \in Circuits!Failures(b, L) : s.late \in BOOLEAN
    BY DEF Circuits!Failures
  <2>3. ASSUME NEW s \in S PROVE s.late \in BOOLEAN
    <3>1. CASE \E b \in Breakers \cup {Gateway} : s = Circuits!Healthy(b)
      BY <2>1, <3>1
    <3>2. CASE \E b \in Breakers : s \in Circuits!Failures(b, BOOLEAN)
      BY <2>2, <3>2
    <3>3. CASE s \in Circuits!Failures(Gateway, {FALSE})
      BY <2>2, <3>3
    <3> QED
      BY <3>1, <3>2, <3>3 DEF Circuits!Samples
  <2> QED
    BY <2>3
<1>2. file \in Seq(S)
  <2>1. PICK n \in 0 .. MaxSamples : file \in [1 .. n -> Circuits!Samples]
    BY DEF Circuits!Files
  <2> QED
    BY <2>1
<1>3. verdict \in Seq(S)
  <2>1. verdict = <<>> \/ \E s \in S : verdict = <<s>>
    BY DEF Circuits!Verdicts
  <2> HIDE DEF S
  <2> QED
    <3>1. CASE verdict = <<>>
      BY <3>1
    <3>2. ASSUME NEW s \in S, verdict = <<s>> PROVE verdict \in Seq(S)
      <4>1. <<s>> \in Seq(S)
        OBVIOUS
      <4> QED
        BY <3>2, <4>1
    <3> QED
      BY <2>1, <3>1, <3>2
<1> HIDE DEF S
<1>4. file \o verdict \in Seq(S)
  BY <1>2, <1>3
<1> QED
  BY <1>1, <1>4

LEMMA CircuitsStep ==
    ASSUME MaxSamples \in Nat
    PROVE  CircuitsInv /\ [Circuits!Next]_circuits => CircuitsInv'
<1> SUFFICES ASSUME CircuitsInv, [Circuits!Next]_circuits PROVE CircuitsInv'
  OBVIOUS
<1> USE DEF CircuitsInv, Circuits!TypeOK
<1>1. CASE UNCHANGED circuits
  BY <1>1 DEF circuits, Circuits!ClosedForgets, Circuits!ProbeIsAlone
<1>2. ASSUME NEW r \in Runs, Circuits!Submit(r) PROVE CircuitsInv'
  BY <1>2 DEF Circuits!Submit, Circuits!ClosedForgets, Circuits!ProbeIsAlone
<1>3. ASSUME NEW r \in Runs, Circuits!Admit(r) PROVE CircuitsInv'
  BY <1>3, AdmitInv
<1>4. ASSUME NEW r \in Runs, Circuits!Finalize(r) PROVE CircuitsInv'
  <2>1. PICK file \in Circuits!Files, verdict \in Circuits!Verdicts :
           Circuits!Record(file \o verdict)
    BY <1>4 DEF Circuits!Finalize
  <2>2. probes' = probes /\ run' \in [Runs -> {"absent", "queued", "running"}]
    BY <1>4 DEF Circuits!Finalize
  <2> QED
    BY <2>1, <2>2, FileIs, RecordedInv
<1>5. ASSUME NEW b \in Breakers, Circuits!PausePasses(b) PROVE CircuitsInv'
  <2>1. [breaker[b] EXCEPT !.until = "over"] \in Circuits!Row
    BY DEF Circuits!Row, Circuits!FailuresToOpen
  <2> DEFINE new == [breaker[b] EXCEPT !.until = "over"]
  <2>2. new.status = "open" /\ new.until = "over"
    BY <1>5 DEF Circuits!PausePasses, Circuits!Row, Circuits!FailuresToOpen
  <2>3. breaker' = [breaker EXCEPT ![b] = new] /\ UNCHANGED <<run, probes>>
    BY <1>5 DEF Circuits!PausePasses
  <2> HIDE DEF new
  <2>4. breaker' \in [Breakers -> Circuits!Row] /\ breaker'[b] = new
        /\ \A c \in Breakers : c # b => breaker'[c] = breaker[c]
    BY <2>1, <2>3 DEF new
  <2> QED
    BY <2>2, <2>3, <2>4 DEF Circuits!ClosedForgets, Circuits!ProbeIsAlone
<1>6. ASSUME Circuits!GatewayFails PROVE CircuitsInv'
  <2>1. PICK s \in Circuits!Failures(Gateway, {FALSE}) : Circuits!Record(<<s>>)
    BY <1>6 DEF Circuits!GatewayFails
  <2>2. Len(<<s>>) \in Nat /\ \A i \in 1 .. Len(<<s>>) : <<s>>[i].late \in BOOLEAN
    <3>1. s.late \in BOOLEAN
      BY DEF Circuits!Failures
    <3>2. Len(<<s>>) = 1 /\ <<s>>[1] = s
      OBVIOUS
    <3> QED
      BY <3>1, <3>2
  <2> QED
    BY <1>6, <2>1, <2>2, RecordedInv DEF Circuits!GatewayFails
<1> QED
  BY <1>1, <1>2, <1>3, <1>4, <1>5, <1>6 DEF Circuits!Next, circuits, Circuits!vars

-----------------------------------------------------------------------------
(* The services side by side *)

J == INSTANCE ValidationJobsProofs
        WITH Runs <- Targeted, Horizons <- Runs, MaxRunning <- MaxRunningValidation
W == INSTANCE WebhookDeliveryProofs

\* The validation jobs and the deliveries are those of the proofs of their modules.
LEMMA SameJobs ==
    /\ Validation!Init <=> J!Init
    /\ Validation!Next <=> J!Next
    /\ Validation!TypeOK <=> J!TypeOK
    /\ Validation!TargetIsOnRecord <=> J!TargetIsOnRecord
<1> USE DEF Validation!Jobs, J!Jobs, Validation!RunOf, J!RunOf, Validation!Row, J!Row,
            Validation!Fresh, J!Fresh, Validation!Idle, J!Idle, Validation!Work, J!Work
<1>1. Validation!Init <=> J!Init
  BY Zenon DEF Validation!Init, J!Init
<1>2. Validation!Next <=> J!Next
  BY Zenon
  DEF Validation!Next, J!Next, Validation!Schedule, J!Schedule, Validation!Retry, J!Retry,
      Validation!RecomputeDirections, J!RecomputeDirections,
      Validation!JobDue, J!JobDue, Validation!JobLeaseExpires, J!JobLeaseExpires,
      Validation!BasisDue, J!BasisDue, Validation!BasisLeaseExpires, J!BasisLeaseExpires,
      Validation!RunOnce, J!RunOnce, Validation!Abandon, J!Abandon, Validation!ClaimBasis,
      J!ClaimBasis, Validation!FindsNoBasis, J!FindsNoBasis, Validation!CountRunning,
      J!CountRunning, Validation!FindsNoJob, J!FindsNoJob, Validation!TakeJob, J!TakeJob,
      Validation!Settle, J!Settle, Validation!CompleteBasis, J!CompleteBasis,
      Validation!BasisFails, J!BasisFails, Validation!CompleteJob, J!CompleteJob,
      Validation!JobFails, J!JobFails, Validation!Running, J!Running, Validation!Goes,
      J!Goes, Validation!Released, J!Released, Validation!ReleasedKeepingLease,
      J!ReleasedKeepingLease, Validation!Claimed, J!Claimed,
      Validation!Expired, J!Expired, Validation!Reset, J!Reset, Validation!Claimable,
      J!Claimable, Validation!RecoveredBases, J!RecoveredBases, Validation!Cardinality,
      J!Cardinality
<1>3. Validation!TypeOK <=> J!TypeOK
  BY Zenon DEF Validation!TypeOK, J!TypeOK
<1>4. Validation!TargetIsOnRecord <=> J!TargetIsOnRecord
  BY Zenon DEF Validation!TargetIsOnRecord, J!TargetIsOnRecord
<1> QED
  BY <1>1, <1>2, <1>3, <1>4

LEMMA SameDeliveries ==
    /\ Delivery!Init <=> W!Init
    /\ Delivery!Next <=> W!Next
    /\ Delivery!TypeOK <=> W!TypeOK
    /\ Delivery!AttemptsAreLimited <=> W!AttemptsAreLimited
    /\ Delivery!DeliveredIsAccepted <=> W!DeliveredIsAccepted
<1> USE DEF Delivery!Deliveries, W!Deliveries, Delivery!Delivery, W!Delivery,
            Delivery!Sending, W!Sending
<1>1. Delivery!Init <=> W!Init
  BY Zenon DEF Delivery!Init, W!Init
<1>2. Delivery!Next <=> W!Next
  BY Zenon
  DEF Delivery!Next, W!Next, Delivery!CreateWebhook, W!CreateWebhook, Delivery!Deactivate,
      W!Deactivate, Delivery!RunEventRecorded, W!RunEventRecorded, Delivery!SendOnce,
      W!SendOnce, Delivery!SenderDies, W!SenderDies, Delivery!ClaimRunsOut, W!ClaimRunsOut,
      Delivery!RetryTimeComes, W!RetryTimeComes, Delivery!RecoverExpiredClaims,
      W!RecoverExpiredClaims, Delivery!EnqueueMissing, W!EnqueueMissing,
      Delivery!ClaimDelivery, W!ClaimDelivery, Delivery!FindsNothingDue, W!FindsNothingDue,
      Delivery!Post, W!Post, Delivery!Complete, W!Complete, Delivery!Does, W!Does,
      Delivery!Deliverable, W!Deliverable, Delivery!Retried, W!Retried, Delivery!Answered,
      W!Answered, Delivery!StoredFor, W!StoredFor
<1>3. Delivery!TypeOK <=> W!TypeOK
  BY Zenon DEF Delivery!TypeOK, W!TypeOK
<1>4. Delivery!AttemptsAreLimited <=> W!AttemptsAreLimited
  BY Zenon DEF Delivery!AttemptsAreLimited, W!AttemptsAreLimited
<1>5. Delivery!DeliveredIsAccepted <=> W!DeliveredIsAccepted
  BY Zenon DEF Delivery!DeliveredIsAccepted, W!DeliveredIsAccepted
<1> QED
  BY <1>1, <1>2, <1>3, <1>4, <1>5

\* A step of the services is one of each of them, or leaves it alone.
LEMMA ServiceSteps ==
    ASSUME [ServicesNext]_all
    PROVE  /\ [Circuits!Next]_circuits
           /\ [J!Next]_(J!vars)
           /\ [W!Next]_(W!vars)
BY SameJobs, SameDeliveries
DEF ServicesNext, all, OnGate, OnJobs, OnWebhooks, OnCircuits, jobs, deliveries, J!vars, W!vars

LEMMA ServicesStart == ServicesInit => Circuits!Init /\ J!Init /\ W!Init
BY SameJobs, SameDeliveries DEF ServicesInit

\* The samples of a run are applied in the order of its file, hours old as they may
\* be: none of them puts a breaker on probe, and none closes one without resetting
\* its pause, so that only an admission goes on probe, and with one run.
THEOREM Probes == ASSUME MaxSamples \in Nat PROVE ServicesSpec => []ProbeIsAlone
<1>1. ServicesInit => CircuitsInv
  BY CircuitsInit, ServicesStart
<1>2. CircuitsInv /\ [ServicesNext]_all => CircuitsInv'
  BY CircuitsStep, ServiceSteps
<1>3. CircuitsInv => ProbeIsAlone
  BY DEF CircuitsInv, ProbeIsAlone
<1> QED
  BY <1>1, <1>2, <1>3, PTL DEF ServicesSpec

\* complete stores the answer to the attempt the row is at, so that a delivery
\* counts as made because the endpoint took its latest attempt.
THEOREM Accepted ==
    ASSUME MaxAttempts \in Nat \ {0} PROVE ServicesSpec => []DeliveredIsAccepted
<1>1. ServicesInit => W!IInv
  BY W!InitInv, ServicesStart
<1>2. W!IInv /\ [ServicesNext]_all => W!IInv'
  BY W!NextInv, ServiceSteps
<1>3. W!IInv => DeliveredIsAccepted
  BY SameDeliveries DEF W!IInv, DeliveredIsAccepted
<1> QED
  BY <1>1, <1>2, <1>3, PTL DEF ServicesSpec

\* With the one worker of the deployment, the result of a validation is never
\* rewritten, but for its direction, which recompute_directions judges again and
\* which is all it changes; and the basis it was computed from is on record.
THEOREM Stand == ASSUME J!OneWorker PROVE ServicesSpec => ResultsStand
<1>1. ServicesInit => J!IInv
  BY J!InitInv, ServicesStart
<1>2. J!IInv /\ [ServicesNext]_all => J!IInv'
  BY J!Inductive, ServiceSteps
<1>3. J!IInv => Validation!TargetIsOnRecord
  BY SameJobs DEF J!IInv
<1>4. J!IInv /\ [ServicesNext]_all
      => [/\ \A j \in Validation!Jobs : job[j].status = "completed" =>
                job'[j] \in {job[j], [job[j] EXCEPT !.direction = "recomputed"]}
          /\ \A r \in Targeted :
                basis[r].status = "completed" => basis'[r] = basis[r]]_(Validation!vars)
  BY J!CompletedStays, ServiceSteps DEF Validation!Jobs, J!Jobs
<1> QED
  BY <1>1, <1>2, <1>3, <1>4, PTL DEF ServicesSpec, ResultsStand, Validation!CompletedIsFinal

\* Rows of validations are running exactly while their lease columns are set, rows
\* of deliveries that are out have an end of their claim, and exactly open breakers
\* have a deadline: what is claimed can be found and returned, and no pause is for
\* want of an end.
THEOREM ServicesTyping ==
    ASSUME W!NumbersAssumption, MaxSamples \in Nat
    PROVE  ServicesSpec => []ServicesTypeOK
<1> DEFINE Inv == J!TypeOK /\ W!TInv /\ CircuitsInv
<1>1. ServicesInit => Inv
  BY J!TypeInit, W!TypedInit, CircuitsInit, ServicesStart
<1>2. Inv /\ [ServicesNext]_all => Inv'
  BY J!TypeStep, W!TypedStep, CircuitsStep, ServiceSteps
<1>3. Inv => ServicesTypeOK
  <2>1. W!TInv => Delivery!TypeOK
    BY W!TypesAre, SameDeliveries
  <2>2. W!TInv => Delivery!AttemptsAreLimited
    BY SameDeliveries DEF W!TInv, W!IInv, W!OneAttemptLeft, W!AttemptsAreLimited
  <2> QED
    BY <2>1, <2>2, SameJobs DEF ServicesTypeOK, CircuitsInv
<1> HIDE DEF Inv
<1> QED
  BY <1>1, <1>2, <1>3, PTL DEF ServicesSpec
=============================================================================
