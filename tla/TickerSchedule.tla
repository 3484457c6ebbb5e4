--------------------------- MODULE TickerSchedule ---------------------------
(***************************************************************************)
(* What the platform promises about a ticker: an assessment is requested,  *)
(* waits, is started when no assessment of its ticker is active and the    *)
(* number of active ones is below the limit, and is done once and for all. *)
(* The promise has one exception.  An active assessment whose process may  *)
(* still exist although its worker has disappeared is parked; it counts    *)
(* for nothing while it is parked, and it may be resumed without asking.   *)
(***************************************************************************)
EXTENDS Naturals, FiniteSets

CONSTANTS Jobs, Symbols, Limit, NoSymbol

VARIABLES phase, symbol

Phases == {"none", "pending", "active", "parked", "done", "removed"}

In(p) == {j \in Jobs : phase[j] = p}

TypeOK ==
    /\ phase \in [Jobs -> Phases]
    /\ symbol \in [Jobs -> Symbols \cup {NoSymbol}]

Init ==
    /\ phase = [j \in Jobs |-> "none"]
    /\ symbol = [j \in Jobs |-> NoSymbol]

Move(j, p) == phase' = [phase EXCEPT ![j] = p]

Request(j, s) ==
    /\ phase[j] = "none"
    /\ Move(j, "pending")
    /\ symbol' = [symbol EXCEPT ![j] = s]

\* A pending assessment is given up before it starts.
Drop(j) ==
    /\ phase[j] = "pending"
    /\ Move(j, "done")
    /\ UNCHANGED symbol

Start(j) ==
    /\ phase[j] = "pending"
    /\ \A i \in In("active") : symbol[i] # symbol[j]
    /\ Cardinality(In("active")) < Limit
    /\ Move(j, "active")
    /\ UNCHANGED symbol

Finish(j) ==
    /\ phase[j] = "active"
    /\ Move(j, "done")
    /\ UNCHANGED symbol

\* An assessment ends and is requested again in the same step.
FinishAndRequest(j, again) ==
    /\ phase[j] = "active"
    /\ phase[again] = "none"
    /\ phase' = [phase EXCEPT ![j] = "done", ![again] = "pending"]
    /\ symbol' = [symbol EXCEPT ![again] = symbol[j]]

\* Recovery, of any number of assessments at a time: some are parked, some
\* that were parked are resumed.
Recover(parking, resuming) ==
    /\ parking \subseteq In("active")
    /\ resuming \subseteq In("parked")
    /\ phase' = [j \in Jobs |-> IF j \in parking THEN "parked"
                             ELSE IF j \in resuming THEN "active" ELSE phase[j]]
    /\ UNCHANGED symbol

Remove(j) ==
    /\ phase[j] = "done"
    /\ Move(j, "removed")
    /\ UNCHANGED symbol

Next ==
    \/ \E j \in Jobs, s \in Symbols : Request(j, s)
    \/ \E j \in Jobs : Drop(j) \/ Start(j) \/ Finish(j) \/ Remove(j)
    \/ \E j, again \in Jobs : FinishAndRequest(j, again)
    \/ \E parking, resuming \in SUBSET Jobs : Recover(parking, resuming)

Spec == Init /\ [][Next]_<<phase, symbol>>

=============================================================================
