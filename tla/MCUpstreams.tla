----------------------------- MODULE MCUpstreams -----------------------------
(***************************************************************************)
(* What stands between the platform and the world outside: the gateway's   *)
(* Codex app-server, and the names that SEC gives to instruments.  They    *)
(* share no state, so that nothing is lost by looking at one at a time:    *)
(* focus is chosen at the start and says whose steps are taken.            *)
(***************************************************************************)
EXTENDS CodexRuntime, Naturals, TLC

CONSTANTS
    Instruments, Filings, Exchanges, MaxScan, MaxChanges

VARIABLES
    focus,
    created, row, sec, document, pass, changes

Names == INSTANCE InstrumentNames

gateway == vars
names == <<created, row, sec, document, pass, changes>>
all == <<focus, gateway, names>>

\* SEC gives every filer a name; a classification may leave the exchange out, as an
\* instrument of old does.
ASSUME NamesAssumption ==
    /\ None \notin {f.name : f \in Names!Filers} /\ None \in Exchanges
    /\ MaxChanges \in Nat

-----------------------------------------------------------------------------
(* Values of the constants *)

\* A ticker SEC does not list, that changes its filer's name, that moves to another
\* exchange, or that two filers have.
Filer(name, exchange) == [name |-> name, exchange |-> exchange]
OneTicker == {{}, {Filer("name", "NYSE")}, {Filer("new name", "NYSE")},
              {Filer("name", "NASDAQ")},
              {Filer("name", "NYSE"), Filer("new name", "NASDAQ")}}

-----------------------------------------------------------------------------
OnGateway == focus = "gateway" /\ UNCHANGED <<focus, names>>
OnNames == focus = "names" /\ UNCHANGED <<focus, gateway>>

UpstreamsInit ==
    /\ focus \in {"gateway", "names"}
    /\ Init /\ Names!Init
    /\ focus # "names" => created = <<>> /\ \A i \in Instruments : sec[i] = {}

UpstreamsNext ==
    \/ OnGateway /\ Next
    \/ OnNames /\ Names!Next

\* The weak fairness of CodexRuntime and of InstrumentNames.
WeakFairness ==
    /\ \A a \in {Starter, Restart} :
          WF_all(OnGateway /\ NotStarted(a)) /\ WF_all(OnGateway /\ TransportStep(a))
    /\ WF_all(OnGateway /\ (ValidationFails \/ Validated))
    /\ WF_all(OnGateway /\ RestartWakes)
    /\ WF_all(OnGateway /\ StopTransport) /\ WF_all(OnGateway /\ Stopped)
    /\ \A t \in Transports :
          /\ WF_all(OnGateway /\ CleanedUp(t)) /\ WF_all(OnGateway /\ HandleExit(t))
          /\ WF_all(OnGateway /\ ScheduleRestart(t))
    /\ \A c \in Calls :
          /\ WF_all(OnGateway /\ RunTurn(c)) /\ WF_all(OnGateway /\ Resume(c))
          /\ WF_all(OnGateway /\ Return(c)) /\ WF_all(OnGateway /\ Interrupted(c))
          /\ WF_all(OnGateway /\ Dispatch(c)) /\ WF_all(OnGateway /\ Responds(c))
          /\ WF_all(OnGateway /\ (TakesTurn(c) \/ RefusesTurn(c)))
          /\ WF_all(OnGateway /\ TurnCompletes(c))
    /\ \A i \in Instruments :
          /\ WF_all(OnNames /\ Names!CacheExpires(i))
          /\ WF_all(OnNames /\ Names!RetryComes(i))
          /\ WF_all(OnNames /\ Names!RefreshComes(i))
    /\ \A e \in Names!Enrichers : WF_all(OnNames /\ (Names!Ask(e) \/ Names!Mark(e)))

\* Their strong fairness.  Only one of the systems takes steps, so that one condition
\* can speak for an action of each.
StrongFairness ==
    \A i \in Instruments :
       /\ SF_all(\/ OnGateway /\ Launch(Restart)
                 \/ OnNames /\ \E e \in Names!Enrichers : Names!NextDue(e) /\ pass'[e].on = i)
       /\ SF_all(\/ OnGateway /\ Initialized(Restart)
                 \/ OnNames /\ \E e \in Names!Enrichers : pass[e].on = i /\ Names!FromSec(e))
       /\ SF_all(OnNames /\ \E e \in Names!Enrichers :
                               pass[e].on = i /\ ~pass[e].failed /\ Names!Mark(e))

UpstreamsSpec ==
    UpstreamsInit /\ [][UpstreamsNext]_all /\ WeakFairness /\ StrongFairness

-----------------------------------------------------------------------------
(* The properties of the instantiated modules, under names of here *)

\* Names of SEC are replaced by names of SEC only, and none is forgotten: what
\* mark_resolved and mark_unresolved do to each other's rows.
NamesAreKept == []Names!TypeOK /\ Names!NamesAreKept

\* Both go on whatever fails: calls of the gateway are answered while its process is
\* started again, and the enrichers catch the new name of a company.
UpstreamsGoOn == GatewayGoesOn /\ Names!RenamesAreCaught
=============================================================================
