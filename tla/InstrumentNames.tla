--------------------------- MODULE InstrumentNames ---------------------------
(***************************************************************************)
(* The official names of instruments, resolved from SEC EDGAR by two       *)
(* processes that know nothing of each other: the scheduler's loop and the *)
(* operator's backfill.  A pass reads which instrument is due, asks SEC or *)
(* the cache on disk, and writes in a later transaction what it has found. *)
(*                                                                         *)
(* SEC's index of tickers and the submissions of a company are one         *)
(* document here: the filers a ticker is listed for.                       *)
(***************************************************************************)
EXTENDS Naturals, Sequences, FiniteSets

CONSTANTS
    Instruments,
    Filings,       \* sets of filers SEC may list for a ticker
    Exchanges,     \* what a classification may say, None included
    MaxScan,       \* _MAX_PENDING_SCAN
    MaxChanges,    \* changes of SEC's documents
    None

VARIABLES
    created,     \* the instruments in order of creation
    row,         \* their rows
    sec,         \* what SEC lists for their tickers
    document,    \* the cache: what SEC listed, and whether the TTL holds
    pass,        \* the passes of run_once
    changes

vars == <<created, row, sec, document, pass, changes>>

Enrichers == {"scheduler", "backfill"}
Filers == UNION Filings
Unasked == [pc |-> "idle", on |-> None, exchange |-> None, found |-> {}, failed |-> FALSE]

\* name_resolution of a row: by whom, and whether next_retry_at (its own, or that
\* of the last failure) and next_refresh_at have come.
Row == [name : {f.name : f \in Filers} \cup {None, "eastmoney"},
        exchange : Exchanges \cup {f.exchange : f \in Filers},
        by : {"nobody", "eastmoney", "sec_edgar"},
        status : {"none", "resolved", "unresolved"},
        retry : {"none", "waiting", "passed"},
        refresh : {"none", "waiting", "passed"},
        history : SUBSET ({f.name : f \in Filers} \cup {None, "eastmoney"})]

Created(i) == \E n \in DOMAIN created : created[n] = i

TypeOK ==
    /\ row \in [Instruments -> Row]
    /\ \A i \in Instruments :
          /\ row[i].status = "unresolved" => row[i].name = None /\ row[i].retry # "none"
          /\ row[i].by = "sec_edgar" /\ row[i].status = "resolved" =>
                row[i].name # None /\ row[i].refresh # "none"
    /\ sec \in [Instruments -> Filings]
    /\ \A e \in Enrichers : pass[e].pc \in {"idle", "asking", "found"}
    /\ changes \in 0 .. MaxChanges

\* An instrument of old comes with a name of EastMoney.
Init ==
    /\ created \in {<<>>} \cup {<<i>> : i \in Instruments}
    /\ row = [i \in Instruments |->
                 [name |-> IF Created(i) THEN "eastmoney" ELSE None, exchange |-> None,
                  by |-> IF Created(i) THEN "eastmoney" ELSE "nobody",
                  status |-> IF Created(i) THEN "resolved" ELSE "none",
                  retry |-> "none", refresh |-> "none", history |-> {}]]
    /\ sec \in [Instruments -> Filings]
    /\ document = [i \in Instruments |-> [filers |-> None, fresh |-> FALSE]]
    /\ pass = [e \in Enrichers |-> Unasked]
    /\ changes = 0

-----------------------------------------------------------------------------
(* Around the enrichers *)

\* get_or_create_instrument: the classification fills an exchange that is missing.
GetOrCreateInstrument(i) ==
    /\ Created(i) => row[i].exchange = None
    /\ created' = IF Created(i) THEN created ELSE Append(created, i)
    /\ \E exchange \in Exchanges : row' = [row EXCEPT ![i].exchange = exchange]
    /\ UNCHANGED <<sec, document, pass, changes>>

SecChanges(i) ==
    /\ changes < MaxChanges
    /\ changes' = changes + 1
    /\ \E filing \in Filings \ {sec[i]} : sec' = [sec EXCEPT ![i] = filing]
    /\ UNCHANGED <<created, row, document, pass>>

CacheExpires(i) ==
    /\ document[i].fresh
    /\ document' = [document EXCEPT ![i].fresh = FALSE]
    /\ UNCHANGED <<created, row, sec, pass, changes>>

\* next_retry_at, and later next_refresh_at.
RetryComes(i) ==
    /\ row[i].retry = "waiting"
    /\ row' = [row EXCEPT ![i].retry = "passed"]
    /\ UNCHANGED <<created, sec, document, pass, changes>>

RefreshComes(i) ==
    /\ row[i].refresh = "waiting"
    /\ row' = [row EXCEPT ![i].refresh = "passed"]
    /\ UNCHANGED <<created, sec, document, pass, changes>>

-----------------------------------------------------------------------------
(* run_once *)

Due(i) ==
    \/ row[i].by # "sec_edgar"
    \/ /\ row[i].retry # "waiting"
       /\ row[i].status = "resolved" => row[i].refresh # "waiting"

\* next_due: the oldest of those that were read, which are the oldest MaxScan.
NextDue(e) ==
    /\ pass[e].pc = "idle"
    /\ \E n \in DOMAIN created :
          /\ n <= MaxScan /\ Due(created[n])
          /\ \A k \in 1 .. n - 1 : ~Due(created[k])
          /\ pass' = [pass EXCEPT ![e] = [Unasked EXCEPT !.pc = "asking", !.on = created[n],
                                              !.exchange = row[created[n]].exchange]]
    /\ UNCHANGED <<created, row, sec, document, changes>>

Finds(e, filers) ==
    pass' = [pass EXCEPT ![e].pc = "found", ![e].found = filers]

\* _fetch_json: the cache while its TTL holds, else SEC, else the cache all the same.
FromCache(e) ==
    /\ pass[e].pc = "asking" /\ document[pass[e].on].filers # None
    /\ Finds(e, document[pass[e].on].filers)
    /\ UNCHANGED <<created, row, sec, document, changes>>

FromSec(e) ==
    /\ pass[e].pc = "asking" /\ ~document[pass[e].on].fresh
    /\ Finds(e, sec[pass[e].on])
    /\ document' = [document EXCEPT ![pass[e].on] =
                       [filers |-> sec[pass[e].on], fresh |-> TRUE]]
    /\ UNCHANGED <<created, row, sec, changes>>

\* No document at all, or an error of the resolver's own.
FromNowhere(e) ==
    /\ pass[e].pc = "asking"
    /\ pass' = [pass EXCEPT ![e].pc = "found", ![e].failed = TRUE]
    /\ UNCHANGED <<created, row, sec, document, changes>>

\* _submission_identity: the filers that agree with the exchange that was expected.
Matches(e) ==
    {f \in pass[e].found : pass[e].exchange \in {None, f.exchange}}

Ends(e) == pass' = [pass EXCEPT ![e] = Unasked]

Archived(r) == r.history \cup {r.name}

ResolvedForgetting(r, f) ==
    [r EXCEPT !.name = f.name, !.by = "sec_edgar", !.status = "resolved",
              !.exchange = IF f.exchange = None THEN @ ELSE f.exchange,
              !.retry = "none", !.refresh = "waiting"]

\* mark_resolved on a row: what it replaces goes into the history.
Resolved(r, f) ==
    [r EXCEPT !.name = f.name, !.by = "sec_edgar", !.status = "resolved",
              !.exchange = IF f.exchange = None THEN @ ELSE f.exchange,
              !.retry = "none", !.refresh = "waiting",
              !.history = IF r.by # "nobody" /\ (r.name # f.name \/ r.by # "sec_edgar")
                          THEN Archived(r) ELSE @]

\* mark_unresolved: a name of SEC stays, with a note of the failure.
Unresolved(r) ==
    IF r.by = "sec_edgar" /\ r.status = "resolved" /\ r.name # None
    THEN [r EXCEPT !.retry = "waiting"]
    ELSE [r EXCEPT !.name = None, !.by = "sec_edgar", !.status = "unresolved",
                   !.retry = "waiting", !.refresh = "none",
                   !.history = IF r.by # "nobody" THEN Archived(r) ELSE @]

MarkResolved(e) ==
    /\ pass[e].pc = "found" /\ ~pass[e].failed
    /\ \E f \in Matches(e) :
          /\ Matches(e) = {f}
          /\ row' = [row EXCEPT ![pass[e].on] = Resolved(@, f)]
    /\ Ends(e)
    /\ UNCHANGED <<created, sec, document, changes>>

\* Not listed, listed elsewhere, listed twice, or not to be had: the reason and
\* whether it may pass decide how long the retry waits.
MarkUnresolved(e) ==
    /\ pass[e].pc = "found"
    /\ pass[e].failed \/ Cardinality(Matches(e)) # 1
    /\ row' = [row EXCEPT ![pass[e].on] = Unresolved(@)]
    /\ Ends(e)
    /\ UNCHANGED <<created, sec, document, changes>>

\* The database fails or the process dies: nothing of the pass is left.
PassFails(e) ==
    /\ pass[e].pc # "idle"
    /\ Ends(e)
    /\ UNCHANGED <<created, row, sec, document, changes>>

Ask(e) == FromCache(e) \/ FromSec(e) \/ FromNowhere(e)
Mark(e) == MarkResolved(e) \/ MarkUnresolved(e)

Next ==
    \/ \E i \in Instruments : \/ GetOrCreateInstrument(i) \/ SecChanges(i)
                              \/ CacheExpires(i) \/ RetryComes(i) \/ RefreshComes(i)
    \/ \E e \in Enrichers : NextDue(e) \/ Ask(e) \/ Mark(e) \/ PassFails(e)

Spec == Init /\ [][Next]_vars

\* Time passes, and the loops go on.  Passes take seconds and a retry waits for
\* minutes, so that the older instruments leave the younger their turn; neither SEC
\* nor the database fails in every pass.
FairSpec ==
    /\ Spec
    /\ \A i \in Instruments :
          /\ WF_vars(CacheExpires(i)) /\ WF_vars(RetryComes(i)) /\ WF_vars(RefreshComes(i))
          /\ SF_vars(\E e \in Enrichers : NextDue(e) /\ pass'[e].on = i)
          /\ SF_vars(\E e \in Enrichers : pass[e].on = i /\ FromSec(e))
          /\ SF_vars(\E e \in Enrichers : pass[e].on = i /\ ~pass[e].failed /\ Mark(e))
    /\ \A e \in Enrichers : WF_vars(Ask(e) \/ Mark(e))

-----------------------------------------------------------------------------
(* Properties *)

\* A name is SEC's, given to a filer on the instrument's exchange, or one that came
\* with the instrument; and SEC is never quoted for a name it did not give.
NamesAreVerified ==
    \A i \in Instruments : row[i].by = "sec_edgar" /\ row[i].name # None =>
        \E f \in Filers : /\ f.name = row[i].name
                          /\ f.exchange \in {None, row[i].exchange}

\* Whatever an enricher brings, however late and after whatever the other one did:
\* a name of SEC is replaced by another only, never cleared, and a name that is
\* replaced can be found in the history.
NamesAreReplacedOnly ==
    [][\A i \in Instruments : row'[i].name # row[i].name =>
          /\ row[i].by = "sec_edgar" /\ row[i].name # None => row'[i].name # None
          /\ row[i].name # None => row[i].name \in row'[i].history]_vars

Shows(i, f) == row[i].name = f.name /\ row[i].exchange = f.exchange
Verified(i) == row[i].by = "sec_edgar" /\ row[i].status = "resolved"
Scanned(i) == \E n \in DOMAIN created : n <= MaxScan /\ created[n] = i

\* No name of SEC is lost, nor any name forgotten.
NamesAreKept == []NamesAreVerified /\ NamesAreReplacedOnly

\* SEC lists one filer for a verified instrument, and on the exchange it had.
Tracked(i) ==
    /\ Verified(i) /\ Scanned(i)
    /\ \E f \in Filers : sec[i] = {f} /\ row[i].exchange = f.exchange

\* A company that is renamed, on the exchange it was on, gets its new name.
RenamesAreCaught ==
    \A i \in Instruments :
        Tracked(i) ~> (~Tracked(i) \/ \E f \in Filers : sec[i] = {f} /\ Shows(i, f))
=============================================================================
