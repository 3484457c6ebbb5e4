--------------------------- MODULE OperationsProofs ---------------------------
(***************************************************************************)
(* What the administration of users, the operators' scripts, the guards of *)
(* a later day's run and the ledger guarantee, for any number of users,    *)
(* requests, symbols, dates, attempts and runs.  Each part has its own     *)
(* inductive invariant; OperationsStep takes a step of the composition to  *)
(* a step of the part it belongs to.                                       *)
(***************************************************************************)
EXTENDS MCOperations, FiniteSetTheorems, SequenceTheorems, TLAPS

L == INSTANCE IntegrityLedgerProofs WITH batches <- keys

\* A step of what is looked at is one of its module, any other leaves it alone.
LEMMA OperationsStep ==
    ASSUME [OperationsNext]_all
    PROVE  /\ focus' = focus
           /\ [Integrity!Next]_judging
           /\ [Ledger!Next]_trusting
           /\ [Sync!Next]_sync
           /\ [Prices!Next]_pricing
           /\ focus = "sequential" => [Sequential!Next]_<<submission, sequential>>
           /\ focus = "audit" => [Audit!Next]_<<submission, auditing>>
           /\ focus \notin {"sequential", "audit"} => UNCHANGED submission
           /\ focus # "sequential" => UNCHANGED sequential
           /\ focus # "audit" => UNCHANGED auditing
           /\ [Next]_identity
BY DEF OperationsNext, all, identity

-----------------------------------------------------------------------------
(* Administration of users *)

\* The records of a request that is at work, by what it is doing.
BusyRecord ==
    [kind : {"change", "create", "created"}, on : Users, want : Account,
     seen : Account \cup {None}, calls : Seq(Calls),
     misled : BOOLEAN]
WaitRecord == [kind : {"wait", "guarded"}, by : Users, snapshot : SUBSET Users]
GetRecord == [kind : {"get"}, on : Users, seen : Account]
ListRecord == UNION {[kind : {"list"}, seen : [page -> Account]] : page \in SUBSET Users}
ProvisionRecord == [kind : {"provision"}, on : Users, role : FORMAL_ROLES]

LEMMA Kinds ==
    ASSUME NEW w \in Working
    PROVE  /\ w.kind = "idle" => w = Idle
           /\ w.kind \in {"change", "create", "created"} => w \in BusyRecord
           /\ w.kind \in {"wait", "guarded"} => w \in WaitRecord
           /\ w.kind = "get" => w \in GetRecord
           /\ w.kind = "list" => w \in ListRecord
           /\ w.kind = "provision" => w \in ProvisionRecord
<1>1. Working = {Idle} \cup BusyRecord \cup WaitRecord \cup GetRecord \cup ListRecord
                   \cup ProvisionRecord
  BY DEF Working, BusyRecord, WaitRecord, GetRecord, ListRecord, ProvisionRecord
<1>2. /\ Idle.kind = "idle"
      /\ \A x \in BusyRecord : x.kind \in {"change", "create", "created"}
      /\ \A x \in WaitRecord : x.kind \in {"wait", "guarded"}
      /\ \A x \in GetRecord : x.kind = "get"
      /\ \A x \in ListRecord : x.kind = "list"
      /\ \A x \in ProvisionRecord : x.kind = "provision"
  BY DEF Idle, BusyRecord, WaitRecord, GetRecord, ListRecord, ProvisionRecord
<1> QED
  BY <1>1, <1>2

LEMMA CalledIs ==
    ASSUME NEW account \in Account, NEW want \in Account, NEW call
    PROVE  Called(account, call, want) \in Account
BY DEF Called, Account

LEMMA Tuples ==
    ASSUME NEW S, NEW a \in S, NEW b \in S
    PROVE  /\ <<>> \in Seq(S) /\ Len(<<>>) = 0
           /\ <<a>> \in Seq(S) /\ Len(<<a>>) = 1 /\ <<a>>[1] = a
           /\ <<a, b>> \in Seq(S) /\ Len(<<a, b>>) = 2
OBVIOUS

LEMMA CallsOfIs ==
    ASSUME NEW current \in Account, NEW want \in Account, NEW profile \in BOOLEAN
    PROVE  /\ CallsOf(current, want, profile) \in Seq(Calls)
           /\ want.role = current.role =>
                 \A i \in 1 .. Len(CallsOf(current, want, profile)) :
                    CallsOf(current, want, profile)[i] # "delete"
<1> DEFINE status == want.enabled # current.enabled
           role == want.role # current.role
           put == IF status \/ profile THEN <<"put">> ELSE <<>>
           replace == IF role THEN <<"delete", "post">> ELSE <<>>
           logout == IF status \/ role THEN <<"logout">> ELSE <<>>
<1>1. CallsOf(current, want, profile) = (put \o replace) \o logout
  BY DEF CallsOf
<1>2. put \in Seq(Calls) /\ \A i \in 1 .. Len(put) : put[i] # "delete"
  <2>1. "put" \in Calls
    BY DEF Calls
  <2>2. CASE put = <<>>
    BY <2>1, <2>2, Tuples
  <2>3. CASE put = <<"put">>
    <3>1. put \in Seq(Calls) /\ Len(put) = 1 /\ put[1] = "put"
      BY <2>1, <2>3, Tuples
    <3> QED
      BY <3>1
  <2> QED
    BY <2>2, <2>3
<1>3. replace \in Seq(Calls) /\ (~role => replace = <<>>)
  BY Tuples DEF Calls
<1>4. logout \in Seq(Calls) /\ \A i \in 1 .. Len(logout) : logout[i] # "delete"
  <2>1. "logout" \in Calls
    BY DEF Calls
  <2>2. CASE logout = <<>>
    BY <2>1, <2>2, Tuples
  <2>3. CASE logout = <<"logout">>
    <3>1. logout \in Seq(Calls) /\ Len(logout) = 1 /\ logout[1] = "logout"
      BY <2>1, <2>3, Tuples
    <3> QED
      BY <3>1
  <2> QED
    BY <2>2, <2>3
<1> HIDE DEF put, replace, logout
<1>5. put \o replace \in Seq(Calls) /\ (put \o replace) \o logout \in Seq(Calls)
  BY <1>2, <1>3, <1>4, ConcatProperties
<1>6. ASSUME ~role PROVE \A i \in 1 .. Len((put \o replace) \o logout) :
                            ((put \o replace) \o logout)[i] # "delete"
  <2>1. put \o replace = put
    BY <1>2, <1>3, <1>6, ConcatEmptySeq
  <2>2. /\ Len(put) \in Nat /\ Len(logout) \in Nat /\ Len(put \o logout) = Len(put) + Len(logout)
        /\ \A i \in 1 .. Len(put) + Len(logout) :
              (put \o logout)[i] = IF i <= Len(put) THEN put[i] ELSE logout[i - Len(put)]
    BY <1>2, <1>4, ConcatProperties, LenProperties
  <2>3. \A i \in 1 .. Len(put \o logout) : (put \o logout)[i] # "delete"
    BY <1>2, <1>4, <2>2
  <2> QED
    BY <2>1, <2>3
<1> QED
  BY <1>1, <1>5, <1>6

-----------------------------------------------------------------------------
(* What a request is doing, and what it holds *)

Formal ==
    /\ \A u \in Users : keycloak[u].role = "absent" => keycloak[u] = Absent
    /\ \A q \in Requests :
          /\ Busy(q) =>
                /\ request[q].want.role \in FORMAL_ROLES
                /\ keycloak[request[q].on].role # "absent"
                /\ request[q].seen # None =>
                      request[q].calls = <<>> /\ request[q].seen.role \in FORMAL_ROLES
          /\ request[q].kind = "get" => request[q].seen.role \in FORMAL_ROLES
          /\ request[q].kind = "list" =>
                \A u \in DOMAIN request[q].seen : request[q].seen[u].role \in FORMAL_ROLES

LEMMA RecordsAre ==
    ASSUME TypeOK, NEW q \in Requests
    PROVE  /\ request[q] \in Working
           /\ request[q].kind = "idle" => request[q] = Idle
           /\ Busy(q) => request[q] \in BusyRecord
           /\ request[q].kind \in {"wait", "guarded"} => request[q] \in WaitRecord
           /\ request[q].kind = "get" => request[q] \in GetRecord
           /\ request[q].kind = "list" => request[q] \in ListRecord
           /\ request[q].kind = "provision" => request[q] \in ProvisionRecord
<1>1. request[q] \in Working
  BY DEF TypeOK
<1> QED
  BY <1>1, Kinds DEF Busy

LEMMA RecordsWork ==
    /\ Idle \in Working /\ Idle.kind = "idle"
    /\ BusyRecord \subseteq Working /\ WaitRecord \subseteq Working
    /\ GetRecord \subseteq Working /\ ListRecord \subseteq Working
    /\ ProvisionRecord \subseteq Working
BY DEF Working, Idle, BusyRecord, WaitRecord, GetRecord, ListRecord, ProvisionRecord

\* Request q goes on to do n, and the others on with what they do.
Becomes(q, n) ==
    /\ n \in Working
    /\ request' \in [Requests -> Working]
    /\ \A p \in Requests : request'[p] = IF p = q THEN n ELSE request[p]

LEMMA GoesOn ==
    ASSUME TypeOK, NEW q \in Requests, NEW n \in Working, request' = [request EXCEPT ![q] = n]
    PROVE  Becomes(q, n)
BY DEF TypeOK, Becomes

\* A call is made: what is left of a change or a creation.
LEMMA AfterCall ==
    ASSUME TypeOK, NEW q \in Requests, CallKeycloak(q)
    PROVE  /\ request[q] \in BusyRecord
           /\ \E n \in BusyRecord :
                 /\ Becomes(q, n)
                 /\ n.kind = request[q].kind /\ n.on = request[q].on /\ n.want = request[q].want
                 /\ n.seen = request[q].seen /\ n.misled = request[q].misled
                 /\ n.calls = Tail(request[q].calls)
           /\ Head(request[q].calls) \in Calls
           /\ \E account \in Account :
                 /\ account = Called(keycloak[request[q].on], Head(request[q].calls),
                                     request[q].want)
                 /\ keycloak' = [keycloak EXCEPT ![request[q].on] = account]
<1>1. request[q] \in BusyRecord /\ request[q].calls \in Seq(Calls) /\ request[q].calls # <<>>
  BY RecordsAre DEF CallKeycloak, BusyRecord
<1>2. Tail(request[q].calls) \in Seq(Calls) /\ Head(request[q].calls) \in Calls
  BY <1>1, HeadTailProperties
<1> DEFINE n == [request[q] EXCEPT !.calls = Tail(@)]
<1>3. /\ n \in BusyRecord
      /\ n.kind = request[q].kind /\ n.on = request[q].on /\ n.want = request[q].want
      /\ n.seen = request[q].seen /\ n.misled = request[q].misled
      /\ n.calls = Tail(request[q].calls)
  BY <1>1, <1>2 DEF BusyRecord
<1>4. request' = [request EXCEPT ![q] = n]
  BY DEF CallKeycloak
<1> HIDE DEF n
<1>5. Becomes(q, n)
  BY <1>3, <1>4, GoesOn, RecordsWork
<1>6. /\ keycloak[request[q].on] \in Account /\ request[q].want \in Account
      /\ keycloak' = [keycloak EXCEPT ![request[q].on] =
                        Called(keycloak[request[q].on], Head(request[q].calls), request[q].want)]
  BY <1>1 DEF CallKeycloak, BusyRecord, TypeOK
<1> QED
  BY <1>1, <1>2, <1>3, <1>5, <1>6, CalledIs

\* The account is read in the end.
LEMMA AfterRead ==
    ASSUME TypeOK, NEW q \in Requests, ReadAfterWrite(q), request'[q] # Idle
    PROVE  /\ request[q] \in BusyRecord /\ HasFormalRole(request[q].on)
           /\ \E n \in BusyRecord :
                 /\ Becomes(q, n)
                 /\ n.kind = request[q].kind /\ n.on = request[q].on /\ n.want = request[q].want
                 /\ n.seen = keycloak[request[q].on] /\ n.misled = request[q].misled
                 /\ n.calls = request[q].calls
<1>1. request[q] \in BusyRecord /\ keycloak[request[q].on] \in Account
  BY RecordsAre DEF ReadAfterWrite, BusyRecord, TypeOK
<1> DEFINE n == [request[q] EXCEPT !.seen = keycloak[request[q].on]]
<1>2. /\ n \in BusyRecord
      /\ n.kind = request[q].kind /\ n.on = request[q].on /\ n.want = request[q].want
      /\ n.seen = keycloak[request[q].on] /\ n.misled = request[q].misled
      /\ n.calls = request[q].calls
  BY <1>1 DEF BusyRecord
<1>3. request' = [request EXCEPT ![q] = n] /\ HasFormalRole(request[q].on)
  BY DEF ReadAfterWrite, Goes, TypeOK
<1> HIDE DEF n
<1>4. Becomes(q, n)
  BY <1>2, <1>3, GoesOn, RecordsWork
<1> QED
  BY <1>1, <1>2, <1>3, <1>4

\* The guard is taken: a request that waited has it, a creation is about to commit.
LEMMA AfterGuard ==
    ASSUME TypeOK, NEW q \in Requests, TakeGuard(q)
    PROVE  \/ /\ request[q] \in WaitRecord /\ request[q].kind = "wait"
              /\ \E n \in WaitRecord :
                    /\ Becomes(q, n) /\ n.kind = "guarded"
                    /\ n.by = request[q].by /\ n.snapshot = request[q].snapshot
           \/ /\ request[q] \in BusyRecord /\ request[q].kind = "create"
              /\ request[q].seen # None
              /\ \E n \in BusyRecord :
                    /\ Becomes(q, n)
                    /\ n.kind = "created" /\ n.on = request[q].on /\ n.want = request[q].want
                    /\ n.seen = request[q].seen /\ n.misled = request[q].misled
                    /\ n.calls = request[q].calls
<1>1. CASE request[q].kind = "wait"
  <2> DEFINE n == [request[q] EXCEPT !.kind = "guarded"]
  <2>1. request[q] \in WaitRecord
    BY <1>1, RecordsAre
  <2>2. /\ n \in WaitRecord /\ n.kind = "guarded"
        /\ n.by = request[q].by /\ n.snapshot = request[q].snapshot
    BY <2>1 DEF WaitRecord
  <2>3. request' = [request EXCEPT ![q] = n]
    BY <1>1 DEF TakeGuard
  <2> HIDE DEF n
  <2>4. Becomes(q, n)
    BY <2>2, <2>3, GoesOn, RecordsWork
  <2> QED
    BY <1>1, <2>1, <2>2, <2>4
<1>2. CASE request[q].kind = "create" /\ request[q].seen # None
  <2> DEFINE n == [request[q] EXCEPT !.kind = "created"]
  <2>1. request[q] \in BusyRecord
    BY <1>2, RecordsAre DEF Busy
  <2>2. /\ n \in BusyRecord
        /\ n.kind = "created" /\ n.on = request[q].on /\ n.want = request[q].want
        /\ n.seen = request[q].seen /\ n.misled = request[q].misled
        /\ n.calls = request[q].calls
    BY <2>1 DEF BusyRecord
  <2>3. request' = [request EXCEPT ![q] = n]
    BY <1>2 DEF TakeGuard
  <2> HIDE DEF n
  <2>4. Becomes(q, n)
    BY <2>2, <2>3, GoesOn, RecordsWork
  <2> QED
    BY <1>2, <2>1, <2>2, <2>4
<1> QED
  BY <1>1, <1>2 DEF TakeGuard

\* A change is decided on: what it wants, and what it was decided on.
LEMMA AfterUpdate ==
    ASSUME TypeOK, NEW q \in Requests, NEW u \in Users, UpdateUser(q, u)
    PROVE  \E command \in Commands, profile \in BOOLEAN, want \in Account, n \in BusyRecord :
              \E admins :
                 /\ request[q] \in WaitRecord
                 /\ admins = (IF Snapshots THEN request[q].snapshot ELSE Administrators(local))
                 /\ ~Refused(request[q].by, u, command, admins)
                 /\ want.role = Or(command.role, keycloak[u].role) /\ want.role \in FORMAL_ROLES
                 /\ want.enabled = Or(command.enabled, keycloak[u].enabled)
                 /\ Becomes(q, n)
                 /\ n.kind = "change" /\ n.on = u /\ n.want = want /\ n.seen = None
                 /\ n.calls = CallsOf(keycloak[u], want, profile)
                 /\ ~n.misled => admins \subseteq Administrators(keycloak) /\ local[u] = keycloak[u]
<1> DEFINE admins == IF Snapshots THEN request[q].snapshot ELSE Administrators(local)
           want(command) == [role |-> Or(command.role, keycloak[u].role),
                             enabled |-> Or(command.enabled, keycloak[u].enabled)]
           misled == \/ ~(admins \subseteq Administrators(keycloak))
                     \/ local[u] # keycloak[u]
           new(command, profile) ==
              [kind |-> "change", on |-> u, want |-> want(command), seen |-> None,
               calls |-> CallsOf(keycloak[u], want(command), profile), misled |-> misled]
<1>1. PICK command \in Commands, profile \in BOOLEAN :
         /\ ~Refused(request[q].by, u, command, admins)
         /\ request' = [request EXCEPT ![q] = new(command, profile)]
  BY Zenon DEF UpdateUser, Goes
<1>2. request[q] \in WaitRecord
  BY RecordsAre DEF UpdateUser
<1>3. /\ want(command) \in Account
      /\ want(command).role = Or(command.role, keycloak[u].role)
      /\ want(command).role \in FORMAL_ROLES
      /\ want(command).enabled = Or(command.enabled, keycloak[u].enabled)
  <2>1. keycloak[u] \in Account /\ keycloak[u].role \in FORMAL_ROLES
    BY DEF TypeOK, UpdateUser, HasFormalRole
  <2>2. command.role \in FORMAL_ROLES \cup {None} /\ command.enabled \in BOOLEAN \cup {None}
    BY DEF Commands
  <2>3. /\ Or(command.role, keycloak[u].role) \in FORMAL_ROLES
        /\ Or(command.enabled, keycloak[u].enabled) \in BOOLEAN
    BY <2>1, <2>2 DEF Or, Account
  <2> QED
    BY <2>3 DEF Account
<1>4. misled \in BOOLEAN
  OBVIOUS
<1>5. CallsOf(keycloak[u], want(command), profile) \in Seq(Calls)
  BY <1>3, CallsOfIs DEF TypeOK
<1> HIDE DEF want, misled
<1>6. /\ new(command, profile) \in BusyRecord
      /\ new(command, profile).kind = "change" /\ new(command, profile).on = u
      /\ new(command, profile).want = want(command) /\ new(command, profile).seen = None
      /\ new(command, profile).calls = CallsOf(keycloak[u], want(command), profile)
      /\ new(command, profile).misled = misled
  BY <1>3, <1>4, <1>5 DEF BusyRecord
<1>7. ~misled => admins \subseteq Administrators(keycloak) /\ local[u] = keycloak[u]
  BY Zenon DEF misled
<1> HIDE DEF new, admins
<1>8. Becomes(q, new(command, profile))
  BY <1>1, <1>6, GoesOn, RecordsWork
<1>9. admins = (IF Snapshots THEN request[q].snapshot ELSE Administrators(local))
  BY Zenon DEF admins
<1> QED
  BY <1>1, <1>2, <1>3, <1>6, <1>7, <1>8, <1>9

LEMMA AfterCreate ==
    ASSUME TypeOK, NEW q \in Requests, NEW by \in Users, NEW u \in Users, CreateUser(q, by, u)
    PROVE  \E n \in BusyRecord :
              /\ Becomes(q, n)
              /\ n.kind = "create" /\ n.on = u /\ n.seen = None
              /\ n.want.role \in FORMAL_ROLES /\ n.want.enabled = TRUE
              /\ n.calls = <<"post", "put", "logout">>
<1>1. PICK role \in FORMAL_ROLES :
         request' = [request EXCEPT ![q] =
            [kind |-> "create", on |-> u, seen |-> None, misled |-> FALSE,
             want |-> [role |-> role, enabled |-> TRUE], calls |-> <<"post", "put", "logout">>]]
  BY DEF CreateUser, Goes
<1>2. <<"post", "put", "logout">> \in Seq(Calls)
  BY DEF Calls
<1> DEFINE n == [kind |-> "create", on |-> u, seen |-> None, misled |-> FALSE,
                 want |-> [role |-> role, enabled |-> TRUE], calls |-> <<"post", "put", "logout">>]
<1>3. /\ n \in BusyRecord
      /\ n.kind = "create" /\ n.on = u /\ n.seen = None
      /\ n.want.role \in FORMAL_ROLES /\ n.want.enabled = TRUE
      /\ n.calls = <<"post", "put", "logout">>
  BY <1>2 DEF BusyRecord, Account
<1>4. request' = [request EXCEPT ![q] = n]
  BY <1>1
<1> HIDE DEF n
<1> QED
  BY <1>3, <1>4, GoesOn, RecordsWork

\* What a request begins with, other than a change or a creation.
LEMMA AfterBegin ==
    ASSUME TypeOK, Formal, NEW q \in Requests, NEW u \in Users, NEW by \in Users,
           FirstAccess(q, u) \/ ListUsers(q, u) \/ OpenGuarded(q, u) \/ GetUser(q, by, u)
    PROVE  \E n \in Working :
              /\ Becomes(q, n)
              /\ \/ n \in ProvisionRecord
                 \/ /\ n \in ListRecord
                    /\ \A v \in DOMAIN n.seen : n.seen[v].role \in FORMAL_ROLES
                 \/ /\ n \in WaitRecord /\ n.kind = "wait"
                    /\ n.by \in n.snapshot /\ n.snapshot = Administrators(local)
                 \/ /\ n \in GetRecord /\ n.on = u /\ RowIsFree(u)
                    /\ n.seen = keycloak[u] /\ HasFormalRole(u)
<1>1. CASE FirstAccess(q, u)
  <2> DEFINE n == [kind |-> "provision", on |-> u, role |-> keycloak[u].role]
  <2>1. n \in ProvisionRecord
    BY <1>1 DEF FirstAccess, HasFormalRole, ProvisionRecord
  <2>2. request' = [request EXCEPT ![q] = n]
    BY <1>1 DEF FirstAccess, Goes
  <2> HIDE DEF n
  <2> QED
    BY <2>1, <2>2, GoesOn, RecordsWork
<1>2. CASE ListUsers(q, u)
  <2>1. PICK page \in SUBSET {v \in Users : keycloak[v] # Absent} :
           request' = [request EXCEPT ![q] =
                          [kind |-> "list", seen |-> [v \in page |-> keycloak[v]]]]
    BY <1>2 DEF ListUsers, Goes
  <2> DEFINE seen == [v \in page |-> keycloak[v]]
             n == [kind |-> "list", seen |-> seen]
  <2>2. page \in SUBSET Users /\ seen \in [page -> Account] /\ DOMAIN seen = page
    BY DEF TypeOK
  <2>3. \A v \in page : seen[v].role \in FORMAL_ROLES
    <3>1. ASSUME NEW v \in page PROVE keycloak[v].role \in FORMAL_ROLES
      <4>1. /\ v \in Users /\ keycloak[v] \in Account /\ keycloak[v] # Absent
            /\ keycloak[v].role # "none"
        BY <1>2 DEF TypeOK, ListUsers
      <4>2. keycloak[v].role # "absent"
        BY <4>1 DEF Formal
      <4> QED
        BY <4>1, <4>2 DEF Account
    <3> QED
      BY <3>1
  <2> HIDE DEF seen
  <2>4. n \in ListRecord /\ n.seen = seen
    BY <2>2 DEF ListRecord
  <2>5. request' = [request EXCEPT ![q] = n]
    BY <2>1 DEF seen
  <2> HIDE DEF n
  <2> QED
    BY <2>2, <2>3, <2>4, <2>5, GoesOn, RecordsWork
<1>3. CASE OpenGuarded(q, u)
  <2> DEFINE n == [kind |-> "wait", by |-> u, snapshot |-> Administrators(local)]
  <2>1. Administrators(local) \in SUBSET Users
    BY DEF Administrators
  <2>2. n \in WaitRecord /\ n.kind = "wait" /\ n.by = u /\ n.snapshot = Administrators(local)
    BY <2>1 DEF WaitRecord
  <2>3. request' = [request EXCEPT ![q] = n] /\ u \in Administrators(local)
    BY <1>3 DEF OpenGuarded, Goes, ActsAsAdmin
  <2> HIDE DEF n
  <2> QED
    BY <2>2, <2>3, GoesOn, RecordsWork
<1>4. CASE GetUser(q, by, u)
  <2> DEFINE n == [kind |-> "get", on |-> u, seen |-> keycloak[u]]
  <2>1. n \in GetRecord /\ n.on = u /\ n.seen = keycloak[u]
    BY DEF GetRecord, TypeOK
  <2>2. request' = [request EXCEPT ![q] = n] /\ RowIsFree(u) /\ HasFormalRole(u)
    BY <1>4 DEF GetUser, Goes
  <2> HIDE DEF n
  <2> QED
    BY <2>1, <2>2, GoesOn, RecordsWork
<1> QED
  BY <1>1, <1>2, <1>3, <1>4

-----------------------------------------------------------------------------
(* The steps, by what they do to a request *)

Begins(q, n) ==
    /\ request[q] = Idle /\ UNCHANGED <<keycloak, local, faults>>
    /\ \/ n \in ProvisionRecord
       \/ n \in ListRecord /\ \A v \in DOMAIN n.seen : n.seen[v].role \in FORMAL_ROLES
       \/ /\ n \in WaitRecord /\ n.kind = "wait"
          /\ n.by \in n.snapshot /\ n.snapshot = Administrators(local)
       \/ /\ n \in GetRecord /\ RowIsFree(n.on)
          /\ n.seen = keycloak[n.on] /\ HasFormalRole(n.on)

Creates(q, n) ==
    /\ request[q] = Idle /\ UNCHANGED <<local, faults>>
    /\ n \in BusyRecord /\ n.kind = "create" /\ n.seen = None
    /\ n.want.role \in FORMAL_ROLES /\ n.want.enabled = TRUE
    /\ n.calls = <<"post", "put", "logout">>
    /\ keycloak[n.on] = Absent
    /\ keycloak' = [keycloak EXCEPT ![n.on] = [role |-> "none", enabled |-> FALSE]]

Decides(q, n) ==
    /\ UNCHANGED <<keycloak, local, faults>>
    /\ request[q] \in WaitRecord /\ request[q].kind = "guarded"
    /\ n \in BusyRecord /\ n.kind = "change" /\ n.seen = None /\ n.want.role \in FORMAL_ROLES
    /\ RowIsFree(n.on) /\ HasFormalRole(n.on)
    /\ \E command \in Commands, profile \in BOOLEAN : \E admins :
          /\ admins = (IF Snapshots THEN request[q].snapshot ELSE Administrators(local))
          /\ ~Refused(request[q].by, n.on, command, admins)
          /\ n.want.role = Or(command.role, keycloak[n.on].role)
          /\ n.want.enabled = Or(command.enabled, keycloak[n.on].enabled)
          /\ n.calls = CallsOf(keycloak[n.on], n.want, profile)
          /\ ~n.misled =>
                admins \subseteq Administrators(keycloak) /\ local[n.on] = keycloak[n.on]

Same(q, n) ==
    /\ request[q] \in BusyRecord /\ n \in BusyRecord
    /\ n.on = request[q].on /\ n.want = request[q].want /\ n.misled = request[q].misled

Makes(q, n) ==
    /\ UNCHANGED <<local, faults>>
    /\ Same(q, n) /\ n.kind = request[q].kind /\ n.seen = request[q].seen
    /\ request[q].calls # <<>> /\ n.calls = Tail(request[q].calls)
    /\ Head(request[q].calls) \in Calls
    /\ \E account \in Account :
          /\ account = Called(keycloak[n.on], Head(request[q].calls), n.want)
          /\ keycloak' = [keycloak EXCEPT ![n.on] = account]

Reads(q, n) ==
    /\ UNCHANGED <<keycloak, local, faults>>
    /\ Same(q, n) /\ n.kind = request[q].kind /\ n.calls = request[q].calls /\ n.calls = <<>>
    /\ HasFormalRole(n.on) /\ n.seen = keycloak[n.on]

Guards(q, n) ==
    /\ UNCHANGED <<keycloak, local, faults>>
    /\ GuardIsFree
    /\ \/ /\ request[q] \in WaitRecord /\ request[q].kind = "wait"
          /\ n \in WaitRecord /\ n.kind = "guarded"
          /\ n.by = request[q].by /\ n.snapshot = request[q].snapshot
       \/ /\ Same(q, n) /\ request[q].kind = "create" /\ n.kind = "created"
          /\ n.seen = request[q].seen /\ n.seen # None /\ n.calls = request[q].calls

Ends(q, n) ==
    /\ UNCHANGED keycloak /\ faults' \in 0 .. MaxFaults
    /\ n = Idle
    /\ \/ UNCHANGED local
       \/ /\ request[q].kind = "provision" /\ request[q].on \in Users
          /\ \E row \in Account :
                /\ row.role \in FORMAL_ROLES \cup {"absent"}
                /\ local' = [local EXCEPT ![request[q].on] = row]
       \/ /\ request[q].kind = "list"
          /\ local' = [u \in Users |->
                IF u \in DOMAIN request[q].seen THEN request[q].seen[u] ELSE local[u]]
       \/ /\ request[q].kind \in {"get", "change", "created"}
          /\ request[q].kind # "get" => request[q].seen # None
          /\ request[q].on \in Users /\ request[q].seen \in Account
          /\ local' = [local EXCEPT ![request[q].on] = request[q].seen]

LEMMA Steps ==
    ASSUME TypeOK, Formal, Next
    PROVE  \E q \in Requests, n \in Working :
              /\ Becomes(q, n)
              /\ \/ Begins(q, n) \/ Creates(q, n) \/ Decides(q, n) \/ Makes(q, n)
                 \/ Reads(q, n) \/ Guards(q, n) \/ Ends(q, n)
<1>1. ASSUME NEW q \in Requests, NEW u \in Users, NEW by \in Users,
             FirstAccess(q, u) \/ ListUsers(q, u) \/ OpenGuarded(q, u) \/ GetUser(q, by, u)
      PROVE  \E n \in Working : Becomes(q, n) /\ Begins(q, n)
  <2>1. request[q] = Idle /\ UNCHANGED <<keycloak, local, faults>>
    BY <1>1 DEF FirstAccess, ListUsers, OpenGuarded, GetUser
  <2> QED
    BY <1>1, <2>1, AfterBegin DEF Begins
<1>2. ASSUME NEW q \in Requests, NEW u \in Users, NEW by \in Users, CreateUser(q, by, u)
      PROVE  \E n \in Working : Becomes(q, n) /\ Creates(q, n)
  <2>1. /\ request[q] = Idle /\ UNCHANGED <<local, faults>> /\ keycloak[u] = Absent
        /\ keycloak' = [keycloak EXCEPT ![u] = [role |-> "none", enabled |-> FALSE]]
    BY <1>2 DEF CreateUser
  <2>2. PICK n \in BusyRecord :
           /\ Becomes(q, n)
           /\ n.kind = "create" /\ n.on = u /\ n.seen = None
           /\ n.want.role \in FORMAL_ROLES /\ n.want.enabled = TRUE
           /\ n.calls = <<"post", "put", "logout">>
    BY <1>2, AfterCreate
  <2>3. Creates(q, n)
    BY <2>1, <2>2 DEF Creates
  <2> QED
    BY <2>2, <2>3, RecordsWork
<1>3. ASSUME NEW q \in Requests, NEW u \in Users, UpdateUser(q, u)
      PROVE  \E n \in Working : Becomes(q, n) /\ Decides(q, n)
  <2>1. /\ UNCHANGED <<keycloak, local, faults>> /\ request[q].kind = "guarded"
        /\ RowIsFree(u) /\ HasFormalRole(u)
    BY <1>3 DEF UpdateUser
  <2> QED
    BY <1>3, <2>1, AfterUpdate, RecordsWork DEF Decides
<1>4. ASSUME NEW q \in Requests, CallKeycloak(q)
      PROVE  \E n \in Working : Becomes(q, n) /\ Makes(q, n)
  <2>1. UNCHANGED <<local, faults>> /\ request[q].calls # <<>>
    BY <1>4 DEF CallKeycloak
  <2> QED
    BY <1>4, <2>1, AfterCall, RecordsWork DEF Makes, Same
<1>5. ASSUME NEW q \in Requests, ReadAfterWrite(q)
      PROVE  \E n \in Working : Becomes(q, n) /\ (Reads(q, n) \/ Ends(q, n))
  <2>1. UNCHANGED <<keycloak, local, faults>> /\ request[q].calls = <<>> /\ faults \in 0 .. MaxFaults
    BY <1>5 DEF ReadAfterWrite, TypeOK
  <2>2. CASE request' = [request EXCEPT ![q] = Idle]
    BY <2>1, <2>2, GoesOn, RecordsWork DEF Ends
  <2>3. CASE request'[q] # Idle
    BY <1>5, <2>1, <2>3, AfterRead, RecordsWork DEF Reads, Same
  <2>4. CASE request'[q] = Idle /\ HasFormalRole(request[q].on)
             /\ request' = [request EXCEPT ![q].seen = keycloak[request[q].on]]
    <3>1. request[q] \in BusyRecord
      BY <1>5, RecordsAre DEF ReadAfterWrite
    <3>2. [request[q] EXCEPT !.seen = keycloak[request[q].on]].kind = request[q].kind
      BY <3>1 DEF BusyRecord
    <3>3. request'[q] = [request[q] EXCEPT !.seen = keycloak[request[q].on]]
      BY <2>4 DEF TypeOK
    <3> QED
      BY <2>4, <3>1, <3>2, <3>3 DEF BusyRecord, Idle
  <2> QED
    BY <1>5, <2>2, <2>3, <2>4 DEF ReadAfterWrite, Goes
<1>6. ASSUME NEW q \in Requests, TakeGuard(q)
      PROVE  \E n \in Working : Becomes(q, n) /\ Guards(q, n)
  <2>1. UNCHANGED <<keycloak, local, faults>> /\ GuardIsFree
    BY <1>6 DEF TakeGuard
  <2> QED
    BY <1>6, <2>1, AfterGuard, RecordsWork DEF Guards, Same
<1>7. ASSUME NEW q \in Requests,
             Provision(q) \/ SyncPage(q) \/ SyncUser(q) \/ Commit(q) \/ Refuse(q) \/ Fail(q)
      PROVE  Becomes(q, Idle) /\ Ends(q, Idle)
  <2>1. /\ UNCHANGED keycloak /\ faults' \in 0 .. MaxFaults
        /\ request' = [request EXCEPT ![q] = Idle]
    <3>1. faults \in 0 .. MaxFaults
      BY DEF TypeOK
    <3>2. CASE Fail(q)
      <4>1. faults < MaxFaults /\ faults' = faults + 1
        BY <3>2 DEF Fail
      <4>2. faults' \in 0 .. MaxFaults
        BY <3>1, <4>1, IdentityAssumption
      <4> QED
        BY <3>2, <4>2 DEF Fail, Goes
    <3> QED
      BY <1>7, <3>1, <3>2 DEF Provision, SyncPage, SyncUser, Commit, Refuse, Goes
  <2>2. Becomes(q, Idle)
    BY <2>1, GoesOn, RecordsWork
  <2>3. CASE Provision(q)
    <3>1. /\ request[q].kind = "provision" /\ request[q].on \in Users
          /\ request[q].role \in FORMAL_ROLES
      BY <2>3, RecordsAre DEF Provision, ProvisionRecord
    <3> DEFINE row == IF local[request[q].on] = Absent \/ local[request[q].on].enabled
                      THEN [role |-> request[q].role, enabled |-> TRUE]
                      ELSE local[request[q].on]
    <3>2. local' = [local EXCEPT ![request[q].on] = row]
      BY <2>3 DEF Provision
    <3>3. row \in Account /\ row.role \in FORMAL_ROLES \cup {"absent"}
      BY <3>1 DEF Account, TypeOK
    <3> HIDE DEF row
    <3> QED
      BY <2>1, <2>2, <3>1, <3>2, <3>3 DEF Ends
  <2>4. CASE SyncPage(q)
    BY <2>1, <2>2, <2>4 DEF SyncPage, Ends
  <2>5. CASE SyncUser(q)
    <3>1. /\ request[q].kind = "get" /\ request[q] \in GetRecord
          /\ local' = [local EXCEPT ![request[q].on] = request[q].seen]
      BY <2>5, RecordsAre DEF SyncUser
    <3>2. request[q].on \in Users /\ request[q].seen \in Account
      BY <3>1 DEF GetRecord
    <3> QED
      BY <2>1, <2>2, <3>1, <3>2 DEF Ends
  <2>6. CASE Commit(q)
    <3>1. /\ request[q].kind \in {"change", "created"} /\ request[q] \in BusyRecord
          /\ request[q].seen # None
          /\ local' = [local EXCEPT ![request[q].on] = request[q].seen]
      BY <2>6, RecordsAre DEF Commit, Busy
    <3>2. request[q].on \in Users /\ request[q].seen \in Account
      BY <3>1 DEF BusyRecord
    <3> QED
      BY <2>1, <2>2, <3>1, <3>2 DEF Ends
  <2>7. CASE Refuse(q) \/ Fail(q)
    BY <2>1, <2>2, <2>7 DEF Refuse, Fail, Ends
  <2> QED
    BY <1>7, <2>2, <2>3, <2>4, <2>5, <2>6, <2>7
<1>8. Idle \in Working
  BY RecordsWork
<1> QED
  BY <1>1, <1>2, <1>3, <1>4, <1>5, <1>6, <1>7, <1>8 DEF Next, Proceed

-----------------------------------------------------------------------------
(* Types, and roles that are formal wherever they are read *)

LEMMA NoneIsFormal == "none" \notin FORMAL_ROLES /\ "absent" \notin FORMAL_ROLES
BY DEF FORMAL_ROLES

LEMMA KeycloakStep ==
    ASSUME TypeOK, Formal, NEW q \in Requests, NEW n \in Working,
           \/ Begins(q, n) \/ Creates(q, n) \/ Decides(q, n) \/ Makes(q, n)
           \/ Reads(q, n) \/ Guards(q, n) \/ Ends(q, n)
    PROVE  /\ keycloak' \in [Users -> Account]
           /\ \A u \in Users : keycloak'[u].role = "absent" => keycloak'[u] = keycloak[u]
           /\ \A u \in Users : keycloak[u].role # "absent" => keycloak'[u].role # "absent"
<1>1. CASE keycloak' = keycloak
  BY <1>1 DEF TypeOK
<1>2. CASE Creates(q, n)
  <2>1. n.on \in Users /\ [role |-> "none", enabled |-> FALSE] \in Account
    BY <1>2 DEF Creates, BusyRecord, Account
  <2> QED
    BY <1>2, <2>1 DEF Creates, TypeOK, Absent
<1>3. CASE Makes(q, n)
  <2>1. n.on \in Users /\ n.on = request[q].on /\ n.want = request[q].want /\ Busy(q)
    BY <1>3 DEF Makes, Same, BusyRecord, Busy
  <2>2. keycloak[n.on].role # "absent" /\ n.want.role # "absent"
    BY <2>1, NoneIsFormal DEF Formal
  <2>3. PICK account \in Account :
           /\ account = Called(keycloak[n.on], Head(request[q].calls), n.want)
           /\ keycloak' = [keycloak EXCEPT ![n.on] = account]
    BY <1>3 DEF Makes
  <2>4. account.role # "absent"
    BY <2>2, <2>3 DEF Called
  <2> QED
    BY <2>1, <2>2, <2>3, <2>4 DEF TypeOK
<1> QED
  BY <1>1, <1>2, <1>3 DEF Begins, Decides, Reads, Guards, Ends

LEMMA TypeStep == TypeOK /\ Formal /\ [Next]_vars => TypeOK'
<1> SUFFICES ASSUME TypeOK, Formal, [Next]_vars PROVE TypeOK'
  OBVIOUS
<1>1. CASE UNCHANGED vars
  BY <1>1 DEF vars, TypeOK
<1>2. CASE Next
  <2>1. PICK q \in Requests, n \in Working :
           /\ Becomes(q, n)
           /\ \/ Begins(q, n) \/ Creates(q, n) \/ Decides(q, n) \/ Makes(q, n)
              \/ Reads(q, n) \/ Guards(q, n) \/ Ends(q, n)
    BY <1>2, Steps
  <2>2. keycloak' \in [Users -> Account]
    BY <2>1, KeycloakStep
  <2>3. faults' \in 0 .. MaxFaults
    BY <2>1 DEF Begins, Creates, Decides, Makes, Reads, Guards, Ends, TypeOK
  <2>4. /\ local' \in [Users -> Account]
        /\ \A u \in Users : local'[u].role \in FORMAL_ROLES \cup {"absent"}
    <3>1. CASE local' = local
      BY <3>1 DEF TypeOK
    <3>2. CASE /\ request[q].kind = "list"
               /\ local' = [u \in Users |->
                    IF u \in DOMAIN request[q].seen THEN request[q].seen[u] ELSE local[u]]
      <4>1. request[q] \in ListRecord
        BY <3>2, RecordsAre
      <4>2. \A u \in DOMAIN request[q].seen :
               request[q].seen[u] \in Account /\ request[q].seen[u].role \in FORMAL_ROLES
        BY <3>2, <4>1 DEF ListRecord, Formal
      <4> QED
        BY <3>2, <4>2 DEF TypeOK
    <3>3. ASSUME NEW u \in Users, NEW row \in Account, row.role \in FORMAL_ROLES \cup {"absent"},
                 local' = [local EXCEPT ![u] = row]
          PROVE  <2>4
      BY <3>3 DEF TypeOK
    <3>4. CASE /\ request[q].kind \in {"get", "change", "created"}
               /\ request[q].kind # "get" => request[q].seen # None
               /\ request[q].on \in Users /\ request[q].seen \in Account
               /\ local' = [local EXCEPT ![request[q].on] = request[q].seen]
      <4>1. request[q].seen.role \in FORMAL_ROLES
        BY <3>4 DEF Formal, Busy
      <4> QED
        BY <3>3, <3>4, <4>1
    <3> QED
      BY <2>1, <3>1, <3>2, <3>3, <3>4
      DEF Begins, Creates, Decides, Makes, Reads, Guards, Ends
  <2> QED
    BY <2>1, <2>2, <2>3, <2>4 DEF TypeOK, Becomes
<1> QED
  BY <1>1, <1>2

\* A request that is not q goes on as it was.
LEMMA FormalStep == TypeOK /\ Formal /\ [Next]_vars => Formal'
<1> SUFFICES ASSUME TypeOK, Formal, [Next]_vars PROVE Formal'
  OBVIOUS
<1>1. CASE UNCHANGED vars
  BY <1>1 DEF vars, Formal, Busy
<1>2. CASE Next
  <2>1. PICK q \in Requests, n \in Working :
           /\ Becomes(q, n)
           /\ \/ Begins(q, n) \/ Creates(q, n) \/ Decides(q, n) \/ Makes(q, n)
              \/ Reads(q, n) \/ Guards(q, n) \/ Ends(q, n)
    BY <1>2, Steps
  <2>2. /\ \A u \in Users : keycloak'[u].role = "absent" => keycloak'[u] = Absent
        /\ \A u \in Users : keycloak[u].role # "absent" => keycloak'[u].role # "absent"
    BY <2>1, KeycloakStep DEF Formal
  <2>3. ASSUME NEW p \in Requests, p # q
        PROVE  /\ Busy(p)' =>
                     /\ request'[p].want.role \in FORMAL_ROLES
                     /\ keycloak'[request'[p].on].role # "absent"
                     /\ request'[p].seen # None =>
                           request'[p].calls = <<>> /\ request'[p].seen.role \in FORMAL_ROLES
               /\ request'[p].kind = "get" => request'[p].seen.role \in FORMAL_ROLES
               /\ request'[p].kind = "list" =>
                     \A u \in DOMAIN request'[p].seen : request'[p].seen[u].role \in FORMAL_ROLES
    <3>1. request'[p] = request[p]
      BY <2>1, <2>3 DEF Becomes
    <3>2. Busy(p) => request[p].on \in Users
      BY RecordsAre DEF BusyRecord
    <3> QED
      BY <2>2, <3>1, <3>2 DEF Formal, Busy
  <2>4. /\ n \in BusyRecord =>
              /\ n.want.role \in FORMAL_ROLES
              /\ keycloak'[n.on].role # "absent"
              /\ n.seen # None => n.calls = <<>> /\ n.seen.role \in FORMAL_ROLES
        /\ n \in GetRecord => n.seen.role \in FORMAL_ROLES
        /\ n \in ListRecord => \A u \in DOMAIN n.seen : n.seen[u].role \in FORMAL_ROLES
    <3>1. CASE Begins(q, n)
      BY <3>1 DEF Begins, HasFormalRole, BusyRecord, WaitRecord, GetRecord, ListRecord,
                  ProvisionRecord
    <3>2. CASE Creates(q, n)
      <4>1. n.on \in Users /\ n.kind = "create"
        BY <3>2 DEF Creates, BusyRecord
      <4>2. keycloak'[n.on].role # "absent"
        BY <3>2, <4>1 DEF Creates, TypeOK
      <4> QED
        BY <3>2, <4>1, <4>2 DEF Creates, GetRecord, ListRecord
    <3>3. CASE Decides(q, n)
      <4>1. n.on \in Users /\ n.kind = "change" /\ keycloak[n.on].role # "absent"
        BY <3>3, NoneIsFormal DEF Decides, BusyRecord, HasFormalRole
      <4> QED
        BY <2>2, <3>3, <4>1 DEF Decides, GetRecord, ListRecord
    <3>4. CASE Makes(q, n) \/ Reads(q, n)
      <4>1. /\ Busy(q) /\ n.kind = request[q].kind /\ n.on = request[q].on
            /\ n.want = request[q].want /\ n.on \in Users
        BY <3>4 DEF Makes, Reads, Same, BusyRecord, Busy
      <4>2. n.want.role \in FORMAL_ROLES /\ keycloak'[n.on].role # "absent"
        BY <2>2, <4>1 DEF Formal
      <4>3. n.seen # None => n.calls = <<>> /\ n.seen.role \in FORMAL_ROLES
        BY <3>4, <4>1 DEF Makes, Reads, Formal, HasFormalRole
      <4> QED
        BY <4>1, <4>2, <4>3 DEF Busy, GetRecord, ListRecord
    <3>5. CASE Guards(q, n)
      <4>1. CASE n \in WaitRecord
        BY <4>1 DEF WaitRecord, BusyRecord, GetRecord, ListRecord
      <4>2. CASE /\ Same(q, n) /\ request[q].kind = "create" /\ n.kind = "created"
                 /\ n.seen = request[q].seen /\ n.seen # None /\ n.calls = request[q].calls
        <5>1. Busy(q) /\ n.on \in Users
          BY <4>2 DEF Same, Busy, BusyRecord
        <5> QED
          BY <2>2, <4>2, <5>1 DEF Same, Formal, GetRecord, ListRecord
      <4> QED
        BY <3>5, <4>1, <4>2 DEF Guards
    <3>6. CASE Ends(q, n)
      BY <3>6 DEF Ends, Idle, BusyRecord, GetRecord, ListRecord
    <3> QED
      BY <2>1, <3>1, <3>2, <3>3, <3>4, <3>5, <3>6
  <2>5. /\ Busy(q)' =>
              /\ request'[q].want.role \in FORMAL_ROLES
              /\ keycloak'[request'[q].on].role # "absent"
              /\ request'[q].seen # None =>
                    request'[q].calls = <<>> /\ request'[q].seen.role \in FORMAL_ROLES
        /\ request'[q].kind = "get" => request'[q].seen.role \in FORMAL_ROLES
        /\ request'[q].kind = "list" =>
              \A u \in DOMAIN request'[q].seen : request'[q].seen[u].role \in FORMAL_ROLES
    <3>1. request'[q] = n
      BY <2>1 DEF Becomes
    <3>2. /\ n.kind \in {"change", "create", "created"} => n \in BusyRecord
          /\ n.kind = "get" => n \in GetRecord
          /\ n.kind = "list" => n \in ListRecord
      BY Kinds
    <3> QED
      BY <2>4, <3>1, <3>2 DEF Busy
  <2> QED
    BY <2>2, <2>3, <2>5 DEF Formal
<1> QED
  BY <1>1, <1>2

-----------------------------------------------------------------------------
(* What is held while Keycloak is asked *)

\* Nobody else opens or changes a user whom a request opens or changes; one request
\* at a time has the guard.
HoldsRow(q) == request[q].kind \in {"change", "get"}
HoldsGuard(q) == request[q].kind \in {"guarded", "change", "created"}

LocksHold ==
    /\ \A p, q \in Requests :
          HoldsRow(p) /\ HoldsRow(q) /\ request[p].on = request[q].on => p = q
    /\ \A p, q \in Requests : HoldsGuard(p) /\ HoldsGuard(q) => p = q

LEMMA LocksStep == TypeOK /\ Formal /\ LocksHold /\ [Next]_vars => LocksHold'
<1> SUFFICES ASSUME TypeOK, Formal, LocksHold, [Next]_vars PROVE LocksHold'
  OBVIOUS
<1>1. CASE UNCHANGED vars
  BY <1>1 DEF vars, LocksHold, HoldsRow, HoldsGuard
<1>2. CASE Next
  <2>1. PICK q \in Requests, n \in Working :
           /\ Becomes(q, n)
           /\ \/ Begins(q, n) \/ Creates(q, n) \/ Decides(q, n) \/ Makes(q, n)
              \/ Reads(q, n) \/ Guards(q, n) \/ Ends(q, n)
    BY <1>2, Steps
  <2>2. n.kind \in {"change", "get"} =>
           \/ HoldsRow(q) /\ n.on = request[q].on
           \/ RowIsFree(n.on)
    <3>1. CASE Begins(q, n)
      BY <3>1 DEF Begins, WaitRecord, ListRecord, ProvisionRecord
    <3> QED
      BY <2>1, <3>1 DEF Creates, Decides, Makes, Reads, Guards, Ends, Same, HoldsRow, Idle,
                        WaitRecord
  <2>3. n.kind \in {"guarded", "change", "created"} => HoldsGuard(q) \/ GuardIsFree
    <3>1. CASE Begins(q, n)
      BY <3>1 DEF Begins, WaitRecord, ListRecord, ProvisionRecord, GetRecord
    <3> QED
      BY <2>1, <3>1 DEF Creates, Decides, Makes, Reads, Guards, Ends, Same, HoldsGuard, Idle
  <2>4. \A p \in Requests : request'[p] = IF p = q THEN n ELSE request[p]
    BY <2>1 DEF Becomes
  <2>5. \A p, r \in Requests :
          HoldsRow(p)' /\ HoldsRow(r)' /\ request'[p].on = request'[r].on => p = r
    BY <2>2, <2>4 DEF LocksHold, HoldsRow, RowIsFree
  <2>6. \A p, r \in Requests : HoldsGuard(p)' /\ HoldsGuard(r)' => p = r
    BY <2>3, <2>4 DEF LocksHold, HoldsGuard, GuardIsFree
  <2> QED
    BY <2>5, <2>6 DEF LocksHold
<1> QED
  BY <1>1, <1>2

\* Nobody creates those who are there from the beginning, and what has been read of
\* them under the lock of their row is what Keycloak has.
FoundersAreRead ==
    /\ \A u \in Founders : keycloak[u].role # "absent"
    /\ \A q \in Requests : request[q].kind \in {"create", "created"} => request[q].on \notin Founders
    /\ \A q \in Requests :
          /\ HoldsRow(q) /\ request[q].on \in Founders
          /\ request[q].kind = "change" => request[q].seen # None
          => request[q].seen = keycloak[request[q].on]

LEMMA FoundersStep ==
    TypeOK /\ Formal /\ LocksHold /\ FoundersAreRead /\ [Next]_vars => FoundersAreRead'
<1> SUFFICES ASSUME TypeOK, Formal, LocksHold, FoundersAreRead, [Next]_vars PROVE FoundersAreRead'
  OBVIOUS
<1>1. CASE UNCHANGED vars
  BY <1>1 DEF vars, FoundersAreRead, HoldsRow
<1>2. CASE Next
  <2>1. PICK q \in Requests, n \in Working :
           /\ Becomes(q, n)
           /\ \/ Begins(q, n) \/ Creates(q, n) \/ Decides(q, n) \/ Makes(q, n)
              \/ Reads(q, n) \/ Guards(q, n) \/ Ends(q, n)
    BY <1>2, Steps
  <2>2. \A p \in Requests : request'[p] = IF p = q THEN n ELSE request[p]
    BY <2>1 DEF Becomes
  <2>3. \A u \in Founders : keycloak'[u].role # "absent"
    BY <2>1, KeycloakStep, IdentityAssumption DEF FoundersAreRead
  <2>4. n.kind \in {"create", "created"} => n.on \notin Founders
    <3>1. CASE Begins(q, n)
      BY <3>1 DEF Begins, WaitRecord, ListRecord, ProvisionRecord, GetRecord
    <3>2. CASE Creates(q, n)
      BY <3>2 DEF Creates, FoundersAreRead, Absent
    <3> QED
      BY <2>1, <3>1, <3>2 DEF Decides, Makes, Reads, Guards, Ends, Same, Idle, WaitRecord,
                              FoundersAreRead
  \* Keycloak's account of a founder changes under the hands of who holds the row only.
  <2>5. ASSUME NEW u \in Founders, keycloak'[u] # keycloak[u]
        PROVE  /\ Makes(q, n) /\ HoldsRow(q) /\ request[q].on = u
               /\ request[q].kind = "change" /\ request[q].seen = None /\ n.seen = None
    <3>1. Creates(q, n) \/ Makes(q, n)
      BY <2>1, <2>5 DEF Begins, Decides, Reads, Guards, Ends
    <3>2. n.on \in Users /\ n.on = u
      <4>1. n.on \in Users
        BY <3>1 DEF Creates, Makes, Same, BusyRecord
      <4> QED
        BY <2>5, <3>1, <4>1, IdentityAssumption DEF Creates, Makes, TypeOK
    <3>3. Makes(q, n)
      BY <2>5, <3>1, <3>2 DEF Creates, FoundersAreRead, Absent
    <3>4. Busy(q) /\ request[q].on = u /\ request[q].calls # <<>>
      BY <3>2, <3>3 DEF Makes, Same, Busy, BusyRecord
    <3>5. request[q].kind = "change" /\ request[q].seen = None /\ n.seen = None
      BY <3>3, <3>4 DEF Makes, Formal, FoundersAreRead, Busy
    <3> QED
      BY <3>3, <3>4, <3>5 DEF HoldsRow
  <2>6. ASSUME NEW p \in Requests, p # q, HoldsRow(p)', request'[p].on \in Founders,
               request'[p].kind = "change" => request'[p].seen # None
        PROVE  request'[p].seen = keycloak'[request'[p].on]
    <3>1. request'[p] = request[p] /\ HoldsRow(p)
      BY <2>2, <2>6 DEF HoldsRow
    <3>2. request[p].seen = keycloak[request[p].on]
      BY <2>6, <3>1 DEF FoundersAreRead
    <3>3. keycloak'[request[p].on] = keycloak[request[p].on]
      BY <2>5, <2>6, <3>1 DEF LocksHold
    <3> QED
      BY <3>1, <3>2, <3>3
  <2>7. ASSUME HoldsRow(q)', n.on \in Founders, n.kind = "change" => n.seen # None
        PROVE  n.seen = keycloak'[n.on]
    <3>1. n.kind \in {"change", "get"}
      BY <2>2, <2>7 DEF HoldsRow
    <3>2. keycloak'[n.on] = keycloak[n.on]
      <4>1. CASE keycloak'[n.on] # keycloak[n.on]
        BY <2>5, <2>7, <4>1 DEF Makes
      <4> QED
        BY <4>1
    <3>3. n.seen = keycloak[n.on]
      <4>1. CASE Begins(q, n)
        BY <3>1, <4>1 DEF Begins, WaitRecord, ListRecord, ProvisionRecord
      <4>2. CASE Makes(q, n)
        BY <2>7, <3>1, <4>2 DEF Makes, Same, FoundersAreRead, HoldsRow, Busy, BusyRecord
      <4> QED
        BY <2>1, <2>7, <3>1, <4>1, <4>2 DEF Creates, Decides, Reads, Guards, Ends, Same, Idle,
                                            WaitRecord
    <3> QED
      BY <3>2, <3>3
  <2>8. \A p \in Requests :
          /\ HoldsRow(p)' /\ request'[p].on \in Founders
          /\ request'[p].kind = "change" => request'[p].seen # None
          => request'[p].seen = keycloak'[request'[p].on]
    BY <2>2, <2>6, <2>7
  <2>9. \A p \in Requests : request'[p].kind \in {"create", "created"} => request'[p].on \notin Founders
    BY <2>2, <2>4 DEF FoundersAreRead
  <2> QED
    BY <2>3, <2>8, <2>9 DEF FoundersAreRead
<1> QED
  BY <1>1, <1>2

IdentityInv == TypeOK /\ Formal /\ LocksHold /\ FoundersAreRead

LEMMA IdentityInit == Init => IdentityInv
<1> SUFFICES ASSUME Init PROVE IdentityInv
  OBVIOUS
<1>1. \A q \in Requests : request[q] = Idle
  BY DEF Init
<1>2. /\ Founder \in Account /\ Founder.role \in FORMAL_ROLES /\ Founder.role # "absent"
      /\ Absent \in Account /\ Absent.role = "absent"
  BY DEF Founder, Absent, Account, FORMAL_ROLES
<1>3. \A u \in Users : keycloak[u] = IF u \in Founders THEN Founder ELSE Absent
  BY DEF Init
<1>4. TypeOK
  <2>1. keycloak \in [Users -> Account] /\ local = keycloak
    BY <1>2 DEF Init
  <2>2. request \in [Requests -> Working] /\ faults \in 0 .. MaxFaults
    BY RecordsWork, IdentityAssumption DEF Init
  <2> QED
    BY <1>2, <1>3, <2>1, <2>2 DEF TypeOK
<1>5. Formal
  BY <1>1, <1>2, <1>3 DEF Formal, Busy, Idle
<1>6. LocksHold /\ FoundersAreRead
  BY <1>1, <1>2, <1>3, IdentityAssumption DEF LocksHold, FoundersAreRead, HoldsRow, HoldsGuard, Idle
<1> QED
  BY <1>4, <1>5, <1>6 DEF IdentityInv

LEMMA IdentityStep == IdentityInv /\ [Next]_vars => IdentityInv'
BY TypeStep, FormalStep, LocksStep, FoundersStep DEF IdentityInv

LEMMA SyncStep ==
    ASSUME IdentityInv, [Next]_vars, NEW q \in Requests, request[q].kind \in {"change", "get"},
           request'[q] = Idle, request[q].on \in Founders
    PROVE  local'[request[q].on] \in {local[request[q].on], keycloak[request[q].on]}
<1>1. CASE UNCHANGED vars
  BY <1>1 DEF vars
<1>2. CASE Next
  <2>1. PICK p \in Requests, n \in Working :
           /\ Becomes(p, n)
           /\ \/ Begins(p, n) \/ Creates(p, n) \/ Decides(p, n) \/ Makes(p, n)
              \/ Reads(p, n) \/ Guards(p, n) \/ Ends(p, n)
    BY <1>2, Steps DEF IdentityInv
  <2>2. p = q
    BY <2>1 DEF Becomes, Idle
  <2>3. CASE local' = local
    BY <2>3
  <2>4. CASE Ends(q, n) /\ local' # local
    <3>1. /\ request[q].kind # "get" => request[q].seen # None
          /\ local' = [local EXCEPT ![request[q].on] = request[q].seen]
      BY <2>4 DEF Ends
    <3>2. request[q].seen = keycloak[request[q].on]
      BY <3>1 DEF IdentityInv, FoundersAreRead, HoldsRow
    <3>3. request[q].on \in DOMAIN local
      BY <2>4 DEF Ends, IdentityInv, TypeOK
    <3> QED
      BY <3>1, <3>2, <3>3
  <2> QED
    BY <2>1, <2>2, <2>3, <2>4 DEF Begins, Creates, Decides, Makes, Reads, Guards
<1> QED
  BY <1>1, <1>2

\* LockedUserAccess and change(): a user's row is locked while Keycloak is asked, so
\* that opening or changing a user leaves the row as Keycloak has it, whatever other
\* requests do meanwhile and whatever fails.
THEOREM CurrentSync == OperationsSpec => SyncIsCurrent
<1>1. IdentityInv /\ [Next]_vars =>
        [\A q \in Requests :
          /\ request[q].kind \in {"change", "get"} /\ request'[q] = Idle
          /\ request[q].on \in Founders
          => local'[request[q].on] \in {local[request[q].on], keycloak[request[q].on]}]_vars
  BY SyncStep
<1>2. [OperationsNext]_all => [Next]_vars
  BY OperationsStep DEF identity
<1>3. OperationsInit => Init
  BY DEF OperationsInit
<1> QED
  BY <1>1, <1>2, <1>3, IdentityInit, IdentityStep, PTL DEF OperationsSpec, SyncIsCurrent

-----------------------------------------------------------------------------
(* The last administrator *)

\* A creation gives the account first its role, then its status: it takes nothing from
\* anybody, for nobody else is at an account that has no role yet.
CreationGivesOnly ==
    \A q \in Requests : request[q].kind \in {"create", "created"} =>
        /\ request[q].want.enabled = TRUE
        /\ request[q].calls \in {<<"post", "put", "logout">>, <<"put", "logout">>, <<"logout">>, <<>>}
        /\ request[q].calls = <<"post", "put", "logout">> =>
              /\ keycloak[request[q].on].role = "none"
              /\ \A p \in Requests : Busy(p) /\ request[p].on = request[q].on => p = q

\* Whoever changes a user acts as an administrator of the snapshot.
ActorIsCounted ==
    \A q \in Requests : request[q].kind \in {"wait", "guarded"} => request[q].by \in request[q].snapshot

\* While a change that was not misled is at work there is another administrator than the
\* one it is about, or it leaves an administrator what he is.
ChangeLeavesOne ==
    \A q \in Requests : request[q].kind = "change" /\ ~request[q].misled =>
        \/ \E v \in Administrators(keycloak) : v # request[q].on
        \/ /\ request[q].on \in Administrators(keycloak) /\ request[q].want = Founder
           /\ \A i \in 1 .. Len(request[q].calls) : request[q].calls[i] # "delete"

AdminInv == IdentityInv /\ CreationGivesOnly /\ ActorIsCounted /\ ChangeLeavesOne

LEMMA CallTuples ==
    /\ Head(<<"post", "put", "logout">>) = "post" /\ Tail(<<"post", "put", "logout">>) = <<"put", "logout">>
    /\ Head(<<"put", "logout">>) = "put" /\ Tail(<<"put", "logout">>) = <<"logout">>
    /\ Head(<<"logout">>) = "logout" /\ Tail(<<"logout">>) = <<>>
    /\ <<"put", "logout">> # <<"post", "put", "logout">>
    /\ <<"logout">> # <<"post", "put", "logout">>
    /\ <<>> # <<"post", "put", "logout">>
OBVIOUS

LEMMA CreationStep == AdminInv /\ [Next]_vars => CreationGivesOnly'
<1> SUFFICES ASSUME AdminInv, [Next]_vars PROVE CreationGivesOnly'
  OBVIOUS
<1>1. CASE UNCHANGED vars
  BY <1>1 DEF vars, AdminInv, CreationGivesOnly, Busy
<1>2. CASE Next
  <2>1. PICK q \in Requests, n \in Working :
           /\ Becomes(q, n)
           /\ \/ Begins(q, n) \/ Creates(q, n) \/ Decides(q, n) \/ Makes(q, n)
              \/ Reads(q, n) \/ Guards(q, n) \/ Ends(q, n)
    BY <1>2, Steps DEF AdminInv, IdentityInv
  <2>2. \A p \in Requests : request'[p] = IF p = q THEN n ELSE request[p]
    BY <2>1 DEF Becomes
  <2>3. \A p \in Requests : Busy(p) => request[p] \in BusyRecord
    BY RecordsAre DEF AdminInv, IdentityInv
  \* A creation that has not made a call yet is alone with its account.
  <2>4. ASSUME NEW p \in Requests, p # q, request[p].kind \in {"create", "created"},
               request[p].calls = <<"post", "put", "logout">>
        PROVE  /\ keycloak'[request[p].on].role = "none"
               /\ n.kind \in {"change", "create", "created"} => n.on # request[p].on
    <3>1. keycloak[request[p].on].role = "none" /\ request[p].on \in Users
      BY <2>3, <2>4 DEF AdminInv, CreationGivesOnly, BusyRecord, Busy
    <3>2. Busy(q) => request[q].on # request[p].on
      BY <2>4 DEF AdminInv, CreationGivesOnly
    <3>3. CASE Begins(q, n)
      BY <3>1, <3>3 DEF Begins, WaitRecord, ListRecord, ProvisionRecord, GetRecord
    <3>4. CASE Creates(q, n)
      BY <3>1, <3>4 DEF Creates, Absent
    <3>5. CASE Decides(q, n)
      BY <3>1, <3>5, NoneIsFormal DEF Decides, HasFormalRole
    <3>6. CASE Makes(q, n)
      BY <3>1, <3>2, <3>6 DEF Makes, Same, Busy, BusyRecord, AdminInv, IdentityInv, TypeOK
    <3>7. CASE Reads(q, n) \/ Guards(q, n) \/ Ends(q, n)
      BY <3>1, <3>2, <3>7 DEF Reads, Guards, Ends, Same, Busy, BusyRecord, WaitRecord, Idle
    <3> QED
      BY <2>1, <3>3, <3>4, <3>5, <3>6, <3>7
  <2>5. ASSUME n.kind \in {"create", "created"}
        PROVE  /\ n.want.enabled = TRUE
               /\ n.calls \in {<<"post", "put", "logout">>, <<"put", "logout">>, <<"logout">>, <<>>}
               /\ n.calls = <<"post", "put", "logout">> =>
                     /\ keycloak'[n.on].role = "none"
                     /\ \A p \in Requests : p # q /\ Busy(p) => request[p].on # n.on
    <3>1. CASE Creates(q, n)
      <4>1. n.on \in Users
        BY <3>1 DEF Creates, BusyRecord
      <4>2. keycloak'[n.on].role = "none"
        BY <3>1, <4>1 DEF Creates, AdminInv, IdentityInv, TypeOK
      <4>3. \A p \in Requests : Busy(p) => request[p].on # n.on
        BY <3>1 DEF Creates, AdminInv, IdentityInv, Formal, Absent
      <4> QED
        BY <3>1, <4>2, <4>3 DEF Creates
    <3>2. CASE Makes(q, n)
      <4>1. /\ n.want.enabled = TRUE
            /\ request[q].calls \in {<<"post", "put", "logout">>, <<"put", "logout">>, <<"logout">>}
            /\ n.calls = Tail(request[q].calls)
        BY <2>5, <3>2 DEF Makes, Same, AdminInv, CreationGivesOnly
      <4>2. n.calls \in {<<"put", "logout">>, <<"logout">>, <<>>}
        BY <4>1, CallTuples
      <4> QED
        BY <4>1, <4>2, CallTuples
    <3>3. CASE Reads(q, n) \/ Guards(q, n)
      BY <2>5, <3>3 DEF Reads, Guards, Same, AdminInv, CreationGivesOnly, WaitRecord
    <3>4. CASE Begins(q, n)
      BY <2>5, <3>4 DEF Begins, WaitRecord, ListRecord, ProvisionRecord, GetRecord
    <3>5. CASE Decides(q, n) \/ Ends(q, n)
      BY <2>5, <3>5 DEF Decides, Ends, Idle
    <3> QED
      BY <2>1, <3>1, <3>2, <3>3, <3>4, <3>5
  <2>6. ASSUME NEW p \in Requests, request'[p].kind \in {"create", "created"}
        PROVE  /\ request'[p].want.enabled = TRUE
               /\ request'[p].calls \in {<<"post", "put", "logout">>, <<"put", "logout">>,
                                         <<"logout">>, <<>>}
               /\ request'[p].calls = <<"post", "put", "logout">> =>
                     /\ keycloak'[request'[p].on].role = "none"
                     /\ \A r \in Requests : Busy(r)' /\ request'[r].on = request'[p].on => r = p
    <3>1. CASE p = q
      BY <2>2, <2>5, <2>6, <3>1 DEF Busy
    <3>2. CASE p # q
      BY <2>2, <2>4, <2>6, <3>2 DEF Busy, AdminInv, CreationGivesOnly
    <3> QED
      BY <3>1, <3>2
  <2> QED
    BY <2>6 DEF CreationGivesOnly
<1> QED
  BY <1>1, <1>2

LEMMA ActorStep == AdminInv /\ [Next]_vars => ActorIsCounted'
<1> SUFFICES ASSUME AdminInv, [Next]_vars PROVE ActorIsCounted'
  OBVIOUS
<1>1. CASE UNCHANGED vars
  BY <1>1 DEF vars, AdminInv, ActorIsCounted
<1>2. CASE Next
  <2>1. PICK q \in Requests, n \in Working :
           /\ Becomes(q, n)
           /\ \/ Begins(q, n) \/ Creates(q, n) \/ Decides(q, n) \/ Makes(q, n)
              \/ Reads(q, n) \/ Guards(q, n) \/ Ends(q, n)
    BY <1>2, Steps DEF AdminInv, IdentityInv
  <2>2. n.kind \in {"wait", "guarded"} => n.by \in n.snapshot
    BY <2>1 DEF Begins, Creates, Decides, Makes, Reads, Guards, Ends, Same, Idle, BusyRecord,
                ListRecord, ProvisionRecord, GetRecord, AdminInv, ActorIsCounted
  <2> QED
    BY <2>1, <2>2 DEF Becomes, AdminInv, ActorIsCounted
<1> QED
  BY <1>1, <1>2

\* Only the change that is at work takes from an administrator what makes him one.
LEMMA AdministratorsStay ==
    ASSUME AdminInv, NEW q \in Requests, NEW n \in Working,
           \/ Begins(q, n) \/ Creates(q, n) \/ Decides(q, n) \/ Makes(q, n)
           \/ Reads(q, n) \/ Guards(q, n) \/ Ends(q, n),
           NEW v \in Administrators(keycloak),
           v \notin Administrators(keycloak)'
    PROVE  Makes(q, n) /\ request[q].kind = "change" /\ v = n.on
<1>1. /\ v \in Users /\ keycloak[v] \in Account
      /\ keycloak[v].enabled /\ keycloak[v].role = "Admin"
      /\ ~(keycloak'[v].enabled /\ keycloak'[v].role = "Admin")
  BY DEF Administrators, AdminInv, IdentityInv, TypeOK
<1>2. keycloak[v].enabled = TRUE
  BY <1>1 DEF Account
<1>3. CASE Creates(q, n)
  BY <1>1, <1>3 DEF Creates, Absent, AdminInv, IdentityInv, TypeOK
<1>4. CASE Makes(q, n)
  <2>1. PICK account \in Account :
           /\ account = Called(keycloak[n.on], Head(request[q].calls), n.want)
           /\ keycloak' = [keycloak EXCEPT ![n.on] = account]
    BY <1>4 DEF Makes
  <2>2. v = n.on /\ ~(account.enabled /\ account.role = "Admin")
    BY <1>1, <2>1 DEF AdminInv, IdentityInv, TypeOK
  <2>3. CASE request[q].kind \in {"create", "created"}
    <3>1. /\ n.want.enabled = TRUE /\ n.on = request[q].on
          /\ request[q].calls \in {<<"post", "put", "logout">>, <<"put", "logout">>, <<"logout">>}
          /\ request[q].calls = <<"post", "put", "logout">> => keycloak[n.on].role = "none"
      BY <1>4, <2>3 DEF Makes, Same, AdminInv, CreationGivesOnly
    <3>2. Head(request[q].calls) \in {"put", "logout"}
      BY <1>1, <2>2, <3>1, CallTuples
    <3>3. account.role = keycloak[v].role /\ account.enabled = TRUE
      BY <1>2, <2>1, <2>2, <3>1, <3>2 DEF Called
    <3> QED
      BY <1>1, <2>2, <3>3
  <2> QED
    BY <1>4, <2>2, <2>3 DEF Makes, Same, BusyRecord
<1> QED
  BY <1>1, <1>3, <1>4 DEF Begins, Creates, Decides, Makes, Reads, Guards, Ends

LEMMA ChangeStep == ASSUME Snapshots = TRUE, AdminInv, [Next]_vars PROVE ChangeLeavesOne'
<1>1. CASE UNCHANGED vars
  BY <1>1 DEF vars, AdminInv, ChangeLeavesOne, Administrators
<1>2. CASE Next
  <2>1. PICK q \in Requests, n \in Working :
           /\ Becomes(q, n)
           /\ \/ Begins(q, n) \/ Creates(q, n) \/ Decides(q, n) \/ Makes(q, n)
              \/ Reads(q, n) \/ Guards(q, n) \/ Ends(q, n)
    BY <1>2, Steps DEF AdminInv, IdentityInv
  <2>2. \A p \in Requests : request'[p] = IF p = q THEN n ELSE request[p]
    BY <2>1 DEF Becomes
  <2>3. ASSUME NEW v \in Administrators(keycloak), v \notin Administrators(keycloak)'
        PROVE  Makes(q, n) /\ request[q].kind = "change" /\ v = n.on
    BY <2>1, <2>3, AdministratorsStay
  <2>4. ASSUME NEW p \in Requests, p # q, request[p].kind = "change", ~request[p].misled
        PROVE  \/ \E v \in Administrators(keycloak)' : v # request[p].on
               \/ /\ request[p].on \in Administrators(keycloak)' /\ request[p].want = Founder
                  /\ \A i \in 1 .. Len(request[p].calls) : request[p].calls[i] # "delete"
    <3>1. request[q].kind # "change"
      BY <2>4 DEF AdminInv, IdentityInv, LocksHold, HoldsGuard
    <3>2. \A v \in Administrators(keycloak) : v \in Administrators(keycloak)'
      BY <2>3, <3>1
    <3> QED
      BY <2>4, <3>2 DEF AdminInv, ChangeLeavesOne
  <2>5. ASSUME n.kind = "change", ~n.misled
        PROVE  \/ \E v \in Administrators(keycloak)' : v # n.on
               \/ /\ n.on \in Administrators(keycloak)' /\ n.want = Founder
                  /\ \A i \in 1 .. Len(n.calls) : n.calls[i] # "delete"
    <3>1. CASE Decides(q, n)
      <4>1. PICK command \in Commands, profile \in BOOLEAN :
               /\ ~Refused(request[q].by, n.on, command, request[q].snapshot)
               /\ n.want.role = Or(command.role, keycloak[n.on].role)
               /\ n.want.enabled = Or(command.enabled, keycloak[n.on].enabled)
               /\ n.calls = CallsOf(keycloak[n.on], n.want, profile)
               /\ request[q].snapshot \subseteq Administrators(keycloak)
               /\ local[n.on] = keycloak[n.on]
        BY <2>5, <3>1 DEF Decides
      <4>2. /\ request[q].by \in Administrators(keycloak) /\ n.want \in Account
            /\ n.on \in Users /\ keycloak[n.on] \in Account
        BY <3>1, <4>1 DEF Decides, AdminInv, ActorIsCounted, BusyRecord, IdentityInv, TypeOK
      <4>3. Administrators(keycloak)' = Administrators(keycloak)
        BY <3>1 DEF Decides, Administrators
      <4>4. CASE request[q].by # n.on
        BY <4>2, <4>3, <4>4
      <4>5. CASE request[q].by = n.on
        <5>1. keycloak[n.on].enabled = TRUE /\ keycloak[n.on].role = "Admin"
          BY <4>2, <4>5 DEF Administrators, Account
        <5>2. command.role # "User" /\ command.enabled # FALSE
          BY <4>1, <4>5, <5>1 DEF Refused
        <5>3. /\ command.role \in FORMAL_ROLES \cup {None}
              /\ command.enabled \in BOOLEAN \cup {None}
          BY DEF Commands
        <5>4. n.want.role = "Admin" /\ n.want.enabled = TRUE
          BY <4>1, <5>1, <5>2, <5>3 DEF Or, FORMAL_ROLES
        <5>5. n.want = Founder
          BY <4>2, <5>4 DEF Account, Founder
        <5>6. \A i \in 1 .. Len(n.calls) : n.calls[i] # "delete"
          BY <4>1, <4>2, <5>1, <5>4, CallsOfIs
        <5> QED
          BY <4>2, <4>3, <4>5, <5>5, <5>6
      <4> QED
        BY <4>4, <4>5
    <3>2. CASE Makes(q, n)
      <4>1. /\ request[q].kind = "change" /\ ~request[q].misled /\ n.on = request[q].on
            /\ n.want = request[q].want /\ request[q].calls \in Seq(Calls)
            /\ request[q].calls # <<>> /\ n.calls = Tail(request[q].calls) /\ n.on \in Users
        BY <2>5, <3>2 DEF Makes, Same, BusyRecord
      <4>2. CASE \E v \in Administrators(keycloak) : v # n.on
        BY <2>3, <4>2
      <4>3. CASE /\ n.on \in Administrators(keycloak) /\ n.want = Founder
                 /\ \A i \in 1 .. Len(request[q].calls) : request[q].calls[i] # "delete"
        <5>1. PICK account \in Account :
                 /\ account = Called(keycloak[n.on], Head(request[q].calls), n.want)
                 /\ keycloak' = [keycloak EXCEPT ![n.on] = account]
          BY <3>2 DEF Makes
        <5>2. /\ Len(request[q].calls) \in Nat /\ Len(request[q].calls) >= 1
              /\ Head(request[q].calls) = request[q].calls[1]
              /\ Len(n.calls) = Len(request[q].calls) - 1
              /\ \A i \in 1 .. Len(n.calls) : n.calls[i] = request[q].calls[i + 1]
          BY <4>1, HeadTailProperties, EmptySeq
        <5>3. /\ Head(request[q].calls) # "delete"
              /\ \A i \in 1 .. Len(n.calls) : n.calls[i] # "delete"
          BY <4>3, <5>2
        <5>4. keycloak[n.on].enabled /\ keycloak[n.on].role = "Admin"
          BY <4>3 DEF Administrators
        <5>5. account.enabled /\ account.role = "Admin"
          BY <4>3, <5>1, <5>3, <5>4 DEF Called, Founder
        <5>6. n.on \in Administrators(keycloak)'
          BY <4>1, <5>1, <5>5 DEF Administrators, AdminInv, IdentityInv, TypeOK
        <5> QED
          BY <4>3, <5>3, <5>6
      <4> QED
        BY <4>1, <4>2, <4>3 DEF AdminInv, ChangeLeavesOne
    <3>3. CASE Reads(q, n)
      <4>1. /\ request[q].kind = "change" /\ ~request[q].misled /\ n.on = request[q].on
            /\ n.want = request[q].want /\ n.calls = request[q].calls /\ keycloak' = keycloak
        BY <2>5, <3>3 DEF Reads, Same
      <4>2. Administrators(keycloak)' = Administrators(keycloak)
        BY <4>1 DEF Administrators
      <4> QED
        BY <4>1, <4>2 DEF AdminInv, ChangeLeavesOne
    <3>4. CASE Begins(q, n)
      BY <2>5, <3>4 DEF Begins, WaitRecord, ListRecord, ProvisionRecord, GetRecord
    <3>5. CASE Creates(q, n) \/ Guards(q, n) \/ Ends(q, n)
      BY <2>5, <3>5 DEF Creates, Guards, Ends, Idle
    <3> QED
      BY <2>1, <3>1, <3>2, <3>3, <3>4, <3>5
  <2>6. ASSUME NEW p \in Requests, request'[p].kind = "change", ~request'[p].misled
        PROVE  \/ \E v \in Administrators(keycloak)' : v # request'[p].on
               \/ /\ request'[p].on \in Administrators(keycloak)' /\ request'[p].want = Founder
                  /\ \A i \in 1 .. Len(request'[p].calls) : request'[p].calls[i] # "delete"
    <3>1. CASE p = q
      BY <2>2, <2>5, <2>6, <3>1
    <3>2. CASE p # q
      BY <2>2, <2>4, <2>6, <3>2
    <3> QED
      BY <3>1, <3>2
  <2> QED
    BY <2>6 DEF ChangeLeavesOne
<1> QED
  BY <1>1, <1>2

LEMMA AdminInit == Init => AdminInv
<1> SUFFICES ASSUME Init PROVE AdminInv
  OBVIOUS
<1>1. \A q \in Requests : request[q].kind = "idle"
  BY DEF Init, Idle
<1> QED
  BY <1>1, IdentityInit DEF AdminInv, CreationGivesOnly, ActorIsCounted, ChangeLeavesOne

LEMMA AdminStep == ASSUME Snapshots = TRUE, AdminInv, [Next]_vars PROVE AdminInv'
BY IdentityStep, CreationStep, ActorStep, ChangeStep DEF AdminInv

\* As long as no change is misled there is an administrator after each of its calls.
LEMMA RemovalStep ==
    ASSUME Snapshots = TRUE, AdminInv, [Next]_vars, AnAdminRemains, ~AnAdminRemains'
    PROVE  \E q \in Requests : Busy(q) /\ request[q].misled
<1>1. PICK v : v \in Administrators(keycloak) /\ v \notin Administrators(keycloak)'
  BY DEF AnAdminRemains
<1>2. ~UNCHANGED vars
  BY <1>1 DEF vars, Administrators
<1>3. PICK q \in Requests, n \in Working :
         /\ Becomes(q, n)
         /\ \/ Begins(q, n) \/ Creates(q, n) \/ Decides(q, n) \/ Makes(q, n)
            \/ Reads(q, n) \/ Guards(q, n) \/ Ends(q, n)
  BY <1>2, Steps DEF AdminInv, IdentityInv
<1>4. Makes(q, n) /\ request[q].kind = "change"
  BY <1>1, <1>3, AdministratorsStay
<1>5. request'[q] = n /\ n.kind = "change" /\ n.misled = request[q].misled
  BY <1>3, <1>4 DEF Makes, Same, Becomes
<1>6. ChangeLeavesOne'
  BY ChangeStep
<1>7. n.misled
  BY <1>5, <1>6 DEF ChangeLeavesOne, AnAdminRemains
<1> QED
  BY <1>4, <1>5, <1>7 DEF Busy

\* The guard of the last administrator: under snapshots, only a request that was
\* decided on rows Keycloak did not agree with can take away the last one.
THEOREM Miscounted ==
    ASSUME Snapshots = TRUE PROVE OperationsSpec => LastAdminIsMiscounted
<1>1. AdminInv /\ [Next]_vars =>
        [AnAdminRemains /\ ~AnAdminRemains'
           => \E q \in Requests : Busy(q) /\ request[q].misled]_vars
  BY RemovalStep
<1>2. AdminInv /\ [Next]_vars => AdminInv'
  BY AdminStep
<1>3. [OperationsNext]_all => [Next]_vars
  BY OperationsStep DEF identity
<1>4. OperationsInit => Init
  BY DEF OperationsInit
<1> QED
  BY <1>1, <1>2, <1>3, <1>4, AdminInit, PTL DEF OperationsSpec, LastAdminIsMiscounted

-----------------------------------------------------------------------------
(* Integrity of a run *)

Places == {"bounded", "statement", "snapshot", "macro", "request", "loader", "fred", "social"}

\* Routes as they are imported, and as the guards of a later day leave them.
Plain(p) ==
    /\ DOMAIN p = Places
    /\ \A tool \in Integrity!Methods : \A v \in DOMAIN p[tool] : p[tool][v] = "route"
    /\ p.social = "current"

Guarded(p) ==
    /\ \A v \in DOMAIN p.bounded : p.bounded[v] = "route"
    /\ \A v \in DOMAIN p.snapshot : p.snapshot[v] = "unavailable"
    /\ \A v \in DOMAIN p.statement : p.statement[v] = "filtered"
    /\ \A v \in DOMAIN p.macro : p.macro[v] \in {"vintage", "unavailable"}
    /\ p.fred = "vintage"
    /\ p.social = "unavailable"

LEMMA UnpatchedIsPlain == Plain(Integrity!Unpatched)
BY DEF Plain, Integrity!Unpatched, Places, Integrity!Methods

\* The contexts are entered in this order.
LEMMA ContextsAre ==
    /\ Len(Integrity!Contexts) = 4
    /\ Integrity!Contexts[1] = "resolver" /\ Integrity!Contexts[2] = "alpha"
    /\ Integrity!Contexts[3] = "stocklean" /\ Integrity!Contexts[4] = "history"
BY DEF Integrity!Contexts

\* What the contexts find, one after the other.
LEMMA FoundIs ==
    /\ Integrity!Found[1] = patched
    /\ Integrity!Found[2] = patched
    /\ Integrity!Found[3] = Integrity!GuardAlpha(Integrity!Found[2])
    /\ Integrity!Found[4] = Integrity!GuardStockLean(Integrity!Found[3])
    /\ Integrity!Found[5] = Integrity!GuardHistory(Integrity!Found[4])
<1> DEFINE C == Integrity!Contexts
           Unfolds(f) == f = [i \in 1 .. Len(C) + 1 |->
                                IF i = 1 THEN patched ELSE Integrity!Patch(C[i - 1], f[i - 1])]
           f2 == Integrity!Patch(C[1], patched)
           f3 == Integrity!Patch(C[2], f2)
           f4 == Integrity!Patch(C[3], f3)
           f5 == Integrity!Patch(C[4], f4)
           g == [i \in 1 .. 5 |-> IF i = 1 THEN patched ELSE IF i = 2 THEN f2
                                  ELSE IF i = 3 THEN f3 ELSE IF i = 4 THEN f4 ELSE f5]
<1>1. Unfolds(g)
  <2> HIDE DEF f2, f3, f4, f5
  <2>1. \A i \in 1 .. 5 : g[i] = IF i = 1 THEN patched ELSE Integrity!Patch(C[i - 1], g[i - 1])
    <3>1. /\ g[1] = patched /\ g[2] = f2 /\ g[3] = f3 /\ g[4] = f4 /\ g[5] = f5
      OBVIOUS
    <3>2. \A i \in 1 .. 5 : i = 1 \/ i = 2 \/ i = 3 \/ i = 4 \/ i = 5
      OBVIOUS
    <3>3. /\ 2 - 1 = 1 /\ 3 - 1 = 2 /\ 4 - 1 = 3 /\ 5 - 1 = 4
      OBVIOUS
    <3> HIDE DEF g, C
    <3> QED
      BY <3>1, <3>2, <3>3 DEF f2, f3, f4, f5
  <2>2. Len(C) + 1 = 5
    BY ContextsAre
  <2>3. g = [i \in 1 .. 5 |-> g[i]]
    OBVIOUS
  <2> HIDE DEF g, C
  <2> QED
    BY <2>1, <2>2, <2>3
<1>2. Integrity!Found = CHOOSE f : Unfolds(f)
  BY DEF Integrity!Found
<1>3. Unfolds(Integrity!Found)
  <2> HIDE DEF Unfolds, g
  <2> QED
    BY <1>1, <1>2
<1>4. \A i \in 1 .. 5 : Integrity!Found[i] =
        IF i = 1 THEN patched ELSE Integrity!Patch(C[i - 1], Integrity!Found[i - 1])
  BY <1>3, ContextsAre
<1>5. /\ Integrity!Found[1] = patched
      /\ Integrity!Found[2] = Integrity!Patch("resolver", Integrity!Found[1])
      /\ Integrity!Found[3] = Integrity!Patch("alpha", Integrity!Found[2])
      /\ Integrity!Found[4] = Integrity!Patch("stocklean", Integrity!Found[3])
      /\ Integrity!Found[5] = Integrity!Patch("history", Integrity!Found[4])
  <2>1. /\ 2 - 1 = 1 /\ 3 - 1 = 2 /\ 4 - 1 = 3 /\ 5 - 1 = 4
        /\ 1 \in 1 .. 5 /\ 2 \in 1 .. 5 /\ 3 \in 1 .. 5 /\ 4 \in 1 .. 5 /\ 5 \in 1 .. 5
    OBVIOUS
  <2> QED
    BY <1>4, <2>1, ContextsAre
<1>6. \A p : /\ Integrity!Patch("resolver", p) = p
             /\ Integrity!Patch("alpha", p) = Integrity!GuardAlpha(p)
             /\ Integrity!Patch("stocklean", p) = Integrity!GuardStockLean(p)
             /\ Integrity!Patch("history", p) = Integrity!GuardHistory(p)
  BY DEF Integrity!Patch
<1> QED
  BY <1>5, <1>6

LEMMA GuardsAre ==
    ASSUME patched = Integrity!Unpatched
    PROVE  \/ Integrity!Historical /\ Guarded(Integrity!Found[5])
           \/ ~Integrity!Historical /\ Plain(Integrity!Found[5])
<1>1. ASSUME NEW p, Plain(p) PROVE Plain(Integrity!GuardAlpha(p))
  BY <1>1 DEF Plain, Integrity!GuardAlpha, Places, Integrity!Methods
<1>2. ASSUME NEW p, Plain(p) PROVE Plain(Integrity!GuardStockLean(p))
  <2>1. \A tool \in {"bounded", "statement", "snapshot"} :
           \A v \in DOMAIN Integrity!WithStockLean(p[tool]) :
              Integrity!WithStockLean(p[tool])[v] = "route"
    BY <1>2 DEF Plain, Integrity!WithStockLean, Integrity!Methods
  <2> QED
    BY <1>2, <2>1 DEF Plain, Integrity!GuardStockLean, Places, Integrity!Methods
<1>3. Plain(Integrity!Found[4])
  BY <1>1, <1>2, FoundIs, UnpatchedIsPlain
<1>4. ASSUME NEW p, Plain(p), Integrity!Historical PROVE Guarded(Integrity!GuardHistory(p))
  BY <1>4 DEF Plain, Guarded, Integrity!GuardHistory, Places, Integrity!Methods
<1>5. ASSUME NEW p, ~Integrity!Historical PROVE Integrity!GuardHistory(p) = p
  BY <1>5 DEF Integrity!GuardHistory
<1> QED
  BY <1>3, <1>4, <1>5, FoundIs

-----------------------------------------------------------------------------
(* What a run has heard, and the verdicts on it *)

\* An answer as the tools give it: one of a historical attempt tells of no later day
\* where a guard or the tool's own date forbids it.
Formed(a) ==
    /\ a.tool \in Integrity!Tools \cup {"social"}
    /\ a.attempt \in Nat
    /\ a.tool # "statement" => a.rows = {}
    /\ a.tool = "statement" => a.rows \subseteq Integrity!Statements /\ ~a.later
    /\ a.tool = "snapshot" /\ a.form = "unavailable" => ~a.later
    /\ a.tool = "macro" /\ a.form = "vintage" => ~a.later
    /\ a.historical /\ Integrity!Exposed(a) => a.tool \in {"bounded", "other"}

\* What was heard is well formed and, of a tool, on record; the attempts it was
\* heard in are over, or this one.
Heard(a) ==
    /\ Formed(a)
    /\ a.tool # "social" => Integrity!LineOf(a) \in evidence
    /\ a.attempt <= attempt
    /\ pc \in {"start", "enter"} => a.attempt < attempt

Clock ==
    /\ today \in Int /\ attempt \in Nat
    /\ recorder.historical \in BOOLEAN
    /\ recorder = [historical |-> recorder.historical, statuses |-> recorder.statuses]
    /\ recorder.historical => Integrity!Historical

Routing ==
    /\ pc \in {"start", "enter"} => patched = Integrity!Unpatched
    /\ pc = "graph" => \/ Guarded(patched)
                       \/ ~recorder.historical /\ Plain(patched)

Remembered == \A a \in context \cup checkpoint : Heard(a)

\* A historical attempt that has used an unknown tool says so.
Admitted ==
    pc = "graph" =>
       \A a \in context : a.historical /\ a.attempt = attempt /\ a.tool = "other" =>
          "unknown" \in recorder.statuses

Audited ==
    pc # "audited" => \A v \in verdicts : v.mode = "live"

IntegrityInv ==
    /\ Clock /\ Routing /\ Remembered /\ Admitted /\ Audited
    /\ Integrity!SafeIsKnown /\ Integrity!AuditIsFounded

LEMMA IntegrityInit == Integrity!Init => IntegrityInv
<1> SUFFICES ASSUME Integrity!Init PROVE IntegrityInv
  OBVIOUS
<1>1. Clock
  BY DEF Clock, Integrity!Init, Integrity!AnalysisDay
<1>2. Routing /\ Remembered /\ Admitted /\ Audited
  BY DEF Routing, Remembered, Admitted, Audited, Integrity!Init
<1>3. Integrity!SafeIsKnown /\ Integrity!AuditIsFounded
  BY DEF Integrity!SafeIsKnown, Integrity!AuditIsFounded, Integrity!Init
<1> QED
  BY <1>1, <1>2, <1>3 DEF IntegrityInv

\* The dates that are found for statements.
LEMMA DatesAre ==
    ASSUME NEW rows, NEW asOf, NEW res \in Integrity!Resolutions(rows, asOf)
    PROVE  /\ DOMAIN res.date = rows
           /\ \A r \in rows : res.date[r] \in {Integrity!Filed[r], Integrity!Reported[r], 0}
BY DEF Integrity!Resolutions

\* What the filter for statements leaves was announced by the analysis date.
LEMMA FilteredAreKnown ==
    ASSUME NEW g \in Integrity!FilteredAnswers
    PROVE  /\ \E rows : g.answer = Integrity!Answer("statement", "filtered", rows, FALSE)
           /\ g.answer.rows \subseteq Integrity!Statements
           /\ \A r \in g.answer.rows : Integrity!Reported[r] <= Integrity!AnalysisDay
<1> DEFINE rows == {r \in Integrity!Statements : Integrity!Filed[r] <= today}
           asOf == IF "stocklean" \in setup.data THEN Integrity!AnalysisDay ELSE today
<1>1. PICK res \in Integrity!Resolutions(rows, asOf) :
         g = [answer |-> Integrity!Answer("statement", "filtered",
                            Integrity!Retained(rows, res.date), FALSE),
              since |-> res.since]
  BY DEF Integrity!FilteredAnswers
<1>2. g.answer = Integrity!Answer("statement", "filtered",
                                  Integrity!Retained(rows, res.date), FALSE)
  BY <1>1
<1>3. g.answer.rows = Integrity!Retained(rows, res.date)
  BY <1>2 DEF Integrity!Answer
<1>4. \A r \in rows : res.date[r] \in {Integrity!Filed[r], Integrity!Reported[r], 0}
  BY DatesAre
<1>5. ASSUME NEW r \in Integrity!Retained(rows, res.date)
      PROVE  r \in Integrity!Statements /\ Integrity!Reported[r] <= Integrity!AnalysisDay
  BY <1>4, <1>5 DEF Integrity!Retained, Integrity!Statements, Integrity!Filed,
     Integrity!Reported, Integrity!AnalysisDay
<1> QED
  BY <1>2, <1>3, <1>5

\* What a tool answers is well formed, and its form says how it was routed.
LEMMA AnswersAre ==
    ASSUME IntegrityInv, pc = "graph", NEW tool \in Integrity!Tools,
           NEW form \in IF tool = "other" THEN {"route"}
                        ELSE {patched[tool][v] : v \in Integrity!Routes(tool)},
           NEW g \in Integrity!Answers(tool, form)
    PROVE  /\ Formed(g.answer) /\ g.answer.tool = tool
           /\ g.answer.attempt = attempt /\ g.answer.historical = recorder.historical
<1> DEFINE a == g.answer
<1>1. /\ attempt \in Nat /\ recorder.historical \in BOOLEAN
      /\ Guarded(patched) \/ (~recorder.historical /\ Plain(patched))
  BY DEF IntegrityInv, Clock, Routing
<1>2. tool = "other" \/ \E v \in DOMAIN patched[tool] : form = patched[tool][v]
  BY DEF Integrity!Routes
<1>3. CASE form = "filtered"
  <2>1. tool = "statement" /\ g \in Integrity!FilteredAnswers
    BY <1>1, <1>2, <1>3 DEF Guarded, Plain, Integrity!Answers, Integrity!Tools, Integrity!Methods
  <2>2. PICK rows : a = Integrity!Answer("statement", "filtered", rows, FALSE)
    BY <2>1, FilteredAreKnown
  <2>3. /\ a.tool = "statement" /\ a.attempt = attempt /\ a.historical = recorder.historical
        /\ a.later = FALSE
    BY <2>2 DEF Integrity!Answer
  <2>4. /\ a.rows \subseteq Integrity!Statements
        /\ \A r \in a.rows : ~(Integrity!Reported[r] > Integrity!AnalysisDay)
    <3>1. \A r \in Integrity!Statements : Integrity!Reported[r] \in Int
      BY DEF Integrity!Statements, Integrity!Reported
    <3>2. /\ a.rows \subseteq Integrity!Statements
          /\ \A r \in a.rows : Integrity!Reported[r] <= Integrity!AnalysisDay
      BY <2>1, FilteredAreKnown
    <3> HIDE DEF a
    <3> QED
      BY <3>1, <3>2 DEF Integrity!AnalysisDay
  <2> HIDE DEF a
  <2> QED
    BY <1>1, <2>1, <2>3, <2>4 DEF Formed, Integrity!Exposed, a
<1>4. CASE form = "route"
  <2>1. g \in {[answer |-> x, since |-> secSince] : x \in Integrity!PlainAnswers(tool)}
    BY <1>4 DEF Integrity!Answers
  <2>2. PICK x \in Integrity!PlainAnswers(tool) : g = [answer |-> x, since |-> secSince]
    BY <2>1
  <2>3. a = x
    BY <2>2
  <2>4. PICK rows, later : /\ a = Integrity!Answer(tool, "plain", rows, later)
                           /\ tool = "statement" => rows \subseteq Integrity!Statements /\ ~later
                           /\ tool # "statement" => rows = {}
    BY <2>3 DEF Integrity!PlainAnswers
  <2>5. /\ a.tool = tool /\ a.form = "plain" /\ a.rows = rows /\ a.later = later
        /\ a.attempt = attempt /\ a.historical = recorder.historical
    BY <2>4 DEF Integrity!Answer
  <2>6. recorder.historical => tool \in {"bounded", "other"}
    BY <1>1, <1>2, <1>4 DEF Guarded, Integrity!Tools, Integrity!Methods
  <2> HIDE DEF a
  <2> QED
    BY <1>1, <2>4, <2>5, <2>6 DEF Formed, a
<1>5. CASE form \notin {"filtered", "route"}
  <2> DEFINE later == form = "vintage" /\ patched.fred # "vintage"
  <2>1. g = [answer |-> Integrity!Answer(tool, form, {}, later), since |-> secSince]
    BY <1>5 DEF Integrity!Answers
  <2>2. a = Integrity!Answer(tool, form, {}, later)
    BY <2>1
  <2>3. tool \in {"snapshot", "macro"} /\ later = FALSE
    BY <1>1, <1>2, <1>5 DEF Guarded, Plain, Integrity!Tools, Integrity!Methods
  <2> HIDE DEF later
  <2>4. /\ a.tool = tool /\ a.rows = {} /\ a.later = FALSE
        /\ a.attempt = attempt /\ a.historical = recorder.historical
    BY <2>2, <2>3 DEF Integrity!Answer
  <2> HIDE DEF a
  <2> QED
    BY <1>1, <2>3, <2>4 DEF Formed, Integrity!Exposed, a
<1> QED
  BY <1>3, <1>4, <1>5

\* A step that answers nothing and finds nothing keeps what the answers there are
\* are known for.
LEMMA HeardStays ==
    ASSUME NEW a, Heard(a), evidence \subseteq evidence', attempt' = attempt, attempt \in Nat,
           pc' \in {"start", "enter"} => pc \in {"start", "enter"}
    PROVE  Heard(a)'
BY DEF Heard, Formed, Integrity!LineOf, Integrity!Exposed, Integrity!Reported,
   Integrity!AnalysisDay, Integrity!Statements, Integrity!Tools, Integrity!Methods

LEMMA StartIntegrity == IntegrityInv /\ Integrity!StartAttempt => IntegrityInv'
<1> SUFFICES ASSUME IntegrityInv, Integrity!StartAttempt PROVE IntegrityInv'
  OBVIOUS
<1> USE DEF Integrity!StartAttempt
<1>1. Clock'
  BY DEF IntegrityInv, Clock, Integrity!Historical, Integrity!AnalysisDay
<1>2. Routing'
  BY DEF IntegrityInv, Routing
<1>3. Remembered'
  <2> SUFFICES ASSUME NEW a \in checkpoint PROVE Heard(a)'
    BY DEF Remembered
  <2>1. Heard(a)
    BY DEF IntegrityInv, Remembered
  <2> QED
    BY <2>1, HeardStays DEF IntegrityInv, Clock
<1>4. Admitted' /\ Audited'
  BY DEF IntegrityInv, Admitted, Audited
<1>5. Integrity!SafeIsKnown' /\ Integrity!AuditIsFounded'
  BY DEF IntegrityInv, Audited, Integrity!SafeIsKnown, Integrity!AuditIsFounded
<1> QED
  BY <1>1, <1>2, <1>3, <1>4, <1>5 DEF IntegrityInv

LEMMA EnterIntegrity == IntegrityInv /\ Integrity!EnterContexts => IntegrityInv'
<1> SUFFICES ASSUME IntegrityInv, Integrity!EnterContexts PROVE IntegrityInv'
  OBVIOUS
<1>0. /\ pc = "enter"
      /\ \/ pc' = "fail" /\ UNCHANGED patched
         \/ pc' = "graph" /\ patched' = Integrity!Found[5]
      /\ UNCHANGED <<today, setup, recorder, context, checkpoint, evidence, secSince, attempt,
                     document, verdicts>>
  BY ContextsAre DEF Integrity!EnterContexts
<1>1. Clock'
  BY <1>0 DEF IntegrityInv, Clock, Integrity!Historical, Integrity!AnalysisDay
<1>2. Routing'
  <2>1. patched = Integrity!Unpatched
    BY <1>0 DEF IntegrityInv, Routing
  <2> QED
    BY <1>0, <2>1, GuardsAre DEF IntegrityInv, Clock, Routing, Guarded, Plain
<1>3. Remembered'
  <2> SUFFICES ASSUME NEW a \in context \cup checkpoint PROVE Heard(a)'
    BY <1>0 DEF Remembered
  <2>1. Heard(a)
    BY DEF IntegrityInv, Remembered
  <2> QED
    BY <1>0, <2>1, HeardStays DEF IntegrityInv, Clock
<1>4. Admitted' /\ Audited'
  <2>1. \A a \in context : a.attempt # attempt
    BY <1>0 DEF IntegrityInv, Remembered, Heard, Formed, Clock
  <2> QED
    BY <1>0, <2>1 DEF IntegrityInv, Admitted, Audited
<1>5. Integrity!SafeIsKnown' /\ Integrity!AuditIsFounded'
  BY <1>0 DEF IntegrityInv, Integrity!SafeIsKnown, Integrity!AuditIsFounded, Integrity!Exposed,
     Integrity!Reported, Integrity!AnalysisDay
<1> QED
  BY <1>1, <1>2, <1>3, <1>4, <1>5 DEF IntegrityInv

LEMMA ForgottenIs ==
    /\ Integrity!Forgotten.historical = FALSE
    /\ Integrity!Forgotten = [historical |-> Integrity!Forgotten.historical,
                              statuses |-> Integrity!Forgotten.statuses]
BY DEF Integrity!Forgotten

LEMMA LeaveIntegrity == IntegrityInv /\ Integrity!LeaveContexts => IntegrityInv'
<1> SUFFICES ASSUME IntegrityInv, Integrity!LeaveContexts PROVE IntegrityInv'
  OBVIOUS
<1>0. /\ pc = "graph"
      /\ \/ /\ pc' = "reported" /\ document' = Integrity!Verdict(recorder)
            /\ UNCHANGED <<recorder, context>>
         \/ pc' = "fail" /\ recorder' = Integrity!Forgotten /\ context' = {} /\ UNCHANGED document
      /\ UNCHANGED <<today, setup, checkpoint, evidence, secSince, attempt, verdicts>>
  BY DEF Integrity!LeaveContexts
<1>1. Clock'
  BY <1>0, ForgottenIs DEF IntegrityInv, Clock, Integrity!Historical, Integrity!AnalysisDay
<1>2. Routing'
  BY <1>0 DEF Routing
<1>3. Remembered'
  <2> SUFFICES ASSUME NEW a \in context \cup checkpoint PROVE Heard(a)'
    BY <1>0 DEF Remembered
  <2>1. Heard(a)
    BY DEF IntegrityInv, Remembered
  <2> QED
    BY <1>0, <2>1, HeardStays DEF IntegrityInv, Clock
<1>4. Admitted' /\ Audited'
  BY <1>0 DEF IntegrityInv, Admitted, Audited
<1>5. Integrity!SafeIsKnown'
  <2>1. pc' = "reported" /\ document' = "safe" => "unknown" \notin recorder.statuses
    BY <1>0 DEF Integrity!Verdict, Integrity!Worst
  <2> QED
    BY <1>0, <2>1 DEF IntegrityInv, Admitted, Integrity!SafeIsKnown
<1>6. Integrity!AuditIsFounded'
  BY <1>0 DEF IntegrityInv, Audited, Integrity!AuditIsFounded
<1> QED
  BY <1>1, <1>2, <1>3, <1>4, <1>5, <1>6 DEF IntegrityInv

\* One more answer is heard.
LEMMA HearIntegrity ==
    ASSUME IntegrityInv, pc = "graph", NEW a, Formed(a), a.attempt = attempt,
           a.historical = recorder.historical,
           context' = context \cup {a}, evidence \subseteq evidence',
           a.tool # "social" => Integrity!LineOf(a) \in evidence',
           recorder' = [recorder EXCEPT !.statuses = recorder'.statuses],
           recorder.statuses \subseteq recorder'.statuses,
           recorder.historical /\ a.tool = "other" => "unknown" \in recorder'.statuses,
           UNCHANGED <<today, setup, pc, saved, patched, checkpoint, attempt, document, verdicts>>
    PROVE  IntegrityInv'
<1>0. recorder'.historical = recorder.historical
      /\ recorder' = [historical |-> recorder'.historical, statuses |-> recorder'.statuses]
  BY DEF IntegrityInv, Clock
<1>1. Clock'
  BY <1>0 DEF IntegrityInv, Clock, Integrity!Historical, Integrity!AnalysisDay
<1>2. Routing'
  BY <1>0 DEF IntegrityInv, Routing, Guarded, Plain
<1>3. Remembered'
  <2>1. ASSUME NEW b \in context \cup checkpoint PROVE Heard(b)'
    <3>1. Heard(b)
      BY <2>1 DEF IntegrityInv, Remembered
    <3> QED
      BY <3>1, HeardStays DEF IntegrityInv, Clock
  <2>2. Heard(a)'
    BY DEF Heard, Formed, IntegrityInv, Clock, Integrity!LineOf, Integrity!Exposed,
       Integrity!Reported, Integrity!AnalysisDay, Integrity!Statements, Integrity!Tools,
       Integrity!Methods
  <2> QED
    BY <2>1, <2>2 DEF Remembered
<1>4. Admitted' /\ Audited'
  BY DEF IntegrityInv, Admitted, Audited
<1>5. Integrity!SafeIsKnown' /\ Integrity!AuditIsFounded'
  BY DEF IntegrityInv, Audited, Integrity!SafeIsKnown, Integrity!AuditIsFounded
<1> QED
  BY <1>1, <1>2, <1>3, <1>4, <1>5 DEF IntegrityInv

LEMMA ToolIntegrity == IntegrityInv /\ Integrity!ToolAnswers => IntegrityInv'
<1> SUFFICES ASSUME IntegrityInv, Integrity!ToolAnswers PROVE IntegrityInv'
  OBVIOUS
<1>0. PICK tool \in Integrity!Tools :
        \E form \in IF tool = "other" THEN {"route"}
                    ELSE {patched[tool][v] : v \in Integrity!Routes(tool)} :
          \E got \in Integrity!Answers(tool, form) :
                /\ evidence' = evidence \union {Integrity!LineOf(got.answer)}
                /\ context' = context \union {got.answer}
                /\ recorder' =
                     [recorder EXCEPT !.statuses = @
                         \union (IF recorder.historical THEN {Integrity!Observed(got.answer)}
                                 ELSE {})
                         \union (IF form # "route" THEN {"safe"} ELSE {})]
  BY DEF Integrity!ToolAnswers
<1>1. PICK form \in IF tool = "other" THEN {"route"}
                    ELSE {patched[tool][v] : v \in Integrity!Routes(tool)} :
          \E got \in Integrity!Answers(tool, form) :
                /\ evidence' = evidence \union {Integrity!LineOf(got.answer)}
                /\ context' = context \union {got.answer}
                /\ recorder' =
                     [recorder EXCEPT !.statuses = @
                         \union (IF recorder.historical THEN {Integrity!Observed(got.answer)}
                                 ELSE {})
                         \union (IF form # "route" THEN {"safe"} ELSE {})]
  BY <1>0
<1>2. PICK got \in Integrity!Answers(tool, form) :
                /\ evidence' = evidence \union {Integrity!LineOf(got.answer)}
                /\ context' = context \union {got.answer}
                /\ recorder' =
                     [recorder EXCEPT !.statuses = @
                         \union (IF recorder.historical THEN {Integrity!Observed(got.answer)}
                                 ELSE {})
                         \union (IF form # "route" THEN {"safe"} ELSE {})]
  BY <1>1
<1> DEFINE a == got.answer
<1>3. /\ pc = "graph"
      /\ UNCHANGED <<today, setup, pc, saved, patched, checkpoint, attempt, document, verdicts>>
  BY DEF Integrity!ToolAnswers
<1>4. /\ Formed(a) /\ a.tool = tool
      /\ a.attempt = attempt /\ a.historical = recorder.historical
  BY <1>3, AnswersAre
<1>5. a.tool = "other" => Integrity!Observed(a) = "unknown"
  BY DEF Integrity!Observed
<1>6. recorder = [historical |-> recorder.historical, statuses |-> recorder.statuses]
  BY DEF IntegrityInv, Clock
<1> HIDE DEF a
<1>7. /\ recorder' = [recorder EXCEPT !.statuses = recorder'.statuses]
      /\ recorder.statuses \subseteq recorder'.statuses
      /\ recorder.historical /\ a.tool = "other" => "unknown" \in recorder'.statuses
  BY <1>2, <1>5, <1>6 DEF a
<1>8. /\ context' = context \cup {a} /\ evidence \subseteq evidence'
      /\ Integrity!LineOf(a) \in evidence'
  BY <1>2 DEF a
<1> QED
  BY <1>3, <1>4, <1>7, <1>8, HearIntegrity

LEMMA SocialIntegrity == IntegrityInv /\ Integrity!FetchSocial => IntegrityInv'
<1> SUFFICES ASSUME IntegrityInv, Integrity!FetchSocial PROVE IntegrityInv'
  OBVIOUS
<1> DEFINE later == patched.social = "current" /\ Integrity!Historical
           a == Integrity!Answer("social", patched.social, {}, later)
<1>1. /\ pc = "graph" /\ context' = context \cup {a}
      /\ UNCHANGED <<today, setup, pc, saved, patched, checkpoint, evidence, secSince, attempt,
                     document, verdicts>>
      /\ recorder' = IF patched.social = "current" THEN recorder
                     ELSE [recorder EXCEPT !.statuses = @ \union {"safe"}]
  BY DEF Integrity!FetchSocial
<1>2. /\ a.tool = "social" /\ a.rows = {} /\ a.later = later
      /\ a.attempt = attempt /\ a.historical = recorder.historical
  BY DEF Integrity!Answer
<1>3. recorder.historical => later = FALSE
  BY <1>1 DEF IntegrityInv, Routing, Guarded
<1>4. recorder = [historical |-> recorder.historical, statuses |-> recorder.statuses]
      /\ attempt \in Nat
  BY DEF IntegrityInv, Clock
<1> HIDE DEF a, later
<1>5. Formed(a)
  BY <1>2, <1>3, <1>4 DEF Formed, Integrity!Exposed
<1>6. /\ recorder' = [recorder EXCEPT !.statuses = recorder'.statuses]
      /\ recorder.statuses \subseteq recorder'.statuses
  BY <1>1, <1>4
<1> QED
  BY <1>1, <1>2, <1>5, <1>6, HearIntegrity

LEMMA KeepIntegrity ==
    IntegrityInv /\ (Integrity!ToolFails \/ Integrity!SaveCheckpoint) => IntegrityInv'
<1> SUFFICES ASSUME IntegrityInv, Integrity!ToolFails \/ Integrity!SaveCheckpoint
             PROVE  IntegrityInv'
  OBVIOUS
<1>0. /\ pc = "graph" /\ evidence \subseteq evidence'
      /\ context' \cup checkpoint' \subseteq context \cup checkpoint
      /\ UNCHANGED <<today, setup, pc, saved, patched, recorder, context, secSince, attempt,
                     document, verdicts>>
  BY DEF Integrity!ToolFails, Integrity!SaveCheckpoint
<1>1. Clock' /\ Routing'
  BY <1>0 DEF IntegrityInv, Clock, Routing, Guarded, Plain, Integrity!Historical,
     Integrity!AnalysisDay
<1>2. Remembered'
  <2> SUFFICES ASSUME NEW a \in context \cup checkpoint PROVE Heard(a)'
    BY <1>0 DEF Remembered
  <2>1. Heard(a)
    BY DEF IntegrityInv, Remembered
  <2> QED
    BY <1>0, <2>1, HeardStays DEF IntegrityInv, Clock
<1>3. Admitted' /\ Audited'
  BY <1>0 DEF IntegrityInv, Admitted, Audited
<1>4. Integrity!SafeIsKnown' /\ Integrity!AuditIsFounded'
  BY <1>0 DEF IntegrityInv, Audited, Integrity!SafeIsKnown, Integrity!AuditIsFounded
<1> QED
  BY <1>1, <1>2, <1>3, <1>4 DEF IntegrityInv

LEMMA EndIntegrity == IntegrityInv /\ Integrity!AttemptEnds => IntegrityInv'
<1> SUFFICES ASSUME IntegrityInv, Integrity!AttemptEnds PROVE IntegrityInv'
  OBVIOUS
<1>0. /\ pc # "audited" /\ pc' = "start" /\ attempt' = attempt + 1
      /\ patched' = Integrity!Unpatched /\ context' = {} /\ recorder' = Integrity!Forgotten
      /\ UNCHANGED <<today, setup, checkpoint, evidence, secSince, document, verdicts>>
  BY DEF Integrity!AttemptEnds
<1>1. Clock' /\ Routing'
  <2>1. today' \in Int /\ attempt' \in Nat
    BY <1>0 DEF IntegrityInv, Clock
  <2> QED
    BY <1>0, <2>1, ForgottenIs DEF Clock, Routing, Integrity!Unpatched
<1>2. Remembered'
  <2> SUFFICES ASSUME NEW a \in checkpoint PROVE Heard(a)'
    BY <1>0 DEF Remembered
  <2>1. Heard(a) /\ attempt \in Nat /\ a.attempt \in Nat
    BY DEF IntegrityInv, Remembered, Clock, Heard, Formed
  <2>2. a.attempt <= attempt' /\ a.attempt < attempt'
    BY <1>0, <2>1 DEF Heard
  <2> QED
    BY <1>0, <2>1, <2>2
    DEF Heard, Formed, Integrity!LineOf, Integrity!Exposed, Integrity!Reported,
        Integrity!AnalysisDay, Integrity!Statements, Integrity!Tools, Integrity!Methods
<1>3. Admitted' /\ Audited'
  BY <1>0 DEF IntegrityInv, Admitted, Audited
<1>4. Integrity!SafeIsKnown' /\ Integrity!AuditIsFounded'
  BY <1>0 DEF Integrity!SafeIsKnown, Integrity!AuditIsFounded
<1> QED
  BY <1>1, <1>2, <1>3, <1>4 DEF IntegrityInv

LEMMA MidnightIntegrity == IntegrityInv /\ Integrity!MidnightPasses => IntegrityInv'
<1> SUFFICES ASSUME IntegrityInv, Integrity!MidnightPasses PROVE IntegrityInv'
  OBVIOUS
<1>0. /\ today' = today + 1
      /\ UNCHANGED <<setup, pc, saved, patched, recorder, context, checkpoint, evidence,
                     secSince, attempt, document, verdicts>>
  BY DEF Integrity!MidnightPasses
<1>1. Clock' /\ Routing'
  BY <1>0 DEF IntegrityInv, Clock, Routing, Guarded, Plain, Integrity!Historical,
     Integrity!AnalysisDay
<1>2. Remembered'
  <2> SUFFICES ASSUME NEW a \in context \cup checkpoint PROVE Heard(a)'
    BY <1>0 DEF Remembered
  <2>1. Heard(a)
    BY DEF IntegrityInv, Remembered
  <2> QED
    BY <1>0, <2>1, HeardStays DEF IntegrityInv, Clock
<1>3. Admitted' /\ Audited'
  BY <1>0 DEF IntegrityInv, Admitted, Audited
<1>4. Integrity!SafeIsKnown' /\ Integrity!AuditIsFounded'
  BY <1>0 DEF IntegrityInv, Integrity!SafeIsKnown, Integrity!AuditIsFounded, Integrity!Exposed,
     Integrity!Reported, Integrity!AnalysisDay
<1> QED
  BY <1>1, <1>2, <1>3, <1>4 DEF IntegrityInv

\* An audit that calls the evidence safe has looked at a line of everything the run
\* has heard from a tool.
LEMMA SafeIsFounded ==
    ASSUME IntegrityInv, NEW res \in Integrity!Resolutions(Integrity!StatementRows, today),
           Integrity!Worst(Integrity!Dated(res.date) \cup {Integrity!Judged(l) : l \in evidence})
              = "safe",
           NEW a \in context, a.tool # "social"
    PROVE  ~Integrity!Exposed(a) /\ a.tool # "other"
<1> DEFINE line == Integrity!LineOf(a)
           found == Integrity!Dated(res.date) \cup {Integrity!Judged(l) : l \in evidence}
<1>1. Formed(a) /\ line \in evidence /\ a.tool \in Integrity!Tools
  BY DEF IntegrityInv, Remembered, Heard, Formed
<1>2. line.tool = a.tool /\ line.form = a.form /\ line.rows = a.rows /\ line.later = a.later
  BY DEF Integrity!LineOf
<1> HIDE DEF line, found
<1>3. "at_risk" \notin found /\ "unknown" \notin found
  BY DEF Integrity!Worst, found
<1>4. Integrity!Judged(line) \notin {"at_risk", "unknown"}
  BY <1>1, <1>3 DEF found
<1>5. /\ a.tool # "other"
      /\ a.tool = "snapshot" => a.form = "unavailable"
      /\ a.tool = "macro" => a.form = "vintage"
      /\ a.tool = "bounded" => ~a.later
  BY <1>1, <1>2, <1>4 DEF Integrity!Judged, Integrity!Tools, Integrity!Methods
<1>6. ~a.later
  BY <1>1, <1>5 DEF Formed, Integrity!Tools, Integrity!Methods
<1>7. ASSUME NEW r \in a.rows PROVE ~(Integrity!Reported[r] > Integrity!AnalysisDay)
  <2>1. a.tool = "statement" /\ r \in Integrity!Statements
    BY <1>1, <1>7 DEF Formed
  <2>2. r \in Integrity!StatementRows
    BY <1>1, <1>2, <1>7, <2>1 DEF Integrity!StatementRows
  <2>3. /\ r \in DOMAIN res.date
        /\ res.date[r] \in {Integrity!Filed[r], Integrity!Reported[r], 0}
    BY <2>2, DatesAre
  <2>4. (IF res.date[r] = 0 THEN "unknown"
         ELSE IF res.date[r] > Integrity!AnalysisDay THEN "at_risk" ELSE "safe") \in found
    BY <2>3 DEF found, Integrity!Dated
  <2> QED
    BY <1>3, <2>1, <2>3, <2>4
    DEF Integrity!Statements, Integrity!Filed, Integrity!Reported, Integrity!AnalysisDay
<1> QED
  BY <1>5, <1>6, <1>7 DEF Integrity!Exposed

LEMMA JudgeIntegrity ==
    IntegrityInv /\ (Integrity!PersistIntegrity \/ Integrity!AuditOne) => IntegrityInv'
<1> SUFFICES ASSUME IntegrityInv, Integrity!PersistIntegrity \/ Integrity!AuditOne
             PROVE  IntegrityInv'
  OBVIOUS
<1>0. /\ pc \in {"reported", "sealed"} /\ pc' \in {"sealed", "audited"}
      /\ UNCHANGED <<today, setup, saved, patched, recorder, context, checkpoint, evidence,
                     attempt, document>>
  BY DEF Integrity!PersistIntegrity, Integrity!AuditOne
<1>1. Clock' /\ Routing'
  BY <1>0 DEF IntegrityInv, Clock, Routing, Integrity!Historical, Integrity!AnalysisDay
<1>2. Remembered'
  <2> SUFFICES ASSUME NEW a \in context \cup checkpoint PROVE Heard(a)'
    BY <1>0 DEF Remembered
  <2>1. Heard(a)
    BY DEF IntegrityInv, Remembered
  <2> QED
    BY <1>0, <2>1, HeardStays DEF IntegrityInv, Clock
<1>3. Admitted'
  BY <1>0 DEF Admitted
<1>4. Integrity!SafeIsKnown'
  BY <1>0 DEF IntegrityInv, Integrity!SafeIsKnown
<1>5. Audited' /\ Integrity!AuditIsFounded'
  <2>1. CASE Integrity!PersistIntegrity
    <3> DEFINE v == [mode |-> "live", status |-> document]
    <3>1. v.mode = "live" /\ verdicts' = {v}
      BY <2>1 DEF Integrity!PersistIntegrity
    <3>2. [mode |-> "retrospective", status |-> "safe"].mode = "retrospective"
      OBVIOUS
    <3> HIDE DEF v
    <3> QED
      BY <3>1, <3>2 DEF Audited, Integrity!AuditIsFounded
  <2>2. CASE Integrity!AuditOne
    <3>1. PICK found \in BOOLEAN :
            \E res \in Integrity!Resolutions(IF found THEN Integrity!StatementRows ELSE {}, today) :
               verdicts' = verdicts \union
                 {[mode |-> "retrospective",
                   status |-> IF ~found \/ evidence = {} THEN "unknown"
                              ELSE Integrity!Worst(Integrity!Dated(res.date) \union
                                                   {Integrity!Judged(l) : l \in evidence})]}
      BY <2>2 DEF Integrity!AuditOne
    <3>2. PICK res \in Integrity!Resolutions(IF found THEN Integrity!StatementRows ELSE {}, today) :
               verdicts' = verdicts \union
                 {[mode |-> "retrospective",
                   status |-> IF ~found \/ evidence = {} THEN "unknown"
                              ELSE Integrity!Worst(Integrity!Dated(res.date) \union
                                                   {Integrity!Judged(l) : l \in evidence})]}
      BY <3>1
    <3> DEFINE worst == Integrity!Worst(Integrity!Dated(res.date) \union
                                        {Integrity!Judged(l) : l \in evidence})
               status == IF ~found \/ evidence = {} THEN "unknown" ELSE worst
               safe == [mode |-> "retrospective", status |-> "safe"]
               v == [mode |-> "retrospective", status |-> status]
    <3>3. pc = "sealed" /\ pc' = "audited"
      BY <2>2 DEF Integrity!AuditOne
    <3>4. safe \notin verdicts
      <4>1. safe.mode = "retrospective"
        OBVIOUS
      <4> HIDE DEF safe
      <4> QED
        BY <3>3, <4>1 DEF IntegrityInv, Audited
    <3>5. safe \in verdicts' => found /\ worst = "safe"
      <4>1. safe.status = "safe" /\ v.status = status
        OBVIOUS
      <4>2. verdicts' = verdicts \cup {v}
        BY <3>2
      <4> HIDE DEF safe, v, worst
      <4> QED
        BY <3>4, <4>1, <4>2
    <3>6. ASSUME safe \in verdicts', NEW a \in context, a.tool # "social"
          PROVE  ~Integrity!Exposed(a) /\ a.tool # "other"
      <4>1. found /\ worst = "safe"
        BY <3>5, <3>6
      <4>2. res \in Integrity!Resolutions(Integrity!StatementRows, today)
        BY <4>1
      <4> QED
        BY <3>6, <4>1, <4>2, SafeIsFounded
    <3>7. \A a \in context : Integrity!Exposed(a)' <=> Integrity!Exposed(a)
      BY DEF Integrity!Exposed, Integrity!Reported, Integrity!AnalysisDay
    <3> HIDE DEF safe
    <3>8. Integrity!AuditIsFounded'
      BY <1>0, <3>6, <3>7 DEF Integrity!AuditIsFounded, safe
    <3> QED
      BY <3>3, <3>8 DEF Audited
  <2> QED
    BY <2>1, <2>2
<1> QED
  BY <1>1, <1>2, <1>3, <1>4, <1>5 DEF IntegrityInv

LEMMA IntegrityStep == IntegrityInv /\ [Integrity!Next]_judging => IntegrityInv'
<1> SUFFICES ASSUME IntegrityInv, [Integrity!Next]_judging PROVE IntegrityInv'
  OBVIOUS
<1>1. CASE UNCHANGED judging
  <2>1. Remembered'
    <3> SUFFICES ASSUME NEW a \in context \cup checkpoint PROVE Heard(a)'
      BY <1>1 DEF Remembered, judging
    <3>1. Heard(a)
      BY DEF IntegrityInv, Remembered
    <3> QED
      BY <1>1, <3>1, HeardStays DEF IntegrityInv, Clock, judging
  <2>2. Integrity!SafeIsKnown' /\ Integrity!AuditIsFounded'
    BY <1>1 DEF judging, IntegrityInv, Integrity!SafeIsKnown, Integrity!AuditIsFounded,
       Integrity!Exposed, Integrity!Reported, Integrity!AnalysisDay
  <2> QED
    BY <1>1, <2>1, <2>2 DEF judging, IntegrityInv, Clock, Routing, Admitted, Audited, Guarded,
       Plain, Integrity!Historical, Integrity!AnalysisDay
<1> QED
  BY <1>1, StartIntegrity, EnterIntegrity, LeaveIntegrity, ToolIntegrity, SocialIntegrity,
     KeepIntegrity, EndIntegrity, MidnightIntegrity, JudgeIntegrity DEF Integrity!Next

\* The contexts of a historical run, the recorder and the retrospective audit: the
\* guards hold whatever is resumed and forgotten, a safe verdict has seen no unknown
\* tool, and what the audit calls safe has heard of no later day.
THEOREM Founded == OperationsSpec => []VerdictsAreFounded
<1>1. OperationsInit => IntegrityInv
  BY IntegrityInit DEF OperationsInit
<1>2. IntegrityInv /\ [OperationsNext]_all => IntegrityInv'
  BY IntegrityStep, OperationsStep
<1>3. IntegrityInv => VerdictsAreFounded
  <2>1. Remembered => Integrity!GuardsHold
    BY DEF Remembered, Heard, Formed, Integrity!GuardsHold
  <2> QED
    BY <2>1 DEF IntegrityInv, VerdictsAreFounded
<1> QED
  BY <1>1, <1>2, <1>3, PTL DEF OperationsSpec

-----------------------------------------------------------------------------
(* The contexts are left as they were found *)

\* The days and the attempts of a run are bounded by numbers.
RunAssumption == LastDay \in Nat /\ MaxAttempts \in Nat \ {0}

\* What is there again when all contexts have put theirs back: each what it found,
\* the one that was entered first last.
LEMMA PutBackIs ==
    ASSUME NEW found, NEW p
    PROVE  Integrity!PutBack(found, p) =
             [s \in DOMAIN p |->
                IF s \in {"request", "loader"} THEN found[2][s]
                ELSE IF s \in {"bounded", "statement", "snapshot", "loader"} THEN found[3][s]
                ELSE IF s \in {"statement", "snapshot", "macro", "fred", "social"}
                     THEN found[4][s] ELSE p[s]]
<1> DEFINE C == Integrity!Contexts
           Back(i, q) == [s \in DOMAIN p |-> IF s \in Integrity!Slots[C[i + 1]]
                                            THEN found[i + 1][s] ELSE q[s]]
           Unfolds(g) == g = [i \in 0 .. Len(C) |-> IF i = Len(C) THEN p
                                ELSE [s \in DOMAIN p |->
                                        IF s \in Integrity!Slots[C[i + 1]] THEN found[i + 1][s]
                                        ELSE g[i + 1][s]]]
           g3 == Back(3, p)
           g2 == Back(2, g3)
           g1 == Back(1, g2)
           g0 == Back(0, g1)
           h == [i \in 0 .. 4 |-> IF i = 0 THEN g0 ELSE IF i = 1 THEN g1
                                  ELSE IF i = 2 THEN g2 ELSE IF i = 3 THEN g3 ELSE p]
<1>0. 0 + 1 = 1 /\ 1 + 1 = 2 /\ 2 + 1 = 3 /\ 3 + 1 = 4
  OBVIOUS
<1>1. Unfolds(h)
  <2> HIDE DEF g0, g1, g2, g3, Back
  <2>1. /\ h[0] = g0 /\ h[1] = g1 /\ h[2] = g2 /\ h[3] = g3 /\ h[4] = p
        /\ h = [i \in 0 .. 4 |-> h[i]]
    OBVIOUS
  <2>2. \A i \in 0 .. 4 : i = 0 \/ i = 1 \/ i = 2 \/ i = 3 \/ i = 4
    OBVIOUS
  <2> HIDE DEF h, C
  <2>3. \A i \in 0 .. 4 : h[i] = IF i = 4 THEN p ELSE Back(i, h[i + 1])
    BY <2>1, <2>2, <1>0 DEF g0, g1, g2, g3
  <2>4. Len(C) = 4
    BY ContextsAre DEF C
  <2> QED
    BY <2>1, <2>3, <2>4 DEF Back
<1>2. Integrity!PutBack(found, p) = (CHOOSE g : Unfolds(g))[0]
  BY DEF Integrity!PutBack
<1> DEFINE k == CHOOSE g : Unfolds(g)
<1>3. Unfolds(k)
  <2> HIDE DEF Unfolds, h
  <2> QED
    BY <1>1
<1> HIDE DEF k
<1>4. /\ k[4] = p /\ k[3] = Back(3, k[4]) /\ k[2] = Back(2, k[3]) /\ k[1] = Back(1, k[2])
      /\ k[0] = Back(0, k[1])
  <2>1. Len(C) = 4
    BY ContextsAre
  <2>2. \A i \in 0 .. 4 : k[i] = IF i = 4 THEN p ELSE Back(i, k[i + 1])
    BY <1>3, <2>1
  <2> HIDE DEF Back
  <2> QED
    BY <2>2, <1>0
<1>5. /\ Integrity!Slots[C[1]] = {} /\ Integrity!Slots[C[2]] = {"request", "loader"}
      /\ Integrity!Slots[C[3]] = {"bounded", "statement", "snapshot", "loader"}
      /\ Integrity!Slots[C[4]] = {"statement", "snapshot", "macro", "fred", "social"}
  BY ContextsAre DEF Integrity!Slots
<1> HIDE DEF C
<1>6. /\ k[3] = [s \in DOMAIN p |->
                   IF s \in {"statement", "snapshot", "macro", "fred", "social"}
                   THEN found[4][s] ELSE p[s]]
      /\ k[2] = [s \in DOMAIN p |->
                   IF s \in {"bounded", "statement", "snapshot", "loader"}
                   THEN found[3][s] ELSE k[3][s]]
      /\ k[1] = [s \in DOMAIN p |-> IF s \in {"request", "loader"} THEN found[2][s] ELSE k[2][s]]
      /\ k[0] = [s \in DOMAIN p |-> k[1][s]]
  BY <1>4, <1>5, <1>0
<1>7. Integrity!PutBack(found, p) = k[0]
  BY <1>2 DEF k
<1>8. \A s \in DOMAIN p :
         k[1][s] = IF s \in {"request", "loader"} THEN found[2][s]
                   ELSE IF s \in {"bounded", "statement", "snapshot", "loader"} THEN found[3][s]
                   ELSE IF s \in {"statement", "snapshot", "macro", "fred", "social"}
                        THEN found[4][s] ELSE p[s]
  <2> HIDE DEF k
  <2>1. \A s \in DOMAIN p :
           k[3][s] = IF s \in {"statement", "snapshot", "macro", "fred", "social"}
                     THEN found[4][s] ELSE p[s]
    BY <1>6
  <2>2. \A s \in DOMAIN p :
           k[2][s] = IF s \in {"bounded", "statement", "snapshot", "loader"}
                     THEN found[3][s] ELSE k[3][s]
    BY <1>6
  <2>3. \A s \in DOMAIN p :
           k[1][s] = IF s \in {"request", "loader"} THEN found[2][s] ELSE k[2][s]
    BY <1>6
  <2> QED
    BY <2>1, <2>2, <2>3, Zenon
<1>9. k[0] = [s \in DOMAIN p |-> k[1][s]]
  BY <1>6
<1> HIDE DEF k
<1> QED
  BY <1>7, <1>8, <1>9

\* On whichever day the contexts are entered, and whatever vendors are configured.
LEMMA Restores ==
    ASSUME patched = Integrity!Unpatched
    PROVE  Integrity!PutBack(Integrity!Found, Integrity!Found[5]) = Integrity!Unpatched
<1> DEFINE U == Integrity!Unpatched
           F == Integrity!Found
<1>1. DOMAIN U = Places /\ U = [s \in Places |-> U[s]]
  BY DEF Integrity!Unpatched, Places
<1>2. F[2] = U /\ F[3] = Integrity!GuardAlpha(F[2]) /\ F[4] = Integrity!GuardStockLean(F[3])
      /\ F[5] = Integrity!GuardHistory(F[4])
  BY FoundIs
<1> HIDE DEF U, F
<1>3. DOMAIN F[3] = Places /\ \A s \in Places \ {"request", "loader"} : F[3][s] = U[s]
  BY <1>1, <1>2 DEF Integrity!GuardAlpha, Places
<1>4. /\ DOMAIN F[4] = Places
      /\ \A s \in {"request", "macro", "fred", "social"} : F[4][s] = F[3][s]
  BY <1>3, <1>2 DEF Integrity!GuardStockLean, Places
<1>5. DOMAIN F[5] = Places
  BY <1>4, <1>2 DEF Integrity!GuardHistory, Places
<1>6. Integrity!PutBack(F, F[5]) =
        [s \in Places |->
           IF s \in {"request", "loader"} THEN F[2][s]
           ELSE IF s \in {"bounded", "statement", "snapshot", "loader"} THEN F[3][s]
           ELSE IF s \in {"statement", "snapshot", "macro", "fred", "social"} THEN F[4][s]
           ELSE F[5][s]]
  BY <1>5, PutBackIs
<1>7. \A s \in Places : Integrity!PutBack(F, F[5])[s] = U[s]
  BY <1>2, <1>3, <1>4, <1>6 DEF Places
<1> QED
  BY <1>1, <1>6, <1>7 DEF U, F

\* Nothing of an attempt outlives its contexts: leaving them restores what was there
\* before the first was entered, although a midnight may have passed in between.
RunInv ==
    /\ today \in Integrity!AnalysisDay .. LastDay /\ secSince \in 0 .. today
    /\ setup \in Integrity!Setups /\ attempt \in 1 .. MaxAttempts
    /\ pc \in {"start", "enter", "graph", "fail", "reported", "sealed", "audited"}
    /\ recorder.statuses \subseteq Integrity!Statuses
    /\ document \in Integrity!Statuses \union {"none"}
    /\ pc = "reported" => document # "none"
    /\ verdicts \subseteq [mode : {"live", "retrospective"}, status : Integrity!Statuses]
    /\ pc # "graph" => patched = Integrity!Unpatched
    /\ pc = "graph" => Integrity!PutBack(saved, patched) = Integrity!Unpatched

LEMMA RunTyped == RunInv => Integrity!TypeOK
BY DEF RunInv, Integrity!TypeOK

LEMMA RunInit == ASSUME RunAssumption, Integrity!Init PROVE RunInv
<1>1. today \in Integrity!AnalysisDay .. LastDay /\ secSince \in 0 .. today
  BY DEF Integrity!Init, RunAssumption, Integrity!AnalysisDay
<1>2. attempt \in 1 .. MaxAttempts
  BY DEF Integrity!Init, RunAssumption
<1> QED
  BY <1>1, <1>2 DEF Integrity!Init, RunInv

\* Whatever is found, the worst of it is a status.
LEMMA WorstIs == \A found : Integrity!Worst(found) \in Integrity!Statuses
BY DEF Integrity!Worst, Integrity!Statuses

LEMMA VerdictIs == \A r : Integrity!Verdict(r) \in Integrity!Statuses
BY WorstIs DEF Integrity!Verdict, Integrity!Statuses

\* SEC's filings are those of today, or those of the cache.
LEMMA SinceIs ==
    ASSUME NEW rows, NEW asOf, NEW res \in Integrity!Resolutions(rows, asOf)
    PROVE  res.since \in {today, secSince}
BY DEF Integrity!Resolutions

LEMMA AnswersSince ==
    ASSUME NEW tool, NEW form, NEW g \in Integrity!Answers(tool, form)
    PROVE  g.since \in {today, secSince}
<1>1. CASE form = "filtered"
  <2>1. g \in Integrity!FilteredAnswers
    BY <1>1 DEF Integrity!Answers
  <2> DEFINE rows == {r \in Integrity!Statements : Integrity!Filed[r] <= today}
             asOf == IF "stocklean" \in setup.data THEN Integrity!AnalysisDay ELSE today
  <2>2. PICK res \in Integrity!Resolutions(rows, asOf) :
           g = [answer |-> Integrity!Answer("statement", "filtered",
                              Integrity!Retained(rows, res.date), FALSE),
                since |-> res.since]
    BY <2>1 DEF Integrity!FilteredAnswers
  <2>3. g.since = res.since
    BY <2>2
  <2> QED
    BY <2>3, SinceIs
<1>2. CASE form # "filtered"
  <2>1. PICK a : g = [answer |-> a, since |-> secSince]
    BY <1>2 DEF Integrity!Answers
  <2> QED
    BY <2>1
<1> QED
  BY <1>1, <1>2

\* A step that leaves contexts, cache and verdicts alone.
LEMMA RunStays ==
    ASSUME RunInv, UNCHANGED <<today, setup, secSince, attempt, document, verdicts>>,
           pc' \in {"start", "enter", "graph", "fail", "reported", "sealed", "audited"},
           pc' = "reported" => pc = "reported",
           recorder'.statuses \subseteq Integrity!Statuses,
           pc' # "graph" => patched' = Integrity!Unpatched,
           pc' = "graph" => Integrity!PutBack(saved', patched') = Integrity!Unpatched
    PROVE  RunInv'
BY DEF RunInv, Integrity!AnalysisDay, Integrity!Setups, Integrity!Statuses, Integrity!Unpatched,
       Integrity!PutBack

LEMMA AttemptRuns ==
    ASSUME RunAssumption, RunInv, Integrity!StartAttempt \/ Integrity!EnterContexts
                                     \/ Integrity!LeaveContexts \/ Integrity!AttemptEnds
    PROVE  RunInv'
<1>1. CASE Integrity!StartAttempt
  <2>1. recorder'.statuses = {}
    BY <1>1 DEF Integrity!StartAttempt
  <2>2. patched = Integrity!Unpatched /\ pc' = "enter" /\ UNCHANGED patched
        /\ UNCHANGED <<today, setup, secSince, attempt, document, verdicts>>
    BY <1>1 DEF RunInv, Integrity!StartAttempt
  <2> QED
    BY <2>1, <2>2, RunStays
<1>2. CASE Integrity!EnterContexts
  <2>1. /\ UNCHANGED <<today, setup, secSince, attempt, document, verdicts, recorder>>
        /\ patched = Integrity!Unpatched /\ pc' \in {"fail", "graph"}
        /\ pc' = "fail" => UNCHANGED patched
        /\ pc' = "graph" => saved' = Integrity!Found /\ patched' = Integrity!Found[5]
    BY <1>2, ContextsAre DEF RunInv, Integrity!EnterContexts
  <2>2. recorder'.statuses \subseteq Integrity!Statuses
    BY <2>1 DEF RunInv
  <2>3. pc' = "graph" => Integrity!PutBack(saved', patched') = Integrity!Unpatched
    BY <2>1, Restores
  <2> QED
    BY <2>1, <2>2, <2>3, RunStays
<1>3. CASE Integrity!LeaveContexts
  <2>1. /\ pc = "graph" /\ pc' \in {"reported", "fail"}
        /\ patched' = Integrity!PutBack(saved, patched)
        /\ UNCHANGED <<today, setup, secSince, attempt, verdicts>>
        /\ pc' = "reported" => document' = Integrity!Verdict(recorder) /\ UNCHANGED recorder
        /\ pc' = "fail" => recorder' = Integrity!Forgotten /\ UNCHANGED document
    BY <1>3 DEF Integrity!LeaveContexts
  <2>2. patched' = Integrity!Unpatched
    BY <2>1 DEF RunInv
  <2>3. recorder'.statuses \subseteq Integrity!Statuses
    BY <2>1 DEF RunInv, Integrity!Forgotten
  <2>4. document' \in Integrity!Statuses \union {"none"} /\ (pc' = "reported" => document' # "none")
    BY <2>1, VerdictIs DEF RunInv, Integrity!Statuses
  <2> QED
    BY <2>1, <2>2, <2>3, <2>4
    DEF RunInv, Integrity!AnalysisDay, Integrity!Setups, Integrity!Statuses, Integrity!Unpatched
<1>4. CASE Integrity!AttemptEnds
  <2>1. /\ pc' = "start" /\ patched' = Integrity!Unpatched
        /\ attempt' = attempt + 1 /\ attempt < MaxAttempts /\ recorder' = Integrity!Forgotten
        /\ UNCHANGED <<today, setup, secSince, document, verdicts>>
    BY <1>4 DEF Integrity!AttemptEnds
  <2>2. recorder'.statuses \subseteq Integrity!Statuses
    BY <2>1 DEF Integrity!Forgotten
  <2>3. attempt' \in 1 .. MaxAttempts
    BY <2>1 DEF RunInv, RunAssumption
  <2> QED
    BY <2>1, <2>2, <2>3
    DEF RunInv, Integrity!AnalysisDay, Integrity!Setups, Integrity!Statuses, Integrity!Unpatched
<1> QED
  BY <1>1, <1>2, <1>3, <1>4

LEMMA ToolsRun ==
    ASSUME IntegrityInv, RunInv, Integrity!ToolAnswers \/ Integrity!ToolFails
                                    \/ Integrity!FetchSocial \/ Integrity!SaveCheckpoint
    PROVE  RunInv'
<1>0. /\ pc = "graph" /\ UNCHANGED <<today, setup, pc, saved, patched, attempt, document, verdicts>>
  BY DEF Integrity!ToolAnswers, Integrity!ToolFails, Integrity!FetchSocial,
         Integrity!SaveCheckpoint
<1>1. recorder = [historical |-> recorder.historical, statuses |-> recorder.statuses]
  BY DEF IntegrityInv, Clock
<1>2. CASE Integrity!ToolAnswers
  <2>1. PICK tool \in Integrity!Tools :
           \E form \in IF tool = "other" THEN {"route"}
                      ELSE {patched[tool][v] : v \in Integrity!Routes(tool)} :
             \E g \in Integrity!Answers(tool, form) :
              /\ secSince' = g.since
              /\ recorder' =
                   [recorder EXCEPT !.statuses = @
                       \union (IF recorder.historical THEN {Integrity!Observed(g.answer)} ELSE {})
                       \union (IF form # "route" THEN {"safe"} ELSE {})]
    BY <1>2 DEF Integrity!ToolAnswers
  <2> PICK form \in IF tool = "other" THEN {"route"}
                     ELSE {patched[tool][v] : v \in Integrity!Routes(tool)} :
             \E g \in Integrity!Answers(tool, form) :
              /\ secSince' = g.since
              /\ recorder' =
                   [recorder EXCEPT !.statuses = @
                       \union (IF recorder.historical THEN {Integrity!Observed(g.answer)} ELSE {})
                       \union (IF form # "route" THEN {"safe"} ELSE {})]
    BY <2>1
  <2>2. PICK g \in Integrity!Answers(tool, form) :
           /\ secSince' = g.since
           /\ recorder' =
                [recorder EXCEPT !.statuses = @
                    \union (IF recorder.historical THEN {Integrity!Observed(g.answer)} ELSE {})
                    \union (IF form # "route" THEN {"safe"} ELSE {})]
    BY <2>1
  <2>3. g.answer.tool = tool
    BY <1>0, AnswersAre
  <2>4. Integrity!Observed(g.answer) \in Integrity!Statuses
    BY <2>3 DEF Integrity!Observed, Integrity!Tools, Integrity!Methods, Integrity!Statuses
  <2>5. recorder'.statuses = recorder.statuses
                       \union (IF recorder.historical THEN {Integrity!Observed(g.answer)} ELSE {})
                       \union (IF form # "route" THEN {"safe"} ELSE {})
    BY <1>1, <2>2
  <2>6. recorder'.statuses \subseteq Integrity!Statuses
    BY <2>4, <2>5 DEF RunInv, Integrity!Statuses
  <2>7. secSince' \in 0 .. today
    BY <2>2, AnswersSince DEF RunInv, Integrity!AnalysisDay
  <2> QED
    BY <1>0, <2>6, <2>7
    DEF RunInv, Integrity!AnalysisDay, Integrity!Setups, Integrity!Statuses, Integrity!Unpatched
<1>3. CASE Integrity!ToolFails \/ Integrity!SaveCheckpoint
  <2>1. UNCHANGED <<recorder, secSince>>
    BY <1>3 DEF Integrity!ToolFails, Integrity!SaveCheckpoint
  <2> QED
    BY <1>0, <2>1, RunStays DEF RunInv
<1>4. CASE Integrity!FetchSocial
  <2>1. UNCHANGED secSince
    BY <1>4 DEF Integrity!FetchSocial
  <2>2. recorder'.statuses \subseteq recorder.statuses \union {"safe"}
    BY <1>1, <1>4 DEF Integrity!FetchSocial
  <2> QED
    BY <1>0, <2>1, <2>2, RunStays DEF RunInv, Integrity!Statuses
<1> QED
  BY <1>2, <1>3, <1>4

LEMMA JudgesRun ==
    ASSUME RunAssumption, RunInv,
           Integrity!PersistIntegrity \/ Integrity!AuditOne \/ Integrity!MidnightPasses
    PROVE  RunInv'
<1> DEFINE Rows == [mode : {"live", "retrospective"}, status : Integrity!Statuses]
<1>1. CASE Integrity!PersistIntegrity
  <2>1. /\ pc = "reported" /\ pc' = "sealed" /\ verdicts' = {[mode |-> "live", status |-> document]}
        /\ UNCHANGED <<today, setup, patched, recorder, secSince, attempt, document>>
    BY <1>1 DEF Integrity!PersistIntegrity
  <2>2. document \in Integrity!Statuses
    BY <2>1 DEF RunInv
  <2>3. verdicts' \subseteq Rows
    BY <2>1, <2>2
  <2> QED
    BY <2>1, <2>3
    DEF RunInv, Integrity!AnalysisDay, Integrity!Setups, Integrity!Statuses, Integrity!Unpatched
<1>2. CASE Integrity!AuditOne
  <2>1. /\ pc = "sealed" /\ pc' = "audited"
        /\ UNCHANGED <<today, setup, patched, recorder, attempt, document>>
    BY <1>2 DEF Integrity!AuditOne
  <2> PICK found \in BOOLEAN :
        \E res \in Integrity!Resolutions(IF found THEN Integrity!StatementRows ELSE {}, today) :
           /\ secSince' = IF found THEN res.since ELSE secSince
           /\ verdicts' = verdicts \union
                {[mode |-> "retrospective",
                  status |-> IF ~found \/ evidence = {} THEN "unknown"
                             ELSE Integrity!Worst(Integrity!Dated(res.date)
                                     \union {Integrity!Judged(l) : l \in evidence})]}
    BY <1>2 DEF Integrity!AuditOne
  <2>2. PICK res \in Integrity!Resolutions(IF found THEN Integrity!StatementRows ELSE {}, today) :
           /\ secSince' = IF found THEN res.since ELSE secSince
           /\ verdicts' = verdicts \union
                {[mode |-> "retrospective",
                  status |-> IF ~found \/ evidence = {} THEN "unknown"
                             ELSE Integrity!Worst(Integrity!Dated(res.date)
                                     \union {Integrity!Judged(l) : l \in evidence})]}
    BY <1>2 DEF Integrity!AuditOne
  <2>3. secSince' \in 0 .. today
    BY <2>2, SinceIs DEF RunInv, Integrity!AnalysisDay
  <2> DEFINE status == IF ~found \/ evidence = {} THEN "unknown"
                       ELSE Integrity!Worst(Integrity!Dated(res.date)
                               \union {Integrity!Judged(l) : l \in evidence})
  <2>4. status \in Integrity!Statuses
    BY WorstIs DEF Integrity!Statuses
  <2>5. verdicts' = verdicts \union {[mode |-> "retrospective", status |-> status]}
    BY <2>2
  <2> HIDE DEF status
  <2>6. verdicts' \subseteq Rows
    BY <2>4, <2>5 DEF RunInv
  <2> QED
    BY <2>1, <2>3, <2>6
    DEF RunInv, Integrity!AnalysisDay, Integrity!Setups, Integrity!Statuses, Integrity!Unpatched
<1>3. CASE Integrity!MidnightPasses
  <2>1. /\ today < LastDay /\ today' = today + 1
        /\ UNCHANGED <<setup, pc, saved, patched, recorder, secSince, attempt, document, verdicts>>
    BY <1>3 DEF Integrity!MidnightPasses
  <2>2. today' \in Integrity!AnalysisDay .. LastDay /\ secSince' \in 0 .. today'
    BY <2>1 DEF RunInv, RunAssumption, Integrity!AnalysisDay
  <2>3. Integrity!PutBack(saved, patched)' = Integrity!PutBack(saved, patched)
    BY <2>1 DEF Integrity!PutBack
  <2> QED
    BY <2>1, <2>2, <2>3
    DEF RunInv, Integrity!AnalysisDay, Integrity!Setups, Integrity!Statuses, Integrity!Unpatched
<1> QED
  BY <1>1, <1>2, <1>3

LEMMA RunStep ==
    ASSUME RunAssumption, IntegrityInv, RunInv, [Integrity!Next]_judging PROVE RunInv'
<1>1. CASE UNCHANGED judging
  BY <1>1, RunStays DEF judging, RunInv
<1> QED
  BY <1>1, AttemptRuns, ToolsRun, JudgesRun DEF Integrity!Next

-----------------------------------------------------------------------------
(* The ledger *)

\* The ledger here is that of the proofs of its module.
LEMMA SameLedger ==
    /\ Ledger!Init <=> L!Init
    /\ Ledger!Next <=> L!Next
    /\ Ledger!LineageIsSound <=> L!LineageIsSound
    /\ Ledger!MemoryReachesBack <=> L!MemoryReachesBack
    /\ \A r, h : Ledger!Counted(r, h) <=> L!Counted(r, h)
    /\ Ledger!TypeOK <=> L!TypeOK
<1> USE DEF Ledger!Runs, L!Runs, Ledger!Present, L!Present, Ledger!Created, L!Created,
            Ledger!CleanOf, L!CleanOf, Ledger!Cardinality, L!Cardinality, Ledger!OwnKey,
            L!OwnKey, Ledger!Absent, L!Absent
<1>1. Ledger!Init <=> L!Init
  BY Zenon DEF Ledger!Init, L!Init
<1>2. Ledger!Next <=> L!Next
  BY Zenon
  DEF Ledger!Next, L!Next, Ledger!Submit, L!Submit, Ledger!CreateRetry, L!CreateRetry,
      Ledger!AuditOne, L!AuditOne, Ledger!DataReady, L!DataReady, Ledger!Admit, L!Admit,
      Ledger!Succeed, L!Succeed, Ledger!Fail, L!Fail, Ledger!Mature, L!Mature,
      Ledger!CleanReassess, L!CleanReassess, Ledger!Delete, L!Delete, Ledger!Succeeded,
      L!Succeeded, Ledger!Latest, L!Latest, Ledger!Fresh, L!Fresh, Ledger!NextFresh,
      L!NextFresh, Ledger!CleanKey, L!CleanKey, Ledger!Audited, L!Audited,
      Ledger!WithVerdict, L!WithVerdict, Ledger!Findings, L!Findings, Ledger!ModeOf,
      L!ModeOf, Ledger!Memory, L!Memory, Ledger!Candidates, L!Candidates, Ledger!Exit,
      L!Exit, Ledger!Later, L!Later, Ledger!DependentRuns, L!DependentRuns,
      Ledger!DeleteGraph, L!DeleteGraph
<1>3. Ledger!LineageIsSound <=> L!LineageIsSound
  BY Zenon DEF Ledger!LineageIsSound, L!LineageIsSound
<1>5. \A r, h : Ledger!Counted(r, h) <=> L!Counted(r, h)
  BY Zenon DEF Ledger!Counted, L!Counted, Ledger!Succeeded, L!Succeeded, Ledger!Latest, L!Latest
<1>4. Ledger!MemoryReachesBack <=> L!MemoryReachesBack
  BY Zenon DEF Ledger!MemoryReachesBack, L!MemoryReachesBack, Ledger!IsClean, L!IsClean
<1>6. Ledger!TypeOK <=> L!TypeOK
  BY Zenon DEF Ledger!TypeOK, L!TypeOK
<1> QED
  BY <1>1, <1>2, <1>3, <1>4, <1>5, <1>6


LEMMA LedgerStep ==
    ASSUME [OperationsNext]_all PROVE [L!Next]_(L!ledgerVars)
BY SameLedger DEF OperationsNext, all, trusting, L!ledgerVars

\* Retry, clean reassessment and deletion leave no reference to a run that is gone,
\* one clean reassessment of a run at most, and no batch or snapshot without a run.
THEOREM Lineage ==
    ASSUME L!RowsAssumption PROVE OperationsSpec => []LineageIsSound
<1>1. OperationsInit => L!IInv
  BY L!InitInv, SameLedger DEF OperationsInit
<1>2. L!IInv /\ [OperationsNext]_all => L!IInv'
  BY L!Inductive, LedgerStep
<1>3. L!IInv => LineageIsSound
  BY L!LineageIs, SameLedger DEF LineageIsSound
<1> QED
  BY <1>1, <1>2, <1>3, PTL DEF OperationsSpec

\* The memory that is pinned when a run is admitted has ended before the run's day,
\* and each of its entries is one the statistics count.
THEOREM Memory ==
    ASSUME L!RowsAssumption, L!NumbersAssumption
    PROVE  OperationsSpec => MemoryIsSound
<1>1. OperationsInit => L!IInv /\ L!MInv
  BY L!InitInv, L!InitMemory, SameLedger DEF OperationsInit
<1>2. L!IInv /\ L!MInv /\ [OperationsNext]_all => L!IInv' /\ L!MInv'
  BY L!Inductive, L!InductiveMemory, LedgerStep
<1>3. L!MInv => (focus = "ledger" => Ledger!MemoryReachesBack)
  BY L!MemoryIs, SameLedger
<1>4. L!IInv /\ [OperationsNext]_all =>
        [\A r \in Ledger!Runs : ledger[r].status = "queued" /\ ledger'[r].status = "admitted" =>
            \A c \in ledger'[r].snapshot : \A e \in c.memory :
                Ledger!Counted(e.run, e.horizon)]_(Ledger!ledgerVars)
  <2> SUFFICES ASSUME L!IInv, [OperationsNext]_all, NEW r \in Ledger!Runs,
                      ledger[r].status = "queued", ledger'[r].status = "admitted",
                      NEW c \in ledger'[r].snapshot, NEW e \in c.memory
               PROVE  Ledger!Counted(e.run, e.horizon)
    OBVIOUS
  <2>1. r \in L!Runs
    BY DEF Ledger!Runs, L!Runs
  <2> QED
    BY <2>1, L!PinnedIsCounted, LedgerStep, SameLedger
<1> QED
  BY <1>1, <1>2, <1>3, <1>4, PTL DEF OperationsSpec, MemoryIsSound, Ledger!MemoryIsCounted

-----------------------------------------------------------------------------
(* Keycloak synchronisation *)

\* An enumeration of a finite set finds each of its members.
LEMMA Enumerates ==
    ASSUME NEW S, IsFiniteSet(S)
    PROVE  /\ Cardinality(S) \in Nat
           /\ Sync!SetToSeq(S) \in [1 .. Cardinality(S) -> S]
           /\ \A m \in S : \E k \in 1 .. Cardinality(S) : Sync!SetToSeq(S)[k] = m
<1> DEFINE n == Cardinality(S)
           users == Sync!SetToSeq(S)
<1>1. Sync!Cardinality(S) = n
  BY Zenon DEF Sync!Cardinality, Cardinality
<1>2. n \in Nat /\ ExistsBijection(1 .. n, S)
  BY FS_CardinalityType, FS_NatBijection
<1>3. \E f \in [1 .. n -> S] : \A a, b \in DOMAIN f : f[a] = f[b] => a = b
  BY <1>2 DEF ExistsBijection, Bijection, Injection, IsInjective
<1>4. users \in [1 .. n -> S] /\ \A a, b \in DOMAIN users : users[a] = users[b] => a = b
  BY <1>1, <1>3 DEF Sync!SetToSeq, Sync!IsInjective
<1>5. users \in Injection(1 .. n, S)
  BY <1>4 DEF Injection, IsInjective
<1>6. IsFiniteSet(1 .. n) /\ Cardinality(1 .. n) = n
  <2>1. 1 \in Int /\ n \in Int
    BY <1>2
  <2> QED
    BY <1>2, <2>1, FS_Interval
<1> HIDE DEF n, users
<1>7. users \in Surjection(1 .. n, S)
  BY <1>5, <1>6, FS_Injection DEF n
<1> QED
  BY <1>2, <1>4, <1>7 DEF Surjection, n, users

\* A legacy role is only dropped after a formal one was added, and each user
\* who has a legacy role gets both.
AddsThenDrops(t) ==
    /\ t \in Seq([kind : {"migrate add", "migrate drop", "logout"},
                  user : Members, role : Sync!FORMAL_ROLES])
    /\ \A i \in 1 .. Len(t) : t[i].kind = "migrate drop" =>
          \E j \in 1 .. i - 1 : t[j].kind = "migrate add" /\ t[j].user = t[i].user
    /\ \A m \in Sync!Legacy :
          \E i \in 1 .. Len(t) : t[i].kind = "migrate drop" /\ t[i].user = m

LEMMA MigrationsAre ==
    ASSUME IsFiniteSet(Members)
    PROVE  AddsThenDrops(Sync!Migrations)
<1> DEFINE users == Sync!SetToSeq(Sync!Legacy)
           n == Cardinality(Sync!Legacy)
           q(i) == (i - 1) \div 3
           r(i) == (i - 1) % 3
           u(i) == users[q(i) + 1]
           kind(i) == Sync!Migrate[r(i) + 1]
           step(i) == [kind |-> kind(i), user |-> u(i), role |-> Sync!TargetRole(u(i))]
           t == [i \in 1 .. 3 * n |-> step(i)]
           Moving == [kind : {"migrate add", "migrate drop", "logout"},
                     user : Members, role : Sync!FORMAL_ROLES]
<1>1. IsFiniteSet(Sync!Legacy) /\ Sync!Legacy \subseteq Members
  BY FS_Subset DEF Sync!Legacy
<1>2. /\ n \in Nat /\ users \in [1 .. n -> Sync!Legacy]
      /\ \A m \in Sync!Legacy : \E k \in 1 .. n : users[k] = m
  BY <1>1, Enumerates
<1>3. Len(users) = n
  BY <1>2, LenProperties
<1>4. Sync!Migrations = t
  BY <1>3 DEF Sync!Migrations
<1>5. \A i \in 1 .. 3 * n : q(i) + 1 \in 1 .. n /\ r(i) \in {0, 1, 2}
  BY <1>2
<1>5a. \A i \in 1 .. 3 * n : r(i) = 1 =>
         i - 1 \in 1 .. i - 1 /\ i - 1 \in 1 .. 3 * n /\ r(i - 1) = 0 /\ q(i - 1) = q(i)
  BY <1>2
<1>5b. \A k \in 1 .. n : LET i == 3 * (k - 1) + 1
                             j == 3 * (k - 1) + 2
                         IN /\ i \in 1 .. 3 * n /\ q(i) + 1 = k /\ r(i) = 0
                            /\ j \in 1 .. 3 * n /\ q(j) + 1 = k /\ r(j) = 1
  BY <1>2
<1> HIDE DEF q, r
<1>6. \A i \in 1 .. 3 * n : u(i) \in Members
  BY <1>1, <1>2, <1>5
<1>7. /\ Sync!Migrate[1] = "migrate add" /\ Sync!Migrate[2] = "migrate drop"
      /\ Sync!Migrate[3] = "logout"
  BY DEF Sync!Migrate
<1>8. \A i \in 1 .. 3 * n : /\ kind(i) \in {"migrate add", "migrate drop", "logout"}
                            /\ kind(i) = "migrate drop" <=> r(i) = 1
                            /\ kind(i) = "migrate add" <=> r(i) = 0
  <2> SUFFICES ASSUME NEW i \in 1 .. 3 * n
               PROVE  /\ kind(i) \in {"migrate add", "migrate drop", "logout"}
                      /\ kind(i) = "migrate drop" <=> r(i) = 1
                      /\ kind(i) = "migrate add" <=> r(i) = 0
    OBVIOUS
  <2>1. /\ r(i) = 0 => kind(i) = "migrate add"
        /\ r(i) = 1 => kind(i) = "migrate drop"
        /\ r(i) = 2 => kind(i) = "logout"
    <3>1. CASE r(i) = 0
      <4>1. r(i) + 1 = 1
        BY <3>1
      <4> QED
        BY <1>7, <3>1, <4>1
    <3>2. CASE r(i) = 1
      <4>1. r(i) + 1 = 2
        BY <3>2
      <4> QED
        BY <1>7, <3>2, <4>1
    <3>3. CASE r(i) = 2
      <4>1. r(i) + 1 = 3
        BY <3>3
      <4> QED
        BY <1>7, <3>3, <4>1
    <3> QED
      BY <1>5, <3>1, <3>2, <3>3
  <2>2. r(i) \in {0, 1, 2}
    BY <1>5
  <2> HIDE DEF kind
  <2> QED
    BY <2>1, <2>2
<1>9. \A m : Sync!TargetRole(m) \in Sync!FORMAL_ROLES
  BY DEF Sync!TargetRole, Sync!FORMAL_ROLES
<1>10. 3 * n \in Nat
  BY <1>2
<1>11. ASSUME NEW i \in 1 .. 3 * n
       PROVE  /\ t[i] \in Moving /\ t[i].kind = kind(i) /\ t[i].user = u(i)
  BY <1>6, <1>8, <1>9
<1>12. t \in Seq(Moving) /\ Len(t) = 3 * n
  <2>1. t \in [1 .. 3 * n -> Moving]
    BY <1>11
  <2> HIDE DEF t, Moving
  <2> QED
    BY <1>10, <2>1, LenProperties
<1> HIDE DEF t, Moving
<1>13. ASSUME NEW i \in 1 .. 3 * n, t[i].kind = "migrate drop"
       PROVE  \E j \in 1 .. i - 1 : t[j].kind = "migrate add" /\ t[j].user = t[i].user
  <2>1. r(i) = 1
    BY <1>8, <1>11, <1>13
  <2>2. i - 1 \in 1 .. i - 1 /\ i - 1 \in 1 .. 3 * n /\ r(i - 1) = 0 /\ q(i - 1) = q(i)
    BY <1>5a, <2>1
  <2>3. kind(i - 1) = "migrate add"
    BY <1>8, <2>2
  <2>4. t[i - 1].kind = "migrate add" /\ t[i - 1].user = t[i].user
    <3>1. t[i - 1].kind = kind(i - 1) /\ t[i - 1].user = u(i - 1) /\ t[i].user = u(i)
      BY <1>11, <2>2
    <3> QED
      BY <2>2, <2>3, <3>1
  <2> QED
    BY <2>2, <2>4
<1>14. ASSUME NEW m \in Sync!Legacy
       PROVE  /\ \E i \in 1 .. 3 * n : t[i].kind = "migrate add" /\ t[i].user = m
              /\ \E i \in 1 .. 3 * n : t[i].kind = "migrate drop" /\ t[i].user = m
  <2>1. PICK k \in 1 .. n : users[k] = m
    BY <1>2
  <2> DEFINE i == 3 * (k - 1) + 1
             j == 3 * (k - 1) + 2
  <2>2. /\ i \in 1 .. 3 * n /\ q(i) + 1 = k /\ r(i) = 0
        /\ j \in 1 .. 3 * n /\ q(j) + 1 = k /\ r(j) = 1
    BY <1>5b
  <2> HIDE DEF i, j
  <2>3. /\ t[i].kind = kind(i) /\ t[i].user = u(i) /\ t[j].kind = kind(j) /\ t[j].user = u(j)
    BY <1>11, <2>2
  <2>4. kind(i) = "migrate add" /\ kind(j) = "migrate drop" /\ u(i) = m /\ u(j) = m
    BY <1>8, <2>1, <2>2
  <2> QED
    BY <2>2, <2>3, <2>4
<1> HIDE DEF kind, u
<1>16. t \in Seq([kind : {"migrate add", "migrate drop", "logout"},
                  user : Members, role : Sync!FORMAL_ROLES])
  BY <1>12 DEF Moving
<1>17. 1 .. Len(t) = 1 .. 3 * n
  BY <1>12
<1> HIDE DEF n
<1>18. \A i \in 1 .. Len(t) : t[i].kind = "migrate drop" =>
          \E j \in 1 .. i - 1 : t[j].kind = "migrate add" /\ t[j].user = t[i].user
  BY <1>13, <1>17
<1>19. \A m \in Sync!Legacy :
          \E i \in 1 .. Len(t) : t[i].kind = "migrate drop" /\ t[i].user = m
  <2>1. ASSUME NEW m \in Sync!Legacy
        PROVE  \E i \in 1 .. Len(t) : t[i].kind = "migrate drop" /\ t[i].user = m
    <3>1. PICK i \in 1 .. 3 * n : t[i].kind = "migrate drop" /\ t[i].user = m
      BY <1>14
    <3> QED
      BY <1>17, <3>1
  <2> QED
    BY <2>1
<1>20. AddsThenDrops(t)
  BY <1>16, <1>18, <1>19 DEF AddsThenDrops
<1> QED
  BY <1>4, <1>20

Coming == {"role User", "scope", "client", "grants", "web scope"}
Leaving == {"role Analyst", "role Viewer"}
CreateRecords == [kind : {"create"}, part : Coming]
RemoveRecords == [kind : {"remove"}, part : Leaving]
MigrateRecords == [kind : {"migrate add", "migrate drop", "logout"}, user : Members,
           role : Sync!FORMAL_ROLES]
Todo == CreateRecords \cup RemoveRecords \cup MigrateRecords

Elements(s) == {s[i] : i \in 1 .. Len(s)}

\* Nothing can be taken from a user without leaving a role.
Settled(had, m) == had[m] = {} \/ had[m] \cap Sync!FORMAL_ROLES # {}

AddedBefore(s, i, m) == \E j \in 1 .. i - 1 : s[j].kind = "migrate add" /\ s[j].user = m

Ordered(had, s) ==
    \A i \in 1 .. Len(s) :
       /\ s[i].kind = "migrate drop" => Settled(had, s[i].user) \/ AddedBefore(s, i, s[i].user)
       /\ s[i].kind = "remove" => \A m \in Members : Settled(had, m) \/ AddedBefore(s, i, m)

Finishing(parts, had, s) ==
    /\ \A p \in Coming : p \in parts \/ [kind |-> "create", part |-> p] \in Elements(s)
    /\ \A p \in Leaving : p \notin parts \/ [kind |-> "remove", part |-> p] \in Elements(s)
    /\ \A m \in Members : had[m] \cap Sync!LEGACY_ROLES # {} =>
          \E e \in Elements(s) : e.kind = "migrate drop" /\ e.user = m

SyncInv ==
    /\ realm \subseteq Sync!Parts
    /\ roles \in [Members -> SUBSET (Sync!LEGACY_ROLES \cup Sync!FORMAL_ROLES)]
    /\ mirror \in [Members -> Sync!FORMAL_ROLES \cup {"none"}]
    /\ script \in [pc : {"stopped", "applying", "converged"}, todo : Seq(Todo)]
    /\ script.pc = "applying" => Ordered(roles, script.todo) /\ Finishing(realm, roles, script.todo)

LEMMA TodoKinds ==
    ASSUME NEW e \in Todo
    PROVE  /\ e.kind = "create" => e \in CreateRecords
           /\ e.kind = "remove" => e \in RemoveRecords
           /\ e.kind \in {"migrate add", "migrate drop", "logout"} => e \in MigrateRecords
           /\ e.kind \in {"create", "remove", "migrate add", "migrate drop", "logout"}
<1>1. /\ \A x \in CreateRecords : x.kind = "create"
      /\ \A x \in RemoveRecords : x.kind = "remove"
      /\ \A x \in MigrateRecords : x.kind \in {"migrate add", "migrate drop", "logout"}
  BY DEF CreateRecords, RemoveRecords, MigrateRecords
<1> QED
  BY <1>1 DEF Todo

LEMMA ElementsJoin ==
    ASSUME NEW s \in Seq(Todo), NEW t \in Seq(Todo)
    PROVE  s \o t \in Seq(Todo) /\ Elements(s \o t) = Elements(s) \cup Elements(t)
<1>1. /\ s \o t \in Seq(Todo) /\ Len(s \o t) = Len(s) + Len(t)
      /\ \A i \in 1 .. Len(s) + Len(t) :
            (s \o t)[i] = IF i <= Len(s) THEN s[i] ELSE t[i - Len(s)]
  BY ConcatProperties
<1>2. Len(s) \in Nat /\ Len(t) \in Nat
  BY LenProperties
<1> DEFINE u == s \o t
<1>3. /\ u \in Seq(Todo) /\ Len(u) = Len(s) + Len(t)
      /\ \A i \in 1 .. Len(s) + Len(t) : u[i] = IF i <= Len(s) THEN s[i] ELSE t[i - Len(s)]
  BY <1>1
<1> HIDE DEF u
<1>4. Elements(u) \subseteq Elements(s) \cup Elements(t)
  <2>1. ASSUME NEW i \in 1 .. Len(u) PROVE u[i] \in Elements(s) \cup Elements(t)
    <3>1. CASE i <= Len(s)
      <4>1. i \in 1 .. Len(s) /\ u[i] = s[i]
        BY <1>2, <1>3, <3>1
      <4> QED
        BY <4>1 DEF Elements
    <3>2. CASE ~(i <= Len(s))
      <4>1. i - Len(s) \in 1 .. Len(t) /\ u[i] = t[i - Len(s)]
        BY <1>2, <1>3, <3>2
      <4> QED
        BY <4>1 DEF Elements
    <3> QED
      BY <3>1, <3>2
  <2> QED
    BY <2>1 DEF Elements
<1>5. Elements(s) \subseteq Elements(u)
  <2>1. ASSUME NEW i \in 1 .. Len(s) PROVE s[i] \in Elements(u)
    <3>1. i \in 1 .. Len(u) /\ u[i] = s[i]
      BY <1>2, <1>3
    <3> QED
      BY <3>1 DEF Elements
  <2> QED
    BY <2>1 DEF Elements
<1>6. Elements(t) \subseteq Elements(u)
  <2>1. ASSUME NEW i \in 1 .. Len(t) PROVE t[i] \in Elements(u)
    <3>1. /\ i + Len(s) \in 1 .. Len(s) + Len(t) /\ ~(i + Len(s) <= Len(s))
          /\ (i + Len(s)) - Len(s) = i
      BY <1>2
    <3>2. i + Len(s) \in 1 .. Len(u) /\ u[i + Len(s)] = t[i]
      BY <1>3, <3>1
    <3> QED
      BY <3>2 DEF Elements
  <2> QED
    BY <2>1 DEF Elements
<1> QED
  BY <1>3, <1>4, <1>5, <1>6 DEF u

\* One list after another is in order when each is, or when the second only removes
\* roles and the first has seen to every user.
LEMMA OrderedJoin ==
    ASSUME NEW s \in Seq(Todo), NEW t \in Seq(Todo), Ordered(roles, s),
           \/ Ordered(roles, t)
           \/ /\ \A i \in 1 .. Len(t) : t[i].kind = "remove"
              /\ \A m \in Members : Settled(roles, m) \/ AddedBefore(s, Len(s) + 1, m)
    PROVE  /\ Ordered(roles, s \o t)
           /\ \A m : AddedBefore(s, Len(s) + 1, m) => AddedBefore(s \o t, Len(s \o t) + 1, m)
<1>1. /\ s \o t \in Seq(Todo) /\ Len(s \o t) = Len(s) + Len(t)
      /\ \A i \in 1 .. Len(s) + Len(t) :
            (s \o t)[i] = IF i <= Len(s) THEN s[i] ELSE t[i - Len(s)]
  BY ConcatProperties
<1>2. Len(s) \in Nat /\ Len(t) \in Nat
  BY LenProperties
<1> DEFINE u == s \o t
<1>3. /\ u \in Seq(Todo) /\ Len(u) = Len(s) + Len(t)
      /\ \A i \in 1 .. Len(s) + Len(t) : u[i] = IF i <= Len(s) THEN s[i] ELSE t[i - Len(s)]
  BY <1>1
<1> HIDE DEF u
<1>4. ASSUME NEW m, NEW i \in 1 .. Len(s) + 1, NEW k \in Nat, i <= k, AddedBefore(s, i, m)
      PROVE  AddedBefore(u, k, m)
  <2>1. PICK j \in 1 .. i - 1 : s[j].kind = "migrate add" /\ s[j].user = m
    BY <1>4 DEF AddedBefore
  <2>2. j \in 1 .. k - 1 /\ j \in 1 .. Len(s) + Len(t) /\ j <= Len(s)
    BY <1>2, <1>4
  <2>3. u[j] = s[j]
    BY <1>3, <2>2
  <2> QED
    BY <2>1, <2>2, <2>3 DEF AddedBefore
<1>5. ASSUME NEW m, NEW i \in 1 .. Len(t), AddedBefore(t, i, m)
      PROVE  AddedBefore(u, i + Len(s), m)
  <2>1. PICK j \in 1 .. i - 1 : t[j].kind = "migrate add" /\ t[j].user = m
    BY <1>5 DEF AddedBefore
  <2>2. /\ j + Len(s) \in 1 .. (i + Len(s)) - 1 /\ j + Len(s) \in 1 .. Len(s) + Len(t)
        /\ ~(j + Len(s) <= Len(s)) /\ (j + Len(s)) - Len(s) = j
    BY <1>2
  <2>3. u[j + Len(s)] = t[j]
    BY <1>3, <2>2
  <2> QED
    BY <2>1, <2>2, <2>3 DEF AddedBefore
<1>6. ASSUME NEW i \in 1 .. Len(u)
      PROVE  /\ u[i].kind = "migrate drop" => Settled(roles, u[i].user) \/ AddedBefore(u, i, u[i].user)
             /\ u[i].kind = "remove" => \A m \in Members : Settled(roles, m) \/ AddedBefore(u, i, m)
  <2>1. CASE i <= Len(s)
    <3>1. i \in 1 .. Len(s) /\ u[i] = s[i] /\ i \in Nat /\ i \in 1 .. Len(s) + 1 /\ i <= i
      BY <1>2, <1>3, <2>1
    <3>2. \A m : AddedBefore(s, i, m) => AddedBefore(u, i, m)
      BY <1>4, <3>1
    <3>3. /\ s[i].kind = "migrate drop" => Settled(roles, s[i].user) \/ AddedBefore(s, i, s[i].user)
          /\ s[i].kind = "remove" => \A m \in Members : Settled(roles, m) \/ AddedBefore(s, i, m)
      BY <3>1 DEF Ordered
    <3> QED
      BY <3>1, <3>2, <3>3
  <2>2. CASE ~(i <= Len(s))
    <3> DEFINE k == i - Len(s)
    <3>1. k \in 1 .. Len(t) /\ u[i] = t[k] /\ k + Len(s) = i
      BY <1>2, <1>3, <2>2
    <3> HIDE DEF k
    <3>2. CASE Ordered(roles, t)
      <4>1. \A m : AddedBefore(t, k, m) => AddedBefore(u, i, m)
        BY <1>5, <3>1
      <4>2. /\ t[k].kind = "migrate drop" => Settled(roles, t[k].user) \/ AddedBefore(t, k, t[k].user)
            /\ t[k].kind = "remove" => \A m \in Members : Settled(roles, m) \/ AddedBefore(t, k, m)
        BY <3>1, <3>2 DEF Ordered
      <4> QED
        BY <3>1, <4>1, <4>2
    <3>3. CASE /\ \A x \in 1 .. Len(t) : t[x].kind = "remove"
               /\ \A m \in Members : Settled(roles, m) \/ AddedBefore(s, Len(s) + 1, m)
      <4>1. Len(s) + 1 \in 1 .. Len(s) + 1 /\ i \in Nat /\ Len(s) + 1 <= i
        BY <1>2, <1>3, <2>2
      <4>2. \A m \in Members : Settled(roles, m) \/ AddedBefore(u, i, m)
        BY <1>4, <3>3, <4>1
      <4> QED
        BY <3>1, <3>3, <4>2
    <3> QED
      BY <3>2, <3>3
  <2> QED
    BY <2>1, <2>2
<1>7. \A m : AddedBefore(s, Len(s) + 1, m) => AddedBefore(u, Len(u) + 1, m)
  <2>1. Len(s) + 1 \in 1 .. Len(s) + 1 /\ Len(u) + 1 \in Nat /\ Len(s) + 1 <= Len(u) + 1
    BY <1>2, <1>3
  <2> QED
    BY <1>4, <2>1
<1> QED
  BY <1>6, <1>7 DEF Ordered, u

LEMMA AddedIn ==
    ASSUME NEW s \in Seq(Todo), NEW m
    PROVE  AddedBefore(s, Len(s) + 1, m) <=>
              \E e \in Elements(s) : e.kind = "migrate add" /\ e.user = m
<1>1. Len(s) \in Nat
  BY LenProperties
<1>2. (Len(s) + 1) - 1 = Len(s)
  BY <1>1
<1> QED
  BY <1>2 DEF AddedBefore, Elements

LEMMA MissingIs ==
    ASSUME NEW p \in Coming
    PROVE  /\ Sync!Missing(p) \in Seq(Todo) /\ Ordered(roles, Sync!Missing(p))
           /\ p \in realm \/ [kind |-> "create", part |-> p] \in Elements(Sync!Missing(p))
<1> DEFINE e == [kind |-> "create", part |-> p]
<1>1. e \in Todo /\ e.kind = "create"
  BY DEF Todo, CreateRecords
<1> HIDE DEF e
<1>2. CASE p \in realm
  <2>1. Sync!Missing(p) = <<>>
    BY <1>2 DEF Sync!Missing
  <2>2. <<>> \in Seq(Todo) /\ Ordered(roles, <<>>)
    BY DEF Ordered
  <2> QED
    BY <1>2, <2>1, <2>2
<1>3. CASE p \notin realm
  <2> DEFINE s == <<e>>
  <2>1. Sync!Missing(p) = s
    BY <1>3 DEF Sync!Missing, e
  <2>2. s \in Seq(Todo) /\ Len(s) = 1 /\ s[1] = e
    BY <1>1
  <2> HIDE DEF s
  <2>3. Ordered(roles, s)
    <3>1. \A i \in 1 .. Len(s) : s[i].kind = "create"
      BY <1>1, <2>2
    <3> HIDE DEF s
    <3> QED
      BY <3>1 DEF Ordered
  <2>4. e \in Elements(s)
    BY <2>2 DEF Elements
  <2> QED
    BY <2>1, <2>2, <2>3, <2>4 DEF e
<1> QED
  BY <1>2, <1>3

LEMMA LeftIs ==
    ASSUME NEW p \in Leaving
    PROVE  /\ Sync!Left(p) \in Seq(Todo)
           /\ \A i \in 1 .. Len(Sync!Left(p)) : Sync!Left(p)[i].kind = "remove"
           /\ p \notin realm \/ [kind |-> "remove", part |-> p] \in Elements(Sync!Left(p))
<1> DEFINE e == [kind |-> "remove", part |-> p]
<1>1. e \in Todo /\ e.kind = "remove"
  BY DEF Todo, RemoveRecords
<1> HIDE DEF e
<1>2. CASE p \notin realm
  <2>1. Sync!Left(p) = <<>>
    BY <1>2 DEF Sync!Left
  <2>2. <<>> \in Seq(Todo) /\ Len(<<>>) = 0
    OBVIOUS
  <2> QED
    BY <1>2, <2>1, <2>2
<1>3. CASE p \in realm
  <2> DEFINE s == <<e>>
  <2>1. Sync!Left(p) = s
    BY <1>3 DEF Sync!Left, e
  <2>2. s \in Seq(Todo) /\ Len(s) = 1 /\ s[1] = e
    BY <1>1
  <2> HIDE DEF s
  <2>3. \A i \in 1 .. Len(s) : s[i].kind = "remove"
    BY <1>1, <2>2
  <2>4. e \in Elements(s)
    BY <2>2 DEF Elements
  <2> QED
    BY <2>1, <2>2, <2>3, <2>4 DEF e
<1> QED
  BY <1>2, <1>3

\* A plan sees to everything, in an order that takes from nobody.
LEMMA PlanIs ==
    ASSUME IsFiniteSet(Members),
           roles \in [Members -> SUBSET (Sync!LEGACY_ROLES \cup Sync!FORMAL_ROLES)]
    PROVE  Sync!Plan \in Seq(Todo) /\ Ordered(roles, Sync!Plan) /\ Finishing(realm, roles, Sync!Plan)
<1> DEFINE c1 == Sync!Missing("role User")
           c2 == Sync!Missing("scope")
           c3 == Sync!Missing("client")
           c4 == Sync!Missing("grants")
           c5 == Sync!Missing("web scope")
           t == Sync!Migrations
           l1 == Sync!Left("role Analyst")
           l2 == Sync!Left("role Viewer")
           s2 == c1 \o c2
           s3 == s2 \o c3
           s4 == s3 \o c4
           s5 == s4 \o c5
           s6 == s5 \o t
           s7 == s6 \o l1
           s8 == s7 \o l2
           Made(p, s) == p \in realm \/ [kind |-> "create", part |-> p] \in Elements(s)
           Gone(p, s) == p \notin realm \/ [kind |-> "remove", part |-> p] \in Elements(s)
<1>1. Sync!Plan = s8
  BY DEF Sync!Plan
<1>2. /\ {c1, c2, c3, c4, c5} \subseteq Seq(Todo)
      /\ Ordered(roles, c1) /\ Ordered(roles, c2) /\ Ordered(roles, c3) /\ Ordered(roles, c4) /\ Ordered(roles, c5)
      /\ Made("role User", c1) /\ Made("scope", c2) /\ Made("client", c3)
      /\ Made("grants", c4) /\ Made("web scope", c5)
  BY MissingIs DEF Coming
<1>3. /\ l1 \in Seq(Todo) /\ l2 \in Seq(Todo)
      /\ \A i \in 1 .. Len(l1) : l1[i].kind = "remove"
      /\ \A i \in 1 .. Len(l2) : l2[i].kind = "remove"
      /\ Gone("role Analyst", l1) /\ Gone("role Viewer", l2)
  BY LeftIs DEF Leaving
<1>4. /\ t \in Seq(MigrateRecords)
      /\ \A i \in 1 .. Len(t) : t[i].kind = "migrate drop" =>
            \E j \in 1 .. i - 1 : t[j].kind = "migrate add" /\ t[j].user = t[i].user
      /\ \A m \in Sync!Legacy :
            \E i \in 1 .. Len(t) : t[i].kind = "migrate drop" /\ t[i].user = m
  BY MigrationsAre, Zenon DEF AddsThenDrops, MigrateRecords
<1> HIDE DEF c1, c2, c3, c4, c5, t, l1, l2
<1>5. t \in Seq(Todo)
  <2>1. Len(t) \in Nat /\ t \in [1 .. Len(t) -> MigrateRecords]
    BY <1>4, LenProperties
  <2>2. t \in [1 .. Len(t) -> Todo]
    BY <2>1 DEF Todo
  <2> QED
    BY <2>1, <2>2
<1>6. Ordered(roles, t)
  <2>1. \A i \in 1 .. Len(t) : t[i] \in MigrateRecords
    <3>1. t \in [1 .. Len(t) -> MigrateRecords]
      BY <1>4, LenProperties
    <3> QED
      BY <3>1
  <2>2. \A e \in MigrateRecords : e.kind # "remove"
    BY DEF MigrateRecords
  <2> QED
    BY <1>4, <2>1, <2>2 DEF Ordered, AddedBefore
<1>7. /\ s2 \in Seq(Todo) /\ Elements(s2) = Elements(c1) \cup Elements(c2) /\ Ordered(roles, s2)
  BY <1>2, ElementsJoin, OrderedJoin
<1> HIDE DEF s2
<1>8. /\ s3 \in Seq(Todo) /\ Elements(s3) = Elements(s2) \cup Elements(c3) /\ Ordered(roles, s3)
  BY <1>2, <1>7, ElementsJoin, OrderedJoin
<1> HIDE DEF s3
<1>9. /\ s4 \in Seq(Todo) /\ Elements(s4) = Elements(s3) \cup Elements(c4) /\ Ordered(roles, s4)
  BY <1>2, <1>8, ElementsJoin, OrderedJoin
<1> HIDE DEF s4
<1>10. /\ s5 \in Seq(Todo) /\ Elements(s5) = Elements(s4) \cup Elements(c5) /\ Ordered(roles, s5)
  BY <1>2, <1>9, ElementsJoin, OrderedJoin
<1> HIDE DEF s5
<1>11. /\ s6 \in Seq(Todo) /\ Elements(s6) = Elements(s5) \cup Elements(t) /\ Ordered(roles, s6)
  BY <1>5, <1>6, <1>10, ElementsJoin, OrderedJoin
<1> HIDE DEF s6
<1>12. \A m \in Members : Settled(roles, m) \/ AddedBefore(s6, Len(s6) + 1, m)
  <2>1. ASSUME NEW m \in Members, ~Settled(roles, m) PROVE AddedBefore(s6, Len(s6) + 1, m)
    <3>1. m \in Sync!Legacy
      BY <2>1 DEF Settled, Sync!Legacy
    <3>2. PICK i \in 1 .. Len(t) : t[i].kind = "migrate drop" /\ t[i].user = m
      BY <1>4, <3>1
    <3>3. PICK j \in 1 .. i - 1 : t[j].kind = "migrate add" /\ t[j].user = m
      BY <1>4, <3>2
    <3>4. Len(t) \in Nat
      BY <1>5, LenProperties
    <3>5. j \in 1 .. Len(t)
      BY <3>4
    <3>6. t[j] \in Elements(s6)
      BY <1>11, <3>5 DEF Elements
    <3> QED
      BY <1>11, <3>3, <3>6, AddedIn
  <2> QED
    BY <2>1
<1>13. /\ s7 \in Seq(Todo) /\ Elements(s7) = Elements(s6) \cup Elements(l1) /\ Ordered(roles, s7)
       /\ \A m \in Members : Settled(roles, m) \/ AddedBefore(s7, Len(s7) + 1, m)
  <2>1. s7 \in Seq(Todo) /\ Elements(s7) = Elements(s6) \cup Elements(l1)
    BY <1>3, <1>11, ElementsJoin
  <2>2. /\ Ordered(roles, s7)
        /\ \A m : AddedBefore(s6, Len(s6) + 1, m) => AddedBefore(s7, Len(s7) + 1, m)
    BY <1>3, <1>11, <1>12, OrderedJoin
  <2> QED
    BY <1>12, <2>1, <2>2
<1> HIDE DEF s7
<1>14. s8 \in Seq(Todo) /\ Elements(s8) = Elements(s7) \cup Elements(l2)
  BY <1>3, <1>13, ElementsJoin
<1>15. Ordered(roles, s8)
  BY <1>3, <1>13, OrderedJoin
<1> HIDE DEF s8
<1>16. Elements(s8) = Elements(c1) \cup Elements(c2) \cup Elements(c3) \cup Elements(c4)
                      \cup Elements(c5) \cup Elements(t) \cup Elements(l1) \cup Elements(l2)
  BY <1>7, <1>8, <1>9, <1>10, <1>11, <1>13, <1>14
<1>17. Finishing(realm, roles, s8)
  <2>1. \A p \in Coming : Made(p, s8)
    BY <1>2, <1>16 DEF Coming
  <2>2. \A p \in Leaving : Gone(p, s8)
    BY <1>3, <1>16 DEF Leaving
  <2>3. \A m \in Members : roles[m] \cap Sync!LEGACY_ROLES # {} =>
           \E e \in Elements(s8) : e.kind = "migrate drop" /\ e.user = m
    <3>1. \A i \in 1 .. Len(t) : t[i] \in Elements(s8)
      BY <1>16 DEF Elements
    <3> QED
      BY <1>4, <3>1 DEF Sync!Legacy
  <2> QED
    BY <2>1, <2>2, <2>3 DEF Finishing
<1> QED
  BY <1>1, <1>14, <1>15, <1>17

\* When nothing is left of a list that sees to everything, there is nothing to plan.
LEMMA NothingLeft ==
    ASSUME Finishing(realm, roles, <<>>), IsFiniteSet(Members)
    PROVE  Sync!Plan = <<>>
<1>1. Elements(<<>>) = {}
  BY DEF Elements
<1>2. /\ \A p \in Coming : p \in realm
      /\ \A p \in Leaving : p \notin realm
      /\ Sync!Legacy = {}
  BY <1>1 DEF Finishing, Sync!Legacy
<1>3. \A p \in Coming : Sync!Missing(p) = <<>>
  BY <1>2 DEF Sync!Missing
<1>4. \A p \in Leaving : Sync!Left(p) = <<>>
  BY <1>2 DEF Sync!Left
<1>5. Sync!Migrations = <<>>
  <2>1. Cardinality({}) = 0
    BY FS_EmptySet
  <2>2. IsFiniteSet({})
    BY FS_EmptySet
  <2>3. Sync!SetToSeq({}) \in [1 .. 0 -> {}]
    BY <2>1, <2>2, Enumerates
  <2>4. Len(Sync!SetToSeq({})) = 0
    BY <2>3
  <2>5. 3 * Len(Sync!SetToSeq({})) = 0
    BY <2>4
  <2>6. 3 * Len(Sync!SetToSeq(Sync!Legacy)) = 0
    BY <1>2, <2>5
  <2> DEFINE users == Sync!SetToSeq(Sync!Legacy)
             step(i) == [kind |-> Sync!Migrate[((i - 1) % 3) + 1],
                         user |-> users[((i - 1) \div 3) + 1],
                         role |-> Sync!TargetRole(users[((i - 1) \div 3) + 1])]
  <2>7. Sync!Migrations = [i \in 1 .. 3 * Len(users) |-> step(i)]
    BY DEF Sync!Migrations
  <2>8. 1 .. 3 * Len(users) = {}
    BY <2>6
  <2> HIDE DEF users, step
  <2>9. [i \in {} |-> step(i)] = <<>>
    OBVIOUS
  <2> QED
    BY <2>7, <2>8, <2>9
<1>6. <<>> \o <<>> = <<>>
  OBVIOUS
<1>7. /\ Sync!Missing("role User") = <<>> /\ Sync!Missing("scope") = <<>>
      /\ Sync!Missing("client") = <<>> /\ Sync!Missing("grants") = <<>>
      /\ Sync!Missing("web scope") = <<>>
  BY <1>3 DEF Coming
<1>8. Sync!Left("role Analyst") = <<>> /\ Sync!Left("role Viewer") = <<>>
  BY <1>4 DEF Leaving
<1> QED
  BY <1>5, <1>6, <1>7, <1>8, Zenon DEF Sync!Plan

KeepsRoles ==
    \A m \in Members : /\ roles[m] # {} => roles'[m] # {}
                       /\ "Admin" \in roles[m] => "Admin" \in roles'[m]

\* What a call does to a user's roles and to the realm.
LEMMA CallIs ==
    ASSUME NEW e \in Todo, NEW m \in Members, roles' = Sync!RolesAfter(e),
           roles \in [Members -> SUBSET (Sync!LEGACY_ROLES \cup Sync!FORMAL_ROLES)]
    PROVE  /\ roles' \in [Members -> SUBSET (Sync!LEGACY_ROLES \cup Sync!FORMAL_ROLES)]
           /\ roles'[m] \cap Sync!LEGACY_ROLES \subseteq roles[m]
           /\ roles[m] \cap Sync!FORMAL_ROLES \subseteq roles'[m]
           /\ roles[m] = {} => roles'[m] = {} \/ e.kind = "migrate add"
           /\ e.kind = "migrate add" /\ e.user = m =>
                 roles'[m] \cap Sync!FORMAL_ROLES # {} /\ roles[m] \subseteq roles'[m]
           /\ e.kind = "migrate drop" /\ e.user = m => roles'[m] \cap Sync!LEGACY_ROLES = {}
           /\ e.kind = "remove" \/ (e.kind = "migrate drop" /\ e.user = m)
              \/ roles[m] \subseteq roles'[m]
           /\ Settled(roles, m) => Settled(roles', m)
<1>1. /\ e.kind = "remove" => e \in RemoveRecords
      /\ e.kind \in {"migrate add", "migrate drop", "logout"} => e \in MigrateRecords
  BY TodoKinds
<1>2. e.kind = "migrate add" => e.role \in Sync!FORMAL_ROLES
  BY <1>1 DEF MigrateRecords
<1>3. Sync!LEGACY_ROLES = {"Analyst", "Viewer"} /\ Sync!FORMAL_ROLES = {"Admin", "User"}
  BY DEF Sync!LEGACY_ROLES, Sync!FORMAL_ROLES
<1>4. \A x \in Members : roles'[x] =
         IF e.kind = "migrate add" /\ e.user = x THEN roles[x] \cup {e.role}
         ELSE IF e.kind = "migrate drop" /\ e.user = x THEN roles[x] \ Sync!LEGACY_ROLES
         ELSE IF e.kind = "remove"
         THEN roles[x] \ {IF e.part = "role Analyst" THEN "Analyst" ELSE "Viewer"}
         ELSE roles[x]
  BY DEF Sync!RolesAfter
<1>5. /\ roles'[m] \cap Sync!LEGACY_ROLES \subseteq roles[m]
      /\ roles[m] \cap Sync!FORMAL_ROLES \subseteq roles'[m]
      /\ roles[m] = {} => roles'[m] = {} \/ e.kind = "migrate add"
      /\ e.kind = "migrate add" /\ e.user = m =>
            roles'[m] \cap Sync!FORMAL_ROLES # {} /\ roles[m] \subseteq roles'[m]
      /\ e.kind = "migrate drop" /\ e.user = m => roles'[m] \cap Sync!LEGACY_ROLES = {}
      /\ e.kind = "remove" \/ (e.kind = "migrate drop" /\ e.user = m)
         \/ roles[m] \subseteq roles'[m]
  <2>1. CASE e.kind = "migrate add" /\ e.user = m
    <3>1. roles'[m] = roles[m] \cup {e.role} /\ e.role \in Sync!FORMAL_ROLES
      BY <1>2, <1>4, <2>1
    <3> QED
      BY <1>3, <2>1, <3>1
  <2>2. CASE e.kind = "migrate drop" /\ e.user = m
    <3>1. roles'[m] = roles[m] \ Sync!LEGACY_ROLES
      BY <1>4, <2>2
    <3> QED
      BY <1>3, <2>2, <3>1
  <2>3. CASE e.kind = "remove"
    <3>1. \E x \in Sync!LEGACY_ROLES : roles'[m] = roles[m] \ {x}
      BY <1>3, <1>4, <2>3
    <3> QED
      BY <1>3, <2>3, <3>1
  <2>4. CASE /\ ~(e.kind = "migrate add" /\ e.user = m)
             /\ ~(e.kind = "migrate drop" /\ e.user = m) /\ e.kind # "remove"
    <3>1. roles'[m] = roles[m]
      BY <1>4, <2>4
    <3> QED
      BY <2>4, <3>1
  <2> QED
    BY <2>1, <2>2, <2>3, <2>4
<1>6. roles' \in [Members -> SUBSET (Sync!LEGACY_ROLES \cup Sync!FORMAL_ROLES)]
  <2>1. \A x \in Members : roles'[x] \subseteq Sync!LEGACY_ROLES \cup Sync!FORMAL_ROLES
    <3> SUFFICES ASSUME NEW x \in Members
                 PROVE  roles'[x] \subseteq Sync!LEGACY_ROLES \cup Sync!FORMAL_ROLES
      OBVIOUS
    <3>1. roles[x] \subseteq Sync!LEGACY_ROLES \cup Sync!FORMAL_ROLES
      OBVIOUS
    <3>2. CASE e.kind = "migrate add" /\ e.user = x
      <4>1. roles'[x] = roles[x] \cup {e.role}
        BY <1>4, <3>2
      <4> QED
        BY <1>2, <3>1, <3>2, <4>1
    <3>3. CASE ~(e.kind = "migrate add" /\ e.user = x)
      <4>1. roles'[x] \subseteq roles[x]
        BY <1>4, <3>3
      <4> QED
        BY <3>1, <4>1
    <3> QED
      BY <3>2, <3>3
  <2>2. DOMAIN roles' = Members /\ roles' = [x \in Members |-> roles'[x]]
    BY DEF Sync!RolesAfter
  <2> QED
    BY <2>1, <2>2
<1>7. Settled(roles, m) => Settled(roles', m)
  <2>1. roles[m] = {} => roles'[m] = {} \/ roles'[m] \cap Sync!FORMAL_ROLES # {}
    <3>1. e.kind = "migrate add" /\ e.user # m => roles'[m] = roles[m]
      BY <1>4
    <3> QED
      BY <1>5, <3>1
  <2> QED
    BY <1>5, <2>1 DEF Settled
<1> QED
  BY <1>5, <1>6, <1>7

\* Carrying out the first of a list leaves the rest in order, and is harmless.
LEMMA CallKeeps ==
    ASSUME NEW s \in Seq(Todo), s # <<>>, Ordered(roles, s), Finishing(realm, roles, s),
           roles \in [Members -> SUBSET (Sync!LEGACY_ROLES \cup Sync!FORMAL_ROLES)],
           realm \subseteq Sync!Parts,
           roles' = Sync!RolesAfter(Head(s)), realm' = Sync!RealmAfter(Head(s))
    PROVE  /\ Tail(s) \in Seq(Todo) /\ Ordered(roles', Tail(s)) /\ Finishing(realm', roles', Tail(s))
           /\ roles' \in [Members -> SUBSET (Sync!LEGACY_ROLES \cup Sync!FORMAL_ROLES)]
           /\ realm' \subseteq Sync!Parts
           /\ KeepsRoles
<1> DEFINE e == Head(s)
           t == Tail(s)
<1>1. /\ e \in Todo /\ t \in Seq(Todo) /\ Len(t) = Len(s) - 1
      /\ \A i \in 1 .. Len(t) : t[i] = s[i + 1]
      /\ e = s[1] /\ Len(s) \in Nat /\ Len(s) >= 1
      /\ s \in [1 .. Len(s) -> Todo]
  <2>1. Head(s) = s[1]
    OBVIOUS
  <2>2. Len(s) \in Nat \ {0}
    BY EmptySeq
  <2> QED
    BY <2>1, <2>2, HeadTailProperties, LenProperties
<1>2. roles' = Sync!RolesAfter(e) /\ realm' = Sync!RealmAfter(e)
  OBVIOUS
<1> HIDE DEF e, t
<1>3. /\ e.kind = "create" => e \in CreateRecords
      /\ e.kind = "remove" => e \in RemoveRecords
  BY <1>1, TodoKinds
<1>4. roles' \in [Members -> SUBSET (Sync!LEGACY_ROLES \cup Sync!FORMAL_ROLES)]
  <2>1. CASE Members = {}
    <3>1. DOMAIN roles' = Members /\ roles' = [x \in Members |-> roles'[x]]
      BY <1>2 DEF Sync!RolesAfter
    <3> QED
      BY <2>1, <3>1
  <2>2. CASE Members # {}
    BY <1>1, <1>2, <2>2, CallIs
  <2> QED
    BY <2>1, <2>2
<1>5. /\ realm' \subseteq Sync!Parts
      /\ \A p \in Coming : p \in realm \/ e = [kind |-> "create", part |-> p] => p \in realm'
      /\ \A p \in Leaving : p \notin realm \/ e = [kind |-> "remove", part |-> p] => p \notin realm'
  <2>1. /\ e.kind = "create" => realm' = realm \cup {e.part} /\ e.part \in Coming
        /\ e.kind = "remove" => realm' = realm \ {e.part} /\ e.part \in Leaving
        /\ e.kind \notin {"create", "remove"} => realm' = realm
    BY <1>2, <1>3 DEF Sync!RealmAfter, CreateRecords, RemoveRecords
  <2>2. Coming \subseteq Sync!Parts /\ Coming \cap Leaving = {}
    BY DEF Coming, Leaving, Sync!Parts
  <2> QED
    BY <2>1, <2>2
<1>6. \A x \in Elements(s) : x = e \/ x \in Elements(t)
  <2>1. ASSUME NEW i \in 1 .. Len(s) PROVE s[i] = e \/ s[i] \in Elements(t)
    <3>1. CASE i = 1
      BY <1>1, <3>1
    <3>2. CASE i # 1
      <4>1. i - 1 \in 1 .. Len(t) /\ (i - 1) + 1 = i
        BY <1>1, <3>2
      <4>2. t[i - 1] = s[i]
        BY <1>1, <4>1
      <4> QED
        BY <4>1, <4>2 DEF Elements
    <3> QED
      BY <3>1, <3>2
  <2> QED
    BY <2>1 DEF Elements
<1>7. \A m \in Members : Settled(roles, m) => Settled(roles', m)
  BY <1>1, <1>2, CallIs
<1>8. ASSUME NEW i \in 1 .. Len(t), NEW m \in Members, AddedBefore(s, i + 1, m)
      PROVE  Settled(roles', m) \/ AddedBefore(t, i, m)
  <2>1. PICK j \in 1 .. (i + 1) - 1 : s[j].kind = "migrate add" /\ s[j].user = m
    BY <1>8 DEF AddedBefore
  <2>2. CASE j = 1
    <3>1. e.kind = "migrate add" /\ e.user = m
      BY <1>1, <2>1, <2>2
    <3>2. roles'[m] \cap Sync!FORMAL_ROLES # {}
      BY <1>1, <1>2, <3>1, CallIs
    <3> QED
      BY <3>2 DEF Settled
  <2>3. CASE j # 1
    <3>1. j - 1 \in 1 .. i - 1 /\ j - 1 \in 1 .. Len(t) /\ (j - 1) + 1 = j
      BY <1>1, <2>3
    <3>2. t[j - 1] = s[j]
      BY <1>1, <3>1
    <3> QED
      BY <2>1, <3>1, <3>2 DEF AddedBefore
  <2> QED
    BY <2>2, <2>3
<1>9. ASSUME NEW i \in 1 .. Len(t)
      PROVE  /\ t[i].kind = "migrate drop" => Settled(roles', t[i].user) \/ AddedBefore(t, i, t[i].user)
             /\ t[i].kind = "remove" => \A m \in Members : Settled(roles', m) \/ AddedBefore(t, i, m)
  <2>1. i + 1 \in 1 .. Len(s) /\ t[i] = s[i + 1]
    BY <1>1
  <2>2. /\ t[i].kind = "migrate drop" => Settled(roles, t[i].user) \/ AddedBefore(s, i + 1, t[i].user)
        /\ t[i].kind = "remove" => \A m \in Members : Settled(roles, m) \/ AddedBefore(s, i + 1, m)
    BY <2>1 DEF Ordered
  <2>3. t[i].kind = "migrate drop" => t[i].user \in Members
    <3>1. t[i] \in Todo
      BY <1>1, <2>1
    <3> QED
      BY <3>1, TodoKinds DEF MigrateRecords
  <2> QED
    BY <1>7, <1>8, <2>2, <2>3
<1>10. Ordered(roles', t)
  BY <1>9 DEF Ordered
<1>11. Finishing(realm', roles', t)
  <2>1. \A p \in Coming : p \in realm' \/ [kind |-> "create", part |-> p] \in Elements(t)
    BY <1>5, <1>6 DEF Finishing
  <2>2. \A p \in Leaving : p \notin realm' \/ [kind |-> "remove", part |-> p] \in Elements(t)
    BY <1>5, <1>6 DEF Finishing
  <2>3. ASSUME NEW m \in Members, roles'[m] \cap Sync!LEGACY_ROLES # {}
        PROVE  \E x \in Elements(t) : x.kind = "migrate drop" /\ x.user = m
    <3>1. /\ roles'[m] \cap Sync!LEGACY_ROLES \subseteq roles[m]
          /\ ~(e.kind = "migrate drop" /\ e.user = m)
      BY <1>1, <1>2, <2>3, CallIs
    <3>2. roles[m] \cap Sync!LEGACY_ROLES # {}
      BY <2>3, <3>1
    <3>3. PICK x \in Elements(s) : x.kind = "migrate drop" /\ x.user = m
      BY <3>2 DEF Finishing
    <3> QED
      BY <1>6, <3>1, <3>3
  <2> QED
    BY <2>1, <2>2, <2>3 DEF Finishing
<1>12. KeepsRoles
  <2> SUFFICES ASSUME NEW m \in Members
               PROVE  /\ roles[m] # {} => roles'[m] # {}
                      /\ "Admin" \in roles[m] => "Admin" \in roles'[m]
    BY DEF KeepsRoles
  <2>1. "Admin" \in roles[m] => "Admin" \in roles'[m]
    <3>1. roles[m] \cap Sync!FORMAL_ROLES \subseteq roles'[m]
      BY <1>1, <1>2, CallIs
    <3>2. "Admin" \in Sync!FORMAL_ROLES
      BY DEF Sync!FORMAL_ROLES
    <3> QED
      BY <3>1, <3>2
  <2>2. ASSUME roles[m] # {} PROVE roles'[m] # {}
    <3>1. CASE Settled(roles, m)
      <4>1. roles[m] \cap Sync!FORMAL_ROLES \subseteq roles'[m]
        BY <1>1, <1>2, CallIs
      <4> QED
        BY <2>2, <3>1, <4>1 DEF Settled
    <3>2. CASE ~Settled(roles, m)
      <4>1. 1 \in 1 .. Len(s) /\ ~AddedBefore(s, 1, m)
        BY <1>1 DEF AddedBefore
      <4>2. ~(e.kind = "remove") /\ ~(e.kind = "migrate drop" /\ e.user = m)
        BY <1>1, <3>2, <4>1 DEF Ordered
      <4>3. roles[m] \subseteq roles'[m]
        BY <1>1, <1>2, <4>2, CallIs
      <4> QED
        BY <2>2, <4>3
    <3> QED
      BY <3>1, <3>2
  <2> QED
    BY <2>1, <2>2
<1> QED
  BY <1>1, <1>4, <1>5, <1>10, <1>11, <1>12 DEF e, t

LEMMA SyncInit == Sync!Init => SyncInv
<1> SUFFICES ASSUME Sync!Init PROVE SyncInv
  OBVIOUS
<1>1. realm \subseteq Sync!Parts
  BY DEF Sync!Init, Sync!Parts
<1>2. roles \in [Members -> SUBSET (Sync!LEGACY_ROLES \cup Sync!FORMAL_ROLES)]
  <2>1. roles \in [Members -> SUBSET (Sync!LEGACY_ROLES \cup {"Admin"})]
    BY DEF Sync!Init
  <2> QED
    BY <2>1 DEF Sync!FORMAL_ROLES
<1>3. mirror \in [Members -> Sync!FORMAL_ROLES \cup {"none"}]
  BY DEF Sync!Init
<1>4. /\ script \in [pc : {"stopped", "applying", "converged"}, todo : Seq(Todo)]
      /\ script.pc = "stopped"
  <2>1. <<>> \in Seq(Todo)
    OBVIOUS
  <2> QED
    BY <2>1 DEF Sync!Init
<1> QED
  BY <1>1, <1>2, <1>3, <1>4 DEF SyncInv

\* What the formal role of a user is in the rows.
LEMMA FormalRoleIs ==
    ASSUME NEW m \in Members, mirror \in [Members -> Sync!FORMAL_ROLES \cup {"none"}]
    PROVE  Sync!FormalRole(m) \in Sync!FORMAL_ROLES \cup {"none"}
<1>1. CASE Sync!Cardinality(roles[m] \cap Sync!FORMAL_ROLES) = 1
  <2>1. Sync!Cardinality({}) = 0
    BY FS_EmptySet, Zenon DEF Sync!Cardinality, Cardinality
  <2>2. roles[m] \cap Sync!FORMAL_ROLES # {}
    BY <1>1, <2>1
  <2>3. (CHOOSE r \in roles[m] : r \in Sync!FORMAL_ROLES) \in Sync!FORMAL_ROLES
    BY <2>2
  <2> QED
    BY <1>1, <2>3 DEF Sync!FormalRole
<1>2. CASE Sync!Cardinality(roles[m] \cap Sync!FORMAL_ROLES) # 1
  BY <1>2 DEF Sync!FormalRole
<1> QED
  BY <1>1, <1>2

LEMMA SynchronisationStep ==
    ASSUME IsFiniteSet(Members), SyncInv, [Sync!Next]_sync
    PROVE  SyncInv' /\ (UNCHANGED sync \/ KeepsRoles)
<1> USE DEF SyncInv
<1>1. CASE Sync!Start
  <2>1. script' = [pc |-> "applying", todo |-> Sync!Plan] /\ UNCHANGED <<realm, roles, mirror>>
    BY <1>1 DEF Sync!Start
  <2>2. Sync!Plan \in Seq(Todo) /\ Ordered(roles, Sync!Plan) /\ Finishing(realm, roles, Sync!Plan)
    BY PlanIs
  <2>3. /\ script' \in [pc : {"stopped", "applying", "converged"}, todo : Seq(Todo)]
        /\ script'.todo = Sync!Plan
    BY <2>1, <2>2
  <2>4. Ordered(roles', script'.todo) /\ Finishing(realm', roles', script'.todo)
    BY <2>1, <2>2, <2>3
  <2> QED
    BY <2>1, <2>3, <2>4 DEF KeepsRoles
<1>2. CASE Sync!Apply
  <2>1. /\ script.pc = "applying" /\ script.todo # <<>> /\ script.todo \in Seq(Todo)
        /\ roles' = Sync!RolesAfter(Head(script.todo))
        /\ realm' = Sync!RealmAfter(Head(script.todo))
        /\ script' = [script EXCEPT !.todo = Tail(@)] /\ mirror' = mirror
    BY <1>2 DEF Sync!Apply
  <2>2. /\ Tail(script.todo) \in Seq(Todo)
        /\ Ordered(roles', Tail(script.todo)) /\ Finishing(realm', roles', Tail(script.todo))
        /\ roles' \in [Members -> SUBSET (Sync!LEGACY_ROLES \cup Sync!FORMAL_ROLES)]
        /\ realm' \subseteq Sync!Parts
        /\ KeepsRoles
    BY <2>1, CallKeeps
  <2>3. /\ script' \in [pc : {"stopped", "applying", "converged"}, todo : Seq(Todo)]
        /\ script'.todo = Tail(script.todo)
    BY <2>1, <2>2
  <2> QED
    BY <2>1, <2>2, <2>3
<1>3. CASE Sync!Converge
  <2>1. /\ mirror' = [m \in Members |-> Sync!FormalRole(m)] /\ UNCHANGED <<realm, roles>>
        /\ script' = [script EXCEPT !.pc = "converged"]
    BY <1>3 DEF Sync!Converge
  <2>2. mirror' \in [Members -> Sync!FORMAL_ROLES \cup {"none"}]
    BY <2>1, FormalRoleIs
  <2>3. /\ script' \in [pc : {"stopped", "applying", "converged"}, todo : Seq(Todo)]
        /\ script'.pc = "converged"
    BY <2>1
  <2> QED
    BY <2>1, <2>2, <2>3 DEF KeepsRoles
<1>4. CASE Sync!Interrupt
  <2>1. script' = [pc |-> "stopped", todo |-> <<>>] /\ UNCHANGED <<realm, roles, mirror>>
    BY <1>4 DEF Sync!Interrupt
  <2>2. /\ script' \in [pc : {"stopped", "applying", "converged"}, todo : Seq(Todo)]
        /\ script'.pc = "stopped"
    BY <2>1
  <2> QED
    BY <2>1, <2>2 DEF KeepsRoles
<1>5. CASE UNCHANGED sync
  BY <1>5 DEF sync
<1> QED
  BY <1>1, <1>2, <1>3, <1>4, <1>5 DEF Sync!Next

LEMMA SyncConverges ==
    ASSUME IsFiniteSet(Members), SyncInv
    PROVE  Sync!OneRunConverges
<1> SUFFICES ASSUME script.pc = "applying", script.todo = <<>>
             PROVE  Sync!Plan = <<>>
  BY DEF Sync!OneRunConverges
<1>1. Finishing(realm, roles, <<>>)
  BY DEF SyncInv
<1> QED
  BY <1>1, NothingLeft

LEMMA SyncTyped == SyncInv => Sync!TypeOK
<1>1. Todo \subseteq Sync!Actions
  BY DEF Todo, CreateRecords, RemoveRecords, MigrateRecords, Coming, Leaving, Sync!Actions, Sync!Parts
<1>2. Seq(Todo) \subseteq Seq(Sync!Actions)
  <2>1. ASSUME NEW s \in Seq(Todo) PROVE s \in Seq(Sync!Actions)
    <3>1. Len(s) \in Nat /\ s \in [1 .. Len(s) -> Todo]
      BY LenProperties
    <3>2. s \in [1 .. Len(s) -> Sync!Actions]
      BY <1>1, <3>1
    <3> QED
      BY <3>1, <3>2
  <2> QED
    BY <2>1
<1> QED
  BY <1>2 DEF SyncInv, Sync!TypeOK

-----------------------------------------------------------------------------
(* Submission by the scripts *)

ScriptsAssumption ==
    /\ LastDate \in Nat \ {0} /\ MaxStops \in Nat /\ MaxBreaks \in Nat
    /\ Symbols # {}
    /\ None \notin Sequential!Statuses

Served == {"find", "create", "found", "error"}

\* A request is always for a key, one whose batch it has found exists, and a key
\* has a run when it has its one batch.
SubmissionInv ==
    /\ run \in [Keys -> Sequential!Statuses]
    /\ batches \in [Keys -> {0, 1}]
    /\ post \in [Posts -> [pc : {"free"} \cup Served, key : Keys \cup {None}]]
    /\ \A k \in Keys : run[k] = "absent" <=> batches[k] = 0
    /\ \A p \in Posts : post[p].pc # "free" => post[p].key \in Keys
    /\ \A p \in Posts : post[p].pc = "found" => run[post[p].key] # "absent"

\* Both scripts submit in the same way.
LEMMA SameSubmission ==
    /\ Audit!SubmissionNext <=> Sequential!SubmissionNext
    /\ Audit!SubmissionInit <=> Sequential!SubmissionInit
    /\ \A p : /\ Audit!Frees(p) <=> Sequential!Frees(p)
              /\ Audit!Over(p) <=> Sequential!Over(p)
              /\ \A k : Audit!Begins(p, k) <=> Sequential!Begins(p, k)
    /\ Audit!Statuses = Sequential!Statuses
    /\ Audit!FAILURE_STATUSES = Sequential!FAILURE_STATUSES
    /\ Audit!submissionVars = submission /\ Sequential!submissionVars = submission
<1>1. /\ Audit!Statuses = Sequential!Statuses
      /\ Audit!FAILURE_STATUSES = Sequential!FAILURE_STATUSES
      /\ Audit!submissionVars = submission /\ Sequential!submissionVars = submission
  BY DEF Audit!Statuses, Sequential!Statuses, Audit!FAILURE_STATUSES,
         Sequential!FAILURE_STATUSES, Audit!submissionVars, Sequential!submissionVars, submission
<1>2. \A p : /\ Audit!Frees(p) <=> Sequential!Frees(p)
             /\ Audit!Over(p) <=> Sequential!Over(p)
             /\ \A k : Audit!Begins(p, k) <=> Sequential!Begins(p, k)
  BY Zenon DEF Audit!Frees, Sequential!Frees, Audit!Over, Sequential!Over,
               Audit!Begins, Sequential!Begins
<1>3. Audit!SubmissionInit <=> Sequential!SubmissionInit
  BY Zenon DEF Audit!SubmissionInit, Sequential!SubmissionInit
<1>4. \A p : /\ Audit!Serve(p) <=> Sequential!Serve(p)
             /\ Audit!SubmitFails(p) <=> Sequential!SubmitFails(p)
  BY Zenon DEF Audit!Serve, Sequential!Serve, Audit!SubmitFails, Sequential!SubmitFails,
     Audit!FindBatch, Sequential!FindBatch, Audit!Create, Sequential!Create,
     Audit!InsertBatch, Sequential!InsertBatch, Audit!At, Sequential!At
<1>5. Audit!Allowed = Sequential!Allowed
  BY <1>1, Zenon DEF Audit!Allowed, Sequential!Allowed
<1>6. \A k : Audit!RunMoves(k) <=> Sequential!RunMoves(k)
  BY <1>1, <1>5, Zenon DEF Audit!RunMoves, Sequential!RunMoves
<1> QED
  BY <1>1, <1>2, <1>3, <1>4, <1>6, Zenon DEF Audit!SubmissionNext, Sequential!SubmissionNext

\* What a step leaves as it is: a run that has succeeded, a run that is there, what
\* a request is about; and a run only comes of a request for it.
SubmissionKeeps ==
    /\ \A k \in Keys : /\ run[k] = "succeeded" => run'[k] = "succeeded"
                       /\ run[k] # "absent" => run'[k] # "absent"
                       /\ run'[k] # "absent" => \/ run[k] # "absent"
                                                \/ \E p \in Posts : post[p].pc # "free"
                                                                    /\ post[p].key = k

LEMMA SubmissionStarts ==
    ASSUME Sequential!SubmissionInit
    PROVE  /\ SubmissionInv
           /\ \A k \in Keys : run[k] = "absent"
           /\ \A p \in Posts : post[p].pc = "free"
BY DEF Sequential!SubmissionInit, SubmissionInv, Sequential!Statuses, Served

LEMMA PostMoves ==
    ASSUME SubmissionInv, NEW p \in Posts, NEW status, NEW key,
           post' = [post EXCEPT ![p] = [pc |-> status, key |-> key]],
           status \in {"free"} \cup Served, key \in Keys \cup {None},
           run' \in [Keys -> Sequential!Statuses], batches' \in [Keys -> {0, 1}],
           \A k \in Keys : run'[k] = "absent" <=> batches'[k] = 0,
           \A k \in Keys : run[k] # "absent" => run'[k] # "absent",
           status # "free" => key \in Keys,
           status = "found" => run'[key] # "absent"
    PROVE  SubmissionInv'
<1>1. [pc |-> status, key |-> key] \in [pc : {"free"} \cup Served, key : Keys \cup {None}]
  OBVIOUS
<1>2. post' \in [Posts -> [pc : {"free"} \cup Served, key : Keys \cup {None}]]
  BY <1>1 DEF SubmissionInv
<1>3. \A q \in Posts : post'[q] = IF q = p THEN [pc |-> status, key |-> key] ELSE post[q]
  BY DEF SubmissionInv
<1>4. \A q \in Posts : /\ post'[q].pc # "free" => post'[q].key \in Keys
                       /\ post'[q].pc = "found" => run'[post'[q].key] # "absent"
  <2> SUFFICES ASSUME NEW q \in Posts
               PROVE  /\ post'[q].pc # "free" => post'[q].key \in Keys
                      /\ post'[q].pc = "found" => run'[post'[q].key] # "absent"
    OBVIOUS
  <2>1. CASE q = p
    BY <1>3, <2>1
  <2>2. CASE q # p
    <3>1. post'[q] = post[q]
      BY <1>3, <2>2
    <3>2. post[q].pc # "free" => post[q].key \in Keys
      BY DEF SubmissionInv
    <3>3. post[q].pc = "found" => run[post[q].key] # "absent"
      BY DEF SubmissionInv
    <3> QED
      BY <3>1, <3>2, <3>3
  <2> QED
    BY <2>1, <2>2
<1> QED
  BY <1>2, <1>4 DEF SubmissionInv

LEMMA SubmissionBegins ==
    ASSUME SubmissionInv, NEW p \in Posts, NEW k \in Keys, Sequential!Begins(p, k),
           UNCHANGED <<run, batches>>
    PROVE  /\ SubmissionInv' /\ SubmissionKeeps
           /\ \A q \in Posts : post'[q].pc # "free" => \/ post[q].pc # "free" /\ post'[q].key = post[q].key
                                                      \/ post'[q].key = k
<1>1. post' = [post EXCEPT ![p] = [pc |-> "find", key |-> k]]
  BY DEF Sequential!Begins
<1>2. SubmissionInv'
  BY <1>1, PostMoves DEF Served, SubmissionInv
<1>3. \A q \in Posts : q # p => post'[q] = post[q]
  BY <1>1 DEF SubmissionInv
<1>4. post'[p].key = k
  BY <1>1 DEF SubmissionInv
<1> QED
  BY <1>2, <1>3, <1>4 DEF SubmissionKeeps

LEMMA SubmissionFrees ==
    ASSUME SubmissionInv, NEW p \in Posts, Sequential!Frees(p), UNCHANGED <<run, batches>>
    PROVE  /\ SubmissionInv' /\ SubmissionKeeps
           /\ \A q \in Posts : post'[q].pc # "free" => post[q].pc # "free" /\ post'[q].key = post[q].key
<1>1. post' = [post EXCEPT ![p] = [pc |-> "free", key |-> None]]
  BY DEF Sequential!Frees
<1>2. SubmissionInv'
  BY <1>1, PostMoves DEF Served, SubmissionInv
<1>3. \A q \in Posts : q # p => post'[q] = post[q]
  BY <1>1 DEF SubmissionInv
<1>4. post'[p].pc = "free"
  BY <1>1 DEF SubmissionInv
<1> QED
  BY <1>2, <1>3, <1>4 DEF SubmissionKeeps

LEMMA SubmissionServes ==
    ASSUME SubmissionInv, Sequential!SubmissionNext
    PROVE  /\ SubmissionInv' /\ SubmissionKeeps
           /\ \A q \in Posts : post'[q].pc # "free" => post[q].pc # "free" /\ post'[q].key = post[q].key
<1>1. ASSUME NEW p \in Posts, Sequential!Serve(p) \/ Sequential!SubmitFails(p)
      PROVE  /\ SubmissionInv' /\ SubmissionKeeps
             /\ \A q \in Posts : post'[q].pc # "free" =>
                   post[q].pc # "free" /\ post'[q].key = post[q].key
  <2> DEFINE key == post[p].key
  <2>1. /\ post[p].pc \in {"find", "create"} /\ key \in Keys
        /\ post[p] = [pc |-> post[p].pc, key |-> key]
    BY <1>1 DEF Sequential!Serve, Sequential!SubmitFails, Sequential!FindBatch, Sequential!Create,
                SubmissionInv
  <2>2. \E status \in {"create", "found", "error"} :
           /\ Sequential!At(p, status)
           /\ \/ /\ UNCHANGED <<run, batches>>
                 /\ status = "found" => batches[key] # 0
              \/ /\ batches[key] = 0 /\ status = "found"
                 /\ batches' = [batches EXCEPT ![key] = @ + 1]
                 /\ run' = [run EXCEPT ![key] = "queued"]
    <3>1. CASE Sequential!FindBatch(p)
      <4>1. CASE batches[key] > 0
        <5>1. batches[key] # 0
          BY <2>1, <4>1 DEF SubmissionInv
        <5>2. Sequential!At(p, "found") /\ UNCHANGED <<run, batches>>
          BY <3>1, <4>1 DEF Sequential!FindBatch
        <5> QED
          BY <5>1, <5>2
      <4>2. CASE ~(batches[key] > 0)
        <5>1. Sequential!At(p, "create") /\ UNCHANGED <<run, batches>>
          BY <3>1, <4>2 DEF Sequential!FindBatch
        <5> QED
          BY <5>1
      <4> QED
        BY <4>1, <4>2
    <3>2. CASE Sequential!Create(p)
      <4>1. CASE batches[key] = 0
        <5>1. /\ Sequential!At(p, "found")
              /\ batches' = [batches EXCEPT ![key] = @ + 1]
              /\ run' = [run EXCEPT ![key] = "queued"]
          BY <3>2, <4>1 DEF Sequential!Create, Sequential!InsertBatch
        <5> QED
          BY <4>1, <5>1
      <4>2. CASE batches[key] # 0
        <5>1. /\ Sequential!At(p, IF Snapshots THEN "error" ELSE "found")
              /\ UNCHANGED <<run, batches>>
          BY <3>2, <4>2 DEF Sequential!Create
        <5> QED
          BY <4>2, <5>1
      <4> QED
        BY <4>1, <4>2
    <3>3. CASE Sequential!SubmitFails(p)
      BY <3>3 DEF Sequential!SubmitFails
    <3> QED
      BY <1>1, <3>1, <3>2, <3>3 DEF Sequential!Serve
  <2>3. PICK status \in {"create", "found", "error"} :
           /\ Sequential!At(p, status)
           /\ \/ /\ UNCHANGED <<run, batches>>
                 /\ status = "found" => batches[key] # 0
              \/ /\ batches[key] = 0 /\ status = "found"
                 /\ batches' = [batches EXCEPT ![key] = @ + 1]
                 /\ run' = [run EXCEPT ![key] = "queued"]
    BY <2>2
  <2> HIDE DEF key
  <2>4. post' = [post EXCEPT ![p] = [pc |-> status, key |-> key]]
    <3>1. post' = [post EXCEPT ![p].pc = status]
      BY <2>3 DEF Sequential!At
    <3>2. [post[p] EXCEPT !.pc = status] = [pc |-> status, key |-> key]
      BY <2>1
    <3> QED
      BY <3>1, <3>2
  <2>5. /\ run' \in [Keys -> Sequential!Statuses] /\ batches' \in [Keys -> {0, 1}]
        /\ \A k \in Keys : run'[k] = "absent" <=> batches'[k] = 0
        /\ \A k \in Keys : /\ run[k] # "absent" => run'[k] = run[k]
                           /\ run'[k] # "absent" => run[k] # "absent" \/ k = key
        /\ status = "found" => run'[key] # "absent"
    <3>1. CASE UNCHANGED <<run, batches>> /\ (status = "found" => batches[key] # 0)
      BY <2>1, <3>1 DEF SubmissionInv
    <3>2. CASE /\ batches[key] = 0 /\ status = "found"
               /\ batches' = [batches EXCEPT ![key] = @ + 1]
               /\ run' = [run EXCEPT ![key] = "queued"]
      <4>1. batches' = [batches EXCEPT ![key] = 1]
        BY <3>2
      <4> QED
        BY <2>1, <3>2, <4>1 DEF SubmissionInv, Sequential!Statuses
    <3> QED
      BY <2>3, <3>1, <3>2
  <2>6. SubmissionInv'
    BY <2>1, <2>4, <2>5, PostMoves DEF Served
  <2>7. \A q \in Posts : q # p => post'[q] = post[q]
    BY <2>4 DEF SubmissionInv
  <2>8. post'[p].key = key /\ post[p].key = key
    BY <2>4 DEF SubmissionInv, key
  <2> QED
    BY <2>1, <2>5, <2>6, <2>7, <2>8 DEF SubmissionKeeps
<1>2. ASSUME NEW k \in Keys, Sequential!RunMoves(k)
      PROVE  /\ SubmissionInv' /\ SubmissionKeeps
             /\ \A q \in Posts : post'[q].pc # "free" =>
                   post[q].pc # "free" /\ post'[q].key = post[q].key
  <2>1. PICK s \in Sequential!Statuses : /\ <<run[k], s>> \in Sequential!Allowed
                                         /\ run' = [run EXCEPT ![k] = s]
                                         /\ UNCHANGED <<batches, post>>
    BY <1>2 DEF Sequential!RunMoves
  <2>2. run[k] \in {"queued", "running", "needs_attention"} /\ s # "absent"
    BY <2>1 DEF Sequential!Allowed, Sequential!FAILURE_STATUSES
  <2>3. /\ run' \in [Keys -> Sequential!Statuses]
        /\ \A x \in Keys : x # k => run'[x] = run[x]
        /\ run'[k] = s
    BY <2>1 DEF SubmissionInv
  <2>4. \A x \in Keys : /\ run[x] = "succeeded" => run'[x] = "succeeded"
                        /\ run[x] # "absent" <=> run'[x] # "absent"
    BY <2>2, <2>3
  <2> QED
    BY <2>1, <2>3, <2>4 DEF SubmissionInv, SubmissionKeeps
<1> QED
  BY <1>1, <1>2 DEF Sequential!SubmissionNext

-----------------------------------------------------------------------------
(* The sequential batch *)

\* Every earlier date of the symbol has succeeded.
InTurn(k) == \A e \in 1 .. k[2] - 1 : run[<<k[1], e>>] = "succeeded"

SequentialTypes ==
    /\ track \in [Symbols -> Sequential!Track]
    /\ batch \in [pc : {"off", "on", "done"}, waits : Posts \cup {None}]
    /\ stops \in 0 .. MaxStops

\* A record of a success is true, and there is a run to a record.
RecordsAreTrue ==
    \A s \in Symbols, d \in 1 .. LastDate :
       /\ track[s].records[d] = "succeeded" => run[<<s, d>>] = "succeeded"
       /\ track[s].records[d] # None => run[<<s, d>>] # "absent"

TracksAreSeries ==
    \A s \in Symbols : track[s].status = "completed" =>
       \A d \in 1 .. LastDate : track[s].records[d] = "succeeded"

SequentialInv ==
    /\ SubmissionInv /\ SequentialTypes
    /\ focus = "sequential" =>
          /\ \A p \in Posts : post[p].pc # "free" => InTurn(post[p].key)
          /\ \A k \in Keys : run[k] # "absent" => InTurn(k)
          /\ RecordsAreTrue
          /\ TracksAreSeries

LEMMA KeysAre ==
    /\ \A s \in Symbols, d \in 1 .. LastDate : /\ <<s, d>> \in Keys
                                               /\ <<s, d>>[1] = s /\ <<s, d>>[2] = d
    /\ \A k \in Keys : /\ k[1] \in Symbols /\ k[2] \in 1 .. LastDate
                       /\ k = <<k[1], k[2]>>
BY DEF Keys

\* The date a symbol is at is the first that has not succeeded.
LEMMA CurrentDateIs ==
    ASSUME LastDate \in Nat, NEW s \in Symbols, Sequential!Unfinished(s) # {}
    PROVE  /\ Sequential!CurrentDate(s) \in 1 .. LastDate
           /\ track[s].records[Sequential!CurrentDate(s)] # "succeeded"
           /\ \A e \in 1 .. Sequential!CurrentDate(s) - 1 : track[s].records[e] = "succeeded"
<1> DEFINE U == Sequential!Unfinished(s)
           d == Sequential!CurrentDate(s)
<1>1. U = {x \in 1 .. LastDate : track[s].records[x] # "succeeded"}
  BY DEF Sequential!Unfinished, Sequential!AnalysisDates
<1>2. d = CHOOSE x \in U : \A e \in U : x <= e
  BY DEF Sequential!CurrentDate
<1>3. U \subseteq Nat /\ U # {}
  BY <1>1
<1>4. \E x \in U : \A e \in U : x <= e
  <2> HIDE DEF U
  <2> QED
    BY <1>3, L!LeastOf
<1> HIDE DEF d
<1>5. d \in U /\ \A e \in U : d <= e
  <2> HIDE DEF U
  <2> QED
    BY <1>2, <1>4
<1>6. \A e \in 1 .. d - 1 : e \notin U /\ e \in 1 .. LastDate
  BY <1>1, <1>5
<1> QED
  BY <1>1, <1>5, <1>6 DEF d

LEMMA SequentialStarts ==
    ASSUME ScriptsAssumption, Sequential!Init
    PROVE  SequentialInv
<1>1. Sequential!SubmissionInit
  BY DEF Sequential!Init
<1>2. /\ SubmissionInv
      /\ \A k \in Keys : run[k] = "absent"
      /\ \A p \in Posts : post[p].pc = "free"
  BY <1>1, SubmissionStarts
<1>3. \A s \in Symbols : track[s] = [status |-> "pending", records |-> [d \in 1 .. LastDate |-> None]]
  BY DEF Sequential!Init, Sequential!AnalysisDates
<1>4. SequentialTypes
  <2>1. [status |-> "pending", records |-> [d \in 1 .. LastDate |-> None]] \in Sequential!Track
    BY DEF Sequential!Track, Sequential!AnalysisDates
  <2>2. track = [s \in Symbols |-> [status |-> "pending", records |-> [d \in 1 .. LastDate |-> None]]]
    BY DEF Sequential!Init, Sequential!AnalysisDates
  <2> QED
    BY <2>1, <2>2 DEF Sequential!Init, SequentialTypes, ScriptsAssumption
<1>5. RecordsAreTrue /\ TracksAreSeries
  <2>1. None # "succeeded"
    BY DEF ScriptsAssumption, Sequential!Statuses
  <2>2. \A s \in Symbols : /\ track[s].status = "pending"
                          /\ \A d \in 1 .. LastDate : track[s].records[d] = None
    <3> DEFINE none == [d \in 1 .. LastDate |-> None]
               fresh == [status |-> "pending", records |-> none]
    <3>1. \A d \in 1 .. LastDate : none[d] = None
      OBVIOUS
    <3>2. \A s \in Symbols : track[s] = fresh
      BY <1>3
    <3> HIDE DEF none
    <3>3. fresh.status = "pending" /\ fresh.records = none
      OBVIOUS
    <3> HIDE DEF fresh
    <3> QED
      BY <3>1, <3>2, <3>3
  <2> QED
    BY <2>1, <2>2 DEF RecordsAreTrue, TracksAreSeries
<1> QED
  BY <1>2, <1>4, <1>5 DEF SequentialInv

\* A step that leaves the tracks alone keeps what is known of them.
LEMMA TracksStay ==
    ASSUME SubmissionKeeps, RecordsAreTrue, TracksAreSeries, UNCHANGED track
    PROVE  RecordsAreTrue' /\ TracksAreSeries'
BY KeysAre DEF SubmissionKeeps, RecordsAreTrue, TracksAreSeries

LEMMA InTurnStays ==
    ASSUME SubmissionKeeps, LastDate \in Nat, NEW k \in Keys, InTurn(k)
    PROVE  \A e \in 1 .. k[2] - 1 : run'[<<k[1], e>>] = "succeeded"
<1> SUFFICES ASSUME NEW e \in 1 .. k[2] - 1
             PROVE  run'[<<k[1], e>>] = "succeeded"
  OBVIOUS
<1>1. k[1] \in Symbols /\ e \in 1 .. LastDate
  <2>1. k[1] \in Symbols /\ k[2] \in 1 .. LastDate
    BY KeysAre
  <2> QED
    BY <2>1
<1>2. <<k[1], e>> \in Keys
  BY <1>1, KeysAre
<1>3. run[<<k[1], e>>] = "succeeded"
  BY DEF InTurn
<1> QED
  BY <1>2, <1>3 DEF SubmissionKeeps

\* The tracks of the state file but for one.
LEMMA TrackMoves ==
    ASSUME SequentialTypes, SubmissionKeeps, RecordsAreTrue, TracksAreSeries,
           NEW s \in Symbols, NEW d \in 1 .. LastDate, NEW status, NEW seen,
           track' = [track EXCEPT ![s].records[d] = seen, ![s].status = status],
           seen \in Sequential!Statuses \ {"absent"},
           status \in {"pending", "active", "blocked", "completed"},
           seen = "succeeded" => run'[<<s, d>>] = "succeeded",
           run'[<<s, d>>] # "absent",
           status = "completed" => /\ seen = "succeeded"
                                   /\ \A e \in (1 .. LastDate) \ {d} :
                                         track[s].records[e] = "succeeded"
    PROVE  /\ track' \in [Symbols -> Sequential!Track]
           /\ RecordsAreTrue' /\ TracksAreSeries'
<1> DEFINE new == [status |-> status, records |-> [track[s].records EXCEPT ![d] = seen]]
<1>1. track[s] \in Sequential!Track
  BY DEF SequentialTypes
<1>2. /\ track[s] = [status |-> track[s].status, records |-> track[s].records]
      /\ track[s].records \in [1 .. LastDate -> (Sequential!Statuses \ {"absent"}) \cup {None}]
  BY <1>1 DEF Sequential!Track, Sequential!AnalysisDates
<1>3. new \in Sequential!Track
  BY <1>2 DEF Sequential!Track, Sequential!AnalysisDates
<1>4. track' = [track EXCEPT ![s] = new]
  <2> DEFINE seenOne == [track[s] EXCEPT !.records[d] = seen]
  <2>1. seenOne = [status |-> track[s].status, records |-> [track[s].records EXCEPT ![d] = seen]]
    BY <1>2
  <2>2. [seenOne EXCEPT !.status = status] = new
    <3> DEFINE later == [track[s].records EXCEPT ![d] = seen]
               before == track[s].status
    <3>1. seenOne = [status |-> before, records |-> later]
      BY <2>1
    <3>2. new = [status |-> status, records |-> later]
      OBVIOUS
    <3> HIDE DEF later, before, seenOne, new
    <3> QED
      BY <3>1, <3>2
  <2>3. track' = [[track EXCEPT ![s] = seenOne] EXCEPT ![s].status = status]
    OBVIOUS
  <2> HIDE DEF seenOne, new
  <2>4. track \in [Symbols -> Sequential!Track]
    BY DEF SequentialTypes
  <2> QED
    BY <2>2, <2>3, <2>4
<1>5. /\ new.status = status /\ new.records[d] = seen
      /\ \A e \in (1 .. LastDate) \ {d} : new.records[e] = track[s].records[e]
  BY <1>2
<1> HIDE DEF new
<1>6. /\ track' \in [Symbols -> Sequential!Track]
      /\ track'[s] = new /\ \A x \in Symbols \ {s} : track'[x] = track[x]
  <2>1. track \in [Symbols -> Sequential!Track]
    BY DEF SequentialTypes
  <2> QED
    BY <1>3, <1>4, <2>1
<1>7. RecordsAreTrue'
  <2> SUFFICES ASSUME NEW x \in Symbols, NEW e \in 1 .. LastDate
               PROVE  /\ track'[x].records[e] = "succeeded" => run'[<<x, e>>] = "succeeded"
                      /\ track'[x].records[e] # None => run'[<<x, e>>] # "absent"
    BY DEF RecordsAreTrue
  <2>1. CASE x = s /\ e = d
    <3>1. track'[x].records[e] = seen
      BY <1>5, <1>6, <2>1
    <3> QED
      BY <2>1, <3>1
  <2>2. CASE ~(x = s /\ e = d)
    <3>1. track'[x].records[e] = track[x].records[e]
      BY <1>5, <1>6, <2>2
    <3>2. <<x, e>> \in Keys
      BY KeysAre
    <3> QED
      BY <3>1, <3>2 DEF RecordsAreTrue, SubmissionKeeps
  <2> QED
    BY <2>1, <2>2
<1>8. TracksAreSeries'
  <2> SUFFICES ASSUME NEW x \in Symbols, track'[x].status = "completed", NEW e \in 1 .. LastDate
               PROVE  track'[x].records[e] = "succeeded"
    BY DEF TracksAreSeries
  <2>1. CASE x = s
    BY <1>5, <1>6, <2>1
  <2>2. CASE x # s
    BY <1>6, <2>2 DEF TracksAreSeries
  <2> QED
    BY <2>1, <2>2
<1> QED
  BY <1>6, <1>7, <1>8

LEMMA SequentialStep ==
    ASSUME ScriptsAssumption, SequentialInv, focus = "sequential", focus' = focus,
           [Sequential!Next]_<<submission, sequential>>
    PROVE  SequentialInv'
<1>0. /\ SubmissionInv /\ SequentialTypes /\ RecordsAreTrue /\ TracksAreSeries
      /\ \A p \in Posts : post[p].pc # "free" => InTurn(post[p].key)
      /\ \A k \in Keys : run[k] # "absent" => InTurn(k)
      /\ LastDate \in Nat
  BY DEF SequentialInv, ScriptsAssumption
\* What is left to show of a step when its submission is understood.
<1>1. ASSUME SubmissionInv', SubmissionKeeps, SequentialTypes', RecordsAreTrue', TracksAreSeries',
             \A q \in Posts : post'[q].pc # "free" =>
                \/ post[q].pc # "free" /\ post'[q].key = post[q].key
                \/ post'[q].key \in Keys /\ InTurn(post'[q].key)
      PROVE  SequentialInv'
  <2>1. ASSUME NEW k \in Keys, InTurn(k) PROVE InTurn(k)'
    <3>1. \A e \in 1 .. k[2] - 1 : run'[<<k[1], e>>] = "succeeded"
      BY <1>0, <1>1, <2>1, InTurnStays
    <3> QED
      BY <3>1 DEF InTurn
  <2>2. ASSUME NEW q \in Posts, post'[q].pc # "free"
        PROVE  \A e \in 1 .. post'[q].key[2] - 1 : run'[<<post'[q].key[1], e>>] = "succeeded"
    <3>1. post'[q].key \in Keys /\ InTurn(post'[q].key)
      BY <1>0, <1>1, <2>2 DEF SubmissionInv
    <3> QED
      BY <1>0, <1>1, <3>1, InTurnStays
  <2>3. ASSUME NEW k \in Keys, run'[k] # "absent" PROVE InTurn(k)'
    <3>1. \/ run[k] # "absent"
          \/ \E p \in Posts : post[p].pc # "free" /\ post[p].key = k
      BY <1>1, <2>3 DEF SubmissionKeeps
    <3>2. InTurn(k)
      BY <1>0, <3>1
    <3> QED
      BY <2>1, <3>2
  <2> QED
    BY <1>1, <2>2, <2>3 DEF SequentialInv, InTurn
<1>2. ASSUME UNCHANGED submission
      PROVE  /\ SubmissionInv' /\ SubmissionKeeps
             /\ \A q \in Posts : post'[q].pc # "free" => post[q].pc # "free" /\ post'[q].key = post[q].key
  BY <1>0, <1>2 DEF submission, SubmissionInv, SubmissionKeeps
<1>3. CASE Sequential!StartBatch
  <2>1. UNCHANGED submission /\ UNCHANGED <<track, stops>> /\ batch' = [batch EXCEPT !.pc = "on"]
    BY <1>3 DEF Sequential!StartBatch, Sequential!submissionVars, submission
  <2>2. SequentialTypes'
    BY <1>0, <2>1 DEF SequentialTypes
  <2>3. SubmissionKeeps
    BY <1>2, <2>1
  <2> QED
    BY <1>0, <1>1, <1>2, <2>1, <2>2, <2>3, TracksStay
<1>4. CASE Sequential!FinishBatch
  <2>1. UNCHANGED submission /\ UNCHANGED <<track, stops>> /\ batch' = [batch EXCEPT !.pc = "done"]
    BY <1>4 DEF Sequential!FinishBatch, Sequential!submissionVars, submission
  <2>2. SequentialTypes'
    BY <1>0, <2>1 DEF SequentialTypes
  <2>3. SubmissionKeeps
    BY <1>2, <2>1
  <2> QED
    BY <1>0, <1>1, <1>2, <2>1, <2>2, <2>3, TracksStay
<1>5. CASE Sequential!StopBatch
  <2>1. /\ UNCHANGED submission /\ UNCHANGED track /\ batch' = [pc |-> "off", waits |-> None]
        /\ stops' = stops + 1 /\ stops < MaxStops
    BY <1>5 DEF Sequential!StopBatch, Sequential!submissionVars, submission
  <2>2. SequentialTypes'
    BY <1>0, <2>1 DEF SequentialTypes, ScriptsAssumption
  <2>3. SubmissionKeeps
    BY <1>2, <2>1
  <2> QED
    BY <1>0, <1>1, <1>2, <2>1, <2>2, <2>3, TracksStay
<1>6. ASSUME NEW p \in Posts, Sequential!AnswerUnheard(p) PROVE SequentialInv'
  <2>1. /\ Sequential!Frees(p) /\ UNCHANGED <<run, batches, track, stops>>
        /\ batch' = [pc |-> "off", waits |-> None] \/ batch' = batch
    BY <1>6 DEF Sequential!AnswerUnheard
  <2>2. SequentialTypes'
    BY <1>0, <2>1 DEF SequentialTypes
  <2>3. /\ SubmissionInv' /\ SubmissionKeeps
        /\ \A q \in Posts : post'[q].pc # "free" => post[q].pc # "free" /\ post'[q].key = post[q].key
    BY <1>0, <2>1, SubmissionFrees
  <2> QED
    BY <1>0, <1>1, <2>1, <2>2, <2>3, TracksStay
<1>7. CASE Sequential!SubmissionNext /\ UNCHANGED <<track, batch, stops>>
  <2>1. SequentialTypes'
    BY <1>0, <1>7 DEF SequentialTypes
  <2>2. /\ SubmissionInv' /\ SubmissionKeeps
        /\ \A q \in Posts : post'[q].pc # "free" => post[q].pc # "free" /\ post'[q].key = post[q].key
    BY <1>0, <1>7, SubmissionServes
  <2> QED
    BY <1>0, <1>1, <1>7, <2>1, <2>2, TracksStay
<1>8. ASSUME NEW s \in Symbols, Sequential!CompleteTrack(s) PROVE SequentialInv'
  <2>1. /\ UNCHANGED submission /\ UNCHANGED <<batch, stops>>
        /\ track' = [track EXCEPT ![s].status = "completed"]
        /\ \A d \in 1 .. LastDate : track[s].records[d] = "succeeded"
    BY <1>8 DEF Sequential!CompleteTrack, Sequential!submissionVars, submission,
                Sequential!Unfinished, Sequential!AnalysisDates
  <2> DEFINE new == [track[s] EXCEPT !.status = "completed"]
  <2>2. new \in Sequential!Track /\ new.records = track[s].records
    BY <1>0 DEF SequentialTypes, Sequential!Track
  <2>3. track' = [track EXCEPT ![s] = new]
    BY <2>1
  <2> HIDE DEF new
  <2>4. /\ track' \in [Symbols -> Sequential!Track]
        /\ track'[s] = new /\ \A x \in Symbols \ {s} : track'[x] = track[x]
    BY <1>0, <2>2, <2>3 DEF SequentialTypes
  <2>5. \A x \in Symbols : track'[x].records = track[x].records
    BY <2>2, <2>4
  <2>6. SubmissionKeeps
    BY <1>2, <2>1
  <2>7. RecordsAreTrue'
    <3> SUFFICES ASSUME NEW x \in Symbols, NEW e \in 1 .. LastDate
                 PROVE  /\ track'[x].records[e] = "succeeded" => run'[<<x, e>>] = "succeeded"
                        /\ track'[x].records[e] # None => run'[<<x, e>>] # "absent"
      BY DEF RecordsAreTrue
    <3>1. <<x, e>> \in Keys /\ track'[x].records[e] = track[x].records[e]
      BY <2>5, KeysAre
    <3> QED
      BY <1>0, <2>6, <3>1 DEF RecordsAreTrue, SubmissionKeeps
  <2>8. TracksAreSeries'
    <3> SUFFICES ASSUME NEW x \in Symbols, track'[x].status = "completed", NEW d \in 1 .. LastDate
                 PROVE  track'[x].records[d] = "succeeded"
      BY DEF TracksAreSeries
    <3>1. CASE x = s
      BY <2>1, <2>5, <3>1
    <3>2. CASE x # s
      BY <1>0, <2>4, <3>2 DEF TracksAreSeries
    <3> QED
      BY <3>1, <3>2
  <2>9. SequentialTypes'
    BY <1>0, <2>1, <2>4 DEF SequentialTypes
  <2> QED
    BY <1>1, <1>2, <2>1, <2>6, <2>7, <2>8, <2>9
<1>9. ASSUME NEW s \in Symbols, NEW p \in Posts, Sequential!PostAssessment(s, p)
      PROVE  SequentialInv'
  <2> DEFINE d == Sequential!CurrentDate(s)
  <2>1. /\ Sequential!Unfinished(s) # {} /\ Sequential!Begins(p, <<s, d>>)
        /\ batch' = [batch EXCEPT !.waits = p] /\ UNCHANGED <<run, batches, track, stops>>
    BY <1>9 DEF Sequential!PostAssessment
  <2>2. d \in 1 .. LastDate /\ \A e \in 1 .. d - 1 : track[s].records[e] = "succeeded"
    BY <1>0, <2>1, CurrentDateIs
  <2> HIDE DEF d
  <2> DEFINE k == <<s, d>>
  <2>3. k \in Keys /\ k[1] = s /\ k[2] = d
    BY <2>2, KeysAre
  <2>4. Sequential!Begins(p, k)
    BY <2>1
  <2> HIDE DEF k
  <2>5. InTurn(k)
    <3>1. \A e \in 1 .. d - 1 : e \in 1 .. LastDate
      BY <1>0, <2>2
    <3>2. \A e \in 1 .. d - 1 : run[<<s, e>>] = "succeeded"
      BY <1>0, <2>2, <3>1 DEF RecordsAreTrue
    <3> QED
      BY <2>3, <3>2 DEF InTurn
  <2>6. /\ SubmissionInv' /\ SubmissionKeeps
        /\ \A q \in Posts : post'[q].pc # "free" =>
              \/ post[q].pc # "free" /\ post'[q].key = post[q].key
              \/ post'[q].key = k
    BY <1>0, <2>1, <2>3, <2>4, SubmissionBegins
  <2>7. SequentialTypes'
    BY <1>0, <2>1 DEF SequentialTypes
  <2> QED
    BY <1>0, <1>1, <2>1, <2>3, <2>5, <2>6, <2>7, TracksStay
<1>10. ASSUME NEW s \in Symbols, Sequential!Submitted(s) PROVE SequentialInv'
  <2> DEFINE p == batch.waits
             k == post[p].key
  <2>1. /\ p \in Posts \cup {None} /\ p # None
    BY <1>0, <1>10 DEF Sequential!Submitted, SequentialTypes
  <2>2. /\ post[p].pc = "found" /\ k[1] = s
        /\ track' = [track EXCEPT ![s].records[k[2]] = run[k], ![s].status = "active"]
        /\ Sequential!Frees(p)
        /\ batch' = [batch EXCEPT !.waits = None] /\ UNCHANGED <<run, batches, stops>>
    BY <1>10 DEF Sequential!Submitted
  <2> HIDE DEF p
  <2>3. p \in Posts
    BY <2>1
  <2>4. k \in Keys /\ run[k] # "absent" /\ run[k] \in Sequential!Statuses
    BY <1>0, <2>2, <2>3 DEF SubmissionInv
  <2> HIDE DEF k
  <2>5. k[2] \in 1 .. LastDate /\ k = <<s, k[2]>>
    BY <2>2, <2>4, KeysAre
  <2>6. /\ SubmissionInv' /\ SubmissionKeeps
        /\ \A q \in Posts : post'[q].pc # "free" => post[q].pc # "free" /\ post'[q].key = post[q].key
    BY <1>0, <2>2, <2>3, SubmissionFrees
  <2>7. /\ run'[<<s, k[2]>>] = run[k]
    BY <2>2, <2>5
  <2>8. /\ track' \in [Symbols -> Sequential!Track]
        /\ RecordsAreTrue' /\ TracksAreSeries'
    BY <1>0, <2>2, <2>4, <2>5, <2>6, <2>7, TrackMoves
  <2>9. SequentialTypes'
    BY <1>0, <2>2, <2>8 DEF SequentialTypes
  <2> QED
    BY <1>1, <2>6, <2>8, <2>9
<1>11. ASSUME NEW s \in Symbols, Sequential!Observe(s) PROVE SequentialInv'
  <2> DEFINE d == Sequential!CurrentDate(s)
             seen == run[<<s, d>>]
             status == IF seen \in Sequential!FAILURE_STATUSES THEN "blocked"
                       ELSE IF seen # "succeeded" THEN "active"
                       ELSE IF d = LastDate THEN "completed" ELSE "pending"
  <2>1. /\ Sequential!Unfinished(s) # {} /\ track[s].records[d] # None
        /\ track' = [track EXCEPT ![s].records[d] = seen, ![s].status = status]
        /\ UNCHANGED submission /\ UNCHANGED <<batch, stops>>
    BY <1>11 DEF Sequential!Observe, Sequential!submissionVars, submission
  <2>2. d \in 1 .. LastDate /\ \A e \in 1 .. d - 1 : track[s].records[e] = "succeeded"
    BY <1>0, <2>1, CurrentDateIs
  <2>3. /\ status \in {"pending", "active", "blocked", "completed"}
        /\ status = "completed" => seen = "succeeded" /\ d = LastDate
    OBVIOUS
  <2> HIDE DEF d, status
  <2>4. <<s, d>> \in Keys
    BY <2>2, KeysAre
  <2>5. seen \in Sequential!Statuses \ {"absent"}
    BY <1>0, <2>1, <2>2, <2>4 DEF RecordsAreTrue, SubmissionInv
  <2>6. run'[<<s, d>>] = seen
    BY <2>1 DEF submission
  <2> HIDE DEF seen
  <2>7. status = "completed" => \A e \in (1 .. LastDate) \ {d} : track[s].records[e] = "succeeded"
    <3>1. d = LastDate => \A e \in (1 .. LastDate) \ {d} : e \in 1 .. d - 1
      BY <1>0
    <3> QED
      BY <2>2, <2>3, <3>1
  <2>8. SubmissionKeeps
    BY <1>2, <2>1
  <2>9. /\ track' \in [Symbols -> Sequential!Track]
        /\ RecordsAreTrue' /\ TracksAreSeries'
    BY <1>0, <2>1, <2>2, <2>3, <2>5, <2>6, <2>7, <2>8, TrackMoves
  <2>10. SequentialTypes'
    BY <1>0, <2>1, <2>9 DEF SequentialTypes
  <2> QED
    BY <1>1, <1>2, <2>1, <2>8, <2>9, <2>10
<1>12. CASE UNCHANGED <<submission, sequential>>
  <2>1. UNCHANGED submission /\ UNCHANGED <<track, batch, stops>>
    BY <1>12 DEF submission, sequential
  <2>2. SequentialTypes'
    BY <1>0, <2>1 DEF SequentialTypes
  <2>3. SubmissionKeeps
    BY <1>2, <2>1
  <2> QED
    BY <1>0, <1>1, <1>2, <2>1, <2>2, <2>3, TracksStay
<1> QED
  BY <1>3, <1>4, <1>5, <1>6, <1>7, <1>8, <1>9, <1>10, <1>11, <1>12
     DEF Sequential!Next, Sequential!Reconcile

-----------------------------------------------------------------------------
(* The monthly audit *)

\* The run of a date has succeeded and so have its validations.
Assessed(d) == run[Audit!KeyOf(d)] = "succeeded" /\ outcome[Audit!KeyOf(d)] = "completed"

AssessedBefore(d) == \A e \in 1 .. d - 1 : Assessed(e)

AuditTypes ==
    /\ outcome \in [Keys -> {"open", "completed", "failed"}]
    /\ sound \in [Keys -> BOOLEAN]
    /\ checkpoints \in [1 .. LastDate -> Audit!Checkpoint]
    /\ audit \in [pc : {"off", "next", "post", "assessment", "validation", "check"},
                  date : 1 .. LastDate, verify : BOOLEAN, waits : Posts \cup {None}]
    /\ breaks \in 0 .. MaxBreaks

\* The audit has seen a success before it looks at the validations, and these
\* before it checks; it does not come to a date before the earlier ones are done,
\* nor does a request, of which a run could come.
AuditProceeds ==
    /\ audit.pc \in {"validation", "check"} => run[Audit!KeyOf(audit.date)] = "succeeded"
    /\ audit.pc = "check" => outcome[Audit!KeyOf(audit.date)] = "completed"
    /\ audit.pc # "off" => AssessedBefore(audit.date)
    /\ audit.pc = "post" => audit.waits \in Posts
    /\ \A p \in Posts : post[p].pc # "free" =>
          \E d \in 1 .. LastDate : post[p].key = Audit!KeyOf(d) /\ AssessedBefore(d)
    /\ \A d \in 1 .. LastDate : run[Audit!KeyOf(d)] # "absent" => AssessedBefore(d)

AuditInv ==
    /\ SubmissionInv /\ AuditTypes
    /\ focus = "audit" => Audit!PassedIsProven /\ AuditProceeds
    /\ focus # "audit" => \A d \in 1 .. LastDate : checkpoints[d] = "none"

LEMMA KeyOfIs ==
    ASSUME Symbols # {}, NEW d \in 1 .. LastDate
    PROVE  Audit!KeyOf(d) \in Keys /\ Audit!KeyOf(d)[2] = d
<1>1. PICK s \in Symbols : TRUE
  OBVIOUS
<1>2. <<s, d>> \in Keys /\ <<s, d>>[2] = d
  BY KeysAre
<1>3. \E k \in Keys : k[2] = d
  BY <1>2
<1> QED
  BY <1>3 DEF Audit!KeyOf

LEMMA AuditStarts ==
    ASSUME ScriptsAssumption, Audit!Init
    PROVE  AuditInv
<1>1. Sequential!SubmissionInit
  BY SameSubmission DEF Audit!Init
<1>2. /\ SubmissionInv
      /\ \A k \in Keys : run[k] = "absent"
      /\ \A p \in Posts : post[p].pc = "free"
  BY <1>1, SubmissionStarts
<1>3. /\ checkpoints = [d \in 1 .. LastDate |-> "none"] /\ breaks = 0
      /\ outcome = [k \in Keys |-> "open"] /\ sound = [k \in Keys |-> TRUE]
      /\ audit = [pc |-> "off", date |-> 1, verify |-> FALSE, waits |-> None]
  BY DEF Audit!Init
<1>4. 1 \in 1 .. LastDate /\ 0 \in 0 .. MaxBreaks
  BY DEF ScriptsAssumption
<1>5. AuditTypes
  BY <1>3, <1>4 DEF AuditTypes, Audit!Checkpoint
<1>6. \A d \in 1 .. LastDate : checkpoints[d] = "none"
  BY <1>3
<1>7. Audit!PassedIsProven
  BY <1>6 DEF Audit!PassedIsProven
<1>8. AuditProceeds
  <2>1. \A d \in 1 .. LastDate : run[Audit!KeyOf(d)] = "absent"
    BY <1>2, KeyOfIs DEF ScriptsAssumption
  <2>2. audit.pc = "off"
    BY <1>3
  <2> QED
    BY <1>2, <2>1, <2>2 DEF AuditProceeds
<1> QED
  BY <1>2, <1>5, <1>6, <1>7, <1>8 DEF AuditInv

\* What is proven stays proven: a success is for good, so are completed validations,
\* and a run that has succeeded no longer disappoints.
AuditKeeps ==
    /\ \A k \in Keys : /\ outcome[k] = "completed" => outcome'[k] = "completed"
                       /\ run[k] = "succeeded" /\ sound[k] => sound'[k]

LEMMA AssessedStays ==
    ASSUME ScriptsAssumption, SubmissionKeeps, AuditKeeps, NEW d \in 1 .. LastDate
    PROVE  /\ Assessed(d) => Assessed(d)'
           /\ AssessedBefore(d) => \A e \in 1 .. d - 1 : Assessed(e)'
<1>1. ASSUME NEW e \in 1 .. LastDate, Assessed(e) PROVE Assessed(e)'
  <2>1. Audit!KeyOf(e) \in Keys
    BY KeyOfIs DEF ScriptsAssumption
  <2> DEFINE k == Audit!KeyOf(e)
  <2>2. run'[k] = "succeeded" /\ outcome'[k] = "completed"
    BY <1>1, <2>1 DEF Assessed, SubmissionKeeps, AuditKeeps
  <2>3. k' = k
    BY DEF Audit!KeyOf, Keys
  <2> QED
    BY <2>2, <2>3 DEF Assessed
<1>2. \A e \in 1 .. d - 1 : e \in 1 .. LastDate
  BY DEF ScriptsAssumption
<1> QED
  BY <1>1, <1>2 DEF AssessedBefore

AuditStates ==
    [pc : {"off", "next", "post", "assessment", "validation", "check"},
     date : 1 .. LastDate, verify : BOOLEAN, waits : Posts \cup {None}]

\* Where the audit may go, by what is known where it is.
MayTurn(a) ==
    /\ a \in AuditStates
    /\ a.pc \in {"validation", "check"} => run[Audit!KeyOf(a.date)] = "succeeded"
    /\ a.pc = "check" => outcome[Audit!KeyOf(a.date)] = "completed"
    /\ a.pc # "off" => AssessedBefore(a.date)
    /\ a.pc = "post" => a.waits \in Posts

LEMMA Advances ==
    ASSUME ScriptsAssumption, audit \in AuditStates, Audit!Advance,
           AssessedBefore(audit.date), Assessed(audit.date), audit.pc \in {"next", "check"}
    PROVE  MayTurn(audit')
<1>1. CASE audit.date + 1 \in 1 .. LastDate
  <2>1. audit' = [audit EXCEPT !.pc = "next", !.date = @ + 1]
    BY <1>1 DEF Audit!Advance
  <2>2. audit' \in AuditStates /\ audit'.pc = "next" /\ audit'.date = audit.date + 1
    BY <1>1, <2>1 DEF AuditStates
  <2>3. \A e \in 1 .. (audit.date + 1) - 1 : e = audit.date \/ e \in 1 .. audit.date - 1
    BY <1>1 DEF AuditStates
  <2>4. AssessedBefore(audit.date + 1)
    BY <2>3 DEF AssessedBefore
  <2> QED
    BY <2>2, <2>4 DEF MayTurn
<1>2. CASE ~(audit.date + 1 \in 1 .. LastDate)
  <2>1. audit' = [audit EXCEPT !.pc = "off"]
    BY <1>2 DEF Audit!Advance
  <2>2. audit' \in AuditStates /\ audit'.pc = "off"
    BY <2>1 DEF AuditStates
  <2> QED
    BY <2>2 DEF MayTurn
<1> QED
  BY <1>1, <1>2

LEMMA Turning ==
    ASSUME audit \in AuditStates,
           NEW at \in {"off", "next", "post", "assessment", "validation", "check"},
           NEW w \in Posts \cup {None}
    PROVE  /\ [audit EXCEPT !.pc = at] \in AuditStates
           /\ [audit EXCEPT !.pc = at].pc = at
           /\ [audit EXCEPT !.pc = at].date = audit.date
           /\ [audit EXCEPT !.pc = at, !.waits = w] \in AuditStates
           /\ [audit EXCEPT !.pc = at, !.waits = w].pc = at
           /\ [audit EXCEPT !.pc = at, !.waits = w].date = audit.date
           /\ [audit EXCEPT !.pc = at, !.waits = w].waits = w
BY DEF AuditStates

LEMMA EndsWell ==
    ASSUME audit \in AuditStates, Audit!Ends
    PROVE  MayTurn(audit')
<1>1. audit' = [audit EXCEPT !.pc = "off", !.waits = None]
  BY DEF Audit!Ends
<1>2. audit' \in AuditStates /\ audit'.pc = "off"
  BY <1>1 DEF AuditStates
<1> QED
  BY <1>2 DEF MayTurn

LEMMA SavesAre ==
    ASSUME checkpoints \in [1 .. LastDate -> Audit!Checkpoint], audit \in AuditStates,
           NEW status \in Audit!Checkpoint, Audit!Saves(status)
    PROVE  /\ checkpoints' \in [1 .. LastDate -> Audit!Checkpoint]
           /\ \A d \in 1 .. LastDate : checkpoints'[d] = "passed" =>
                 checkpoints[d] = "passed" \/ (status = "passed" /\ d = audit.date)
BY DEF Audit!Saves, AuditStates

\* The invariant is kept by a step that submits well, keeps what is proven, passes
\* only what is proven, and turns where it may.
LEMMA AuditHolds ==
    ASSUME ScriptsAssumption, SubmissionInv, AuditTypes, AuditProceeds, Audit!PassedIsProven,
           focus = "audit", focus' = focus,
           SubmissionInv', SubmissionKeeps, AuditKeeps,
           outcome' \in [Keys -> {"open", "completed", "failed"}],
           sound' \in [Keys -> BOOLEAN], breaks' \in 0 .. MaxBreaks,
           checkpoints' \in [1 .. LastDate -> Audit!Checkpoint],
           \A d \in 1 .. LastDate : checkpoints'[d] = "passed" =>
              checkpoints[d] = "passed" \/ (Assessed(d) /\ sound[Audit!KeyOf(d)]),
           MayTurn(audit'),
           \A q \in Posts : post'[q].pc # "free" =>
              \/ post[q].pc # "free" /\ post'[q].key = post[q].key
              \/ \E d \in 1 .. LastDate : post'[q].key = Audit!KeyOf(d) /\ AssessedBefore(d)
    PROVE  AuditInv'
<1>1. AuditTypes'
  BY DEF AuditTypes, MayTurn, AuditStates, Audit!Checkpoint, Audit!Statuses
<1>2. \A d \in 1 .. LastDate : AssessedBefore(d) => AssessedBefore(d)'
  BY AssessedStays DEF AssessedBefore
<1>3. ASSUME NEW d \in 1 .. LastDate, checkpoints'[d] = "passed"
      PROVE  run'[Audit!KeyOf(d)] = "succeeded" /\ outcome'[Audit!KeyOf(d)] = "completed"
             /\ sound'[Audit!KeyOf(d)]
  <2>1. Assessed(d) /\ sound[Audit!KeyOf(d)]
    BY <1>3 DEF Audit!PassedIsProven, Assessed
  <2>2. Audit!KeyOf(d) \in Keys
    BY KeyOfIs DEF ScriptsAssumption
  <2> QED
    BY <2>1, <2>2 DEF Assessed, SubmissionKeeps, AuditKeeps
<1>4. Audit!PassedIsProven'
  <2>1. \A d : Audit!KeyOf(d)' = Audit!KeyOf(d)
    BY DEF Audit!KeyOf, Keys
  <2> QED
    BY <1>3, <2>1 DEF Audit!PassedIsProven
<1>5. AuditProceeds'
  <2>1. \A d : Audit!KeyOf(d)' = Audit!KeyOf(d)
    BY DEF Audit!KeyOf, Keys
  <2>2. audit'.date \in 1 .. LastDate
    BY DEF MayTurn, AuditStates
  <2>3. Audit!KeyOf(audit'.date) \in Keys
    BY <2>2, KeyOfIs DEF ScriptsAssumption
  <2>4. audit'.pc \in {"validation", "check"} => run'[Audit!KeyOf(audit'.date)] = "succeeded"
    BY <2>3 DEF MayTurn, SubmissionKeeps
  <2>5. audit'.pc = "check" => outcome'[Audit!KeyOf(audit'.date)] = "completed"
    BY <2>3 DEF MayTurn, AuditKeeps
  <2>6. audit'.pc # "off" => AssessedBefore(audit.date)'
    <3>1. ASSUME NEW d \in 1 .. LastDate, AssessedBefore(d)
          PROVE  \A e \in 1 .. d - 1 : Assessed(e)'
      BY <3>1, AssessedStays
    <3>2. audit'.pc # "off" => \A e \in 1 .. audit'.date - 1 : Assessed(e)'
      BY <2>2, <3>1 DEF MayTurn
    <3> QED
      BY <3>2 DEF AssessedBefore
  <2>7. ASSUME NEW q \in Posts, post'[q].pc # "free"
        PROVE  \E d \in 1 .. LastDate : post'[q].key = Audit!KeyOf(d) /\ AssessedBefore(d)'
    <3>1. PICK d \in 1 .. LastDate : post'[q].key = Audit!KeyOf(d) /\ AssessedBefore(d)
      BY <2>7 DEF AuditProceeds
    <3> QED
      BY <1>2, <3>1
  <2>8. ASSUME NEW d \in 1 .. LastDate, run'[Audit!KeyOf(d)] # "absent"
        PROVE  AssessedBefore(d)'
    <3>1. Audit!KeyOf(d) \in Keys /\ Audit!KeyOf(d)[2] = d
      BY KeyOfIs DEF ScriptsAssumption
    <3>2. CASE run[Audit!KeyOf(d)] # "absent"
      BY <1>2, <3>2 DEF AuditProceeds
    <3>3. CASE \E p \in Posts : post[p].pc # "free" /\ post[p].key = Audit!KeyOf(d)
      <4>1. PICK e \in 1 .. LastDate : Audit!KeyOf(d) = Audit!KeyOf(e) /\ AssessedBefore(e)
        BY <3>3 DEF AuditProceeds
      <4>2. Audit!KeyOf(e)[2] = e
        BY KeyOfIs DEF ScriptsAssumption
      <4> QED
        BY <1>2, <3>1, <4>1, <4>2
    <3> QED
      BY <2>8, <3>1, <3>2, <3>3 DEF SubmissionKeeps
  <2> QED
    BY <2>1, <2>4, <2>5, <2>6, <2>7, <2>8 DEF AuditProceeds, MayTurn
<1> QED
  BY <1>1, <1>4, <1>5 DEF AuditInv

LEMMA AuditStep ==
    ASSUME ScriptsAssumption, AuditInv, focus = "audit", focus' = focus,
           [Audit!Next]_<<submission, auditing>>
    PROVE  AuditInv'
<1>0. /\ SubmissionInv /\ AuditTypes /\ AuditProceeds /\ Audit!PassedIsProven
      /\ audit \in AuditStates /\ MayTurn(audit)
      /\ checkpoints \in [1 .. LastDate -> Audit!Checkpoint]
  BY DEF AuditInv, AuditTypes, AuditStates, AuditProceeds, MayTurn
<1> DEFINE k == Audit!KeyOf(audit.date)
           Stays == UNCHANGED <<outcome, sound, breaks>>
           Serves == /\ SubmissionInv' /\ SubmissionKeeps
                     /\ \A q \in Posts : post'[q].pc # "free" =>
                           \/ post[q].pc # "free" /\ post'[q].key = post[q].key
                           \/ \E d \in 1 .. LastDate : post'[q].key = Audit!KeyOf(d)
                                                       /\ AssessedBefore(d)
           Counts == breaks' \in 0 .. MaxBreaks
<1>1. k \in Keys /\ audit.date \in 1 .. LastDate
  BY <1>0, KeyOfIs DEF ScriptsAssumption, AuditStates
<1>2. Assessed(audit.date) <=> run[k] = "succeeded" /\ outcome[k] = "completed"
  BY DEF Assessed
<1> HIDE DEF k
<1>3. ASSUME UNCHANGED submission PROVE Serves
  BY <1>0, <1>3 DEF submission, SubmissionInv, SubmissionKeeps
<1>4. ASSUME UNCHANGED <<outcome, sound>>
      PROVE  /\ AuditKeeps
             /\ outcome' \in [Keys -> {"open", "completed", "failed"}]
             /\ sound' \in [Keys -> BOOLEAN]
  BY <1>0, <1>4 DEF AuditKeeps, AuditTypes
<1>5. ASSUME UNCHANGED breaks PROVE Counts
  BY <1>0, <1>5 DEF AuditTypes
<1>6. ASSUME breaks < MaxBreaks, breaks' = breaks + 1 PROVE Counts
  BY <1>0, <1>6 DEF AuditTypes, ScriptsAssumption
<1> HIDE DEF Counts, Serves
\* A step that is only about the audit's own state.
<1>7. ASSUME Serves, UNCHANGED <<outcome, sound>>, Counts, MayTurn(audit'),
             \/ UNCHANGED checkpoints
             \/ \E status \in Audit!Checkpoint :
                   /\ Audit!Saves(status)
                   /\ status = "passed" => Assessed(audit.date) /\ sound[k]
      PROVE  AuditInv'
  <2>1. /\ checkpoints' \in [1 .. LastDate -> Audit!Checkpoint]
        /\ \A d \in 1 .. LastDate : checkpoints'[d] = "passed" =>
              checkpoints[d] = "passed" \/ (Assessed(d) /\ sound[Audit!KeyOf(d)])
    <3>1. CASE UNCHANGED checkpoints
      BY <1>0, <3>1
    <3>2. CASE \E status \in Audit!Checkpoint :
                  /\ Audit!Saves(status)
                  /\ status = "passed" => Assessed(audit.date) /\ sound[k]
      <4>1. PICK status \in Audit!Checkpoint :
               /\ Audit!Saves(status)
               /\ status = "passed" => Assessed(audit.date) /\ sound[k]
        BY <3>2
      <4> QED
        BY <1>0, <4>1, SavesAre DEF k
    <3> QED
      BY <1>7, <3>1, <3>2
  <2>2. Counts /\ Serves
    BY <1>7
  <2> QED
    BY <1>0, <1>4, <1>7, <2>1, <2>2, AuditHolds DEF Counts, Serves
<1>8. \A s \in {"submitted", "failed", "succeeded", "queued", "running"} : s \in Audit!Checkpoint /\ s # "passed"
  BY DEF Audit!Checkpoint, Audit!Statuses
<1>9. ASSUME NEW at \in {"next", "post", "assessment", "validation", "check"},
             audit.pc # "off", audit' = [audit EXCEPT !.pc = at], at # "post",
             at \in {"validation", "check"} => run[k] = "succeeded",
             at = "check" => outcome[k] = "completed"
      PROVE  MayTurn(audit')
  <2>1. audit' \in AuditStates /\ audit'.pc = at /\ audit'.date = audit.date
    BY <1>0, <1>9 DEF AuditStates
  <2> QED
    BY <1>0, <1>9, <2>1 DEF MayTurn, k
<1>10. CASE Audit!StartAudit
  <2>1. PICK verify \in BOOLEAN :
           /\ audit' = [pc |-> "next", date |-> 1, verify |-> verify, waits |-> None]
           /\ UNCHANGED submission /\ UNCHANGED <<outcome, sound, checkpoints, breaks>>
    BY <1>10, SameSubmission DEF Audit!submissionVars, submission, Audit!StartAudit
  <2>2. 1 \in 1 .. LastDate
    BY DEF ScriptsAssumption
  <2>3. audit' \in AuditStates /\ audit'.pc = "next" /\ audit'.date = 1
    BY <2>1, <2>2 DEF AuditStates
  <2>4. MayTurn(audit')
    BY <2>3 DEF MayTurn, AssessedBefore
  <2> QED
    BY <1>3, <1>5, <1>7, <2>1, <2>4
<1>11. CASE Audit!TakePassed
  <2>1. /\ audit.pc = "next" /\ checkpoints[audit.date] = "passed" /\ Audit!Advance
        /\ UNCHANGED submission /\ UNCHANGED <<outcome, sound, checkpoints, breaks>>
    BY <1>11, SameSubmission DEF Audit!submissionVars, submission, Audit!TakePassed
  <2>2. Assessed(audit.date)
    BY <1>0, <1>1, <2>1 DEF Audit!PassedIsProven, Assessed
  <2>3. MayTurn(audit')
    BY <1>0, <2>1, <2>2, Advances DEF AuditProceeds
  <2> QED
    BY <1>3, <1>5, <1>7, <2>1, <2>3
<1>12. CASE Audit!Resume
  <2>1. /\ audit.pc = "next" /\ audit' = [audit EXCEPT !.pc = "assessment"]
        /\ UNCHANGED submission /\ UNCHANGED <<outcome, sound, checkpoints, breaks>>
    BY <1>12, SameSubmission DEF Audit!submissionVars, submission, Audit!Resume, Audit!Turns
  <2> QED
    BY <1>3, <1>5, <1>7, <1>9, <2>1
<1>13. ASSUME NEW p \in Posts, Audit!PostCheckpoint(p) PROVE AuditInv'
  <2>1. /\ audit.pc = "next" /\ Sequential!Begins(p, k)
        /\ audit' = [audit EXCEPT !.pc = "post", !.waits = p]
        /\ UNCHANGED <<run, batches>> /\ UNCHANGED <<outcome, sound, checkpoints, breaks>>
    BY <1>13, SameSubmission DEF Audit!submissionVars, submission, Audit!PostCheckpoint, k
  <2>2. /\ audit' \in AuditStates /\ audit'.pc = "post" /\ audit'.date = audit.date
        /\ audit'.waits = p
    BY <1>0, <2>1 DEF AuditStates
  <2>3. AssessedBefore(audit.date)
    BY <1>0, <2>1 DEF AuditProceeds
  <2>4. MayTurn(audit')
    BY <2>2, <2>3 DEF MayTurn
  <2>5. Serves
    BY <1>0, <1>1, <2>1, <2>3, SubmissionBegins DEF Serves, k
  <2> QED
    BY <1>5, <1>7, <2>1, <2>4, <2>5
<1>14. CASE Audit!CheckpointSubmitted
  <2> DEFINE p == audit.waits
  <2>1. /\ audit.pc = "post" /\ Sequential!Frees(p) /\ Audit!Saves("submitted")
        /\ audit' = [audit EXCEPT !.pc = "assessment", !.waits = None]
        /\ UNCHANGED <<run, batches>> /\ UNCHANGED <<outcome, sound, breaks>>
    BY <1>14, SameSubmission DEF Audit!submissionVars, submission, Audit!CheckpointSubmitted
  <2>2. p \in Posts
    BY <1>0, <2>1 DEF AuditProceeds
  <2> HIDE DEF p
  <2>3. Serves
    BY <1>0, <2>1, <2>2, SubmissionFrees DEF Serves
  <2>4. /\ audit' \in AuditStates /\ audit'.pc = "assessment" /\ audit'.date = audit.date
    BY <1>0, <2>1 DEF AuditStates
  <2>5. MayTurn(audit')
    BY <1>0, <2>1, <2>4 DEF MayTurn
  <2> QED
    BY <1>5, <1>7, <1>8, <2>1, <2>3, <2>5
<1>15. CASE Audit!PollAssessment
  <2>1. /\ audit.pc = "assessment" /\ UNCHANGED submission /\ UNCHANGED <<outcome, sound>>
        /\ \/ /\ run[k] = "succeeded" /\ Audit!Saves("succeeded")
              /\ audit' = [audit EXCEPT !.pc = "validation"]
           \/ Audit!Saves("failed") /\ Audit!Ends
           \/ /\ run[k] \in {"queued", "running"} /\ Audit!Saves(run[k]) /\ UNCHANGED audit
    BY <1>15, SameSubmission DEF Audit!submissionVars, submission, Audit!PollAssessment, Audit!Status, Audit!Turns, k
  <2>2. MayTurn(audit')
    BY <1>0, <1>9, <2>1, EndsWell
  <2>3. \E status \in Audit!Checkpoint : /\ Audit!Saves(status)
                                         /\ status = "passed" => Assessed(audit.date) /\ sound[k]
    BY <1>8, <2>1
  <2>4. Counts
    <3>1. CASE breaks' = breaks + 1
      <4>1. run[k] \in {"queued", "running"} /\ audit'.pc = "off"
        <5>1. breaks' # breaks
          BY <1>0, <3>1 DEF AuditTypes
        <5> QED
          BY <1>15, <5>1 DEF Audit!PollAssessment, Audit!Status, k
      <4>2. breaks < MaxBreaks
        BY <1>15, <4>1 DEF Audit!PollAssessment, Audit!Status, k, Audit!FAILURE_STATUSES, Audit!Turns
      <4> QED
        BY <1>6, <3>1, <4>2
    <3>2. CASE breaks' = breaks
      BY <1>5, <3>2
    <3> QED
      BY <1>15, <3>1, <3>2 DEF Audit!PollAssessment
  <2> QED
    BY <1>3, <1>7, <2>1, <2>2, <2>3, <2>4
<1>16. CASE Audit!PollValidations
  <2>1. /\ audit.pc = "validation" /\ UNCHANGED submission /\ UNCHANGED <<outcome, sound>>
        /\ \/ /\ outcome[k] = "completed" /\ audit' = [audit EXCEPT !.pc = "check"]
              /\ UNCHANGED <<checkpoints, breaks>>
           \/ Audit!Saves("failed") /\ Audit!Ends /\ UNCHANGED breaks
           \/ /\ breaks < MaxBreaks
              /\ Audit!Saves("failed") /\ Audit!Ends /\ breaks' = breaks + 1
    BY <1>16, SameSubmission DEF Audit!submissionVars, submission, Audit!PollValidations, Audit!Turns, k
  <2>2. MayTurn(audit')
    <3>1. run[k] = "succeeded"
      BY <1>0, <2>1 DEF AuditProceeds, k
    <3> QED
      BY <1>0, <1>9, <2>1, <3>1, EndsWell
  <2>3. Counts
    BY <1>5, <1>6, <2>1
  <2>4. \/ UNCHANGED checkpoints
        \/ \E status \in Audit!Checkpoint : /\ Audit!Saves(status)
                                            /\ status = "passed" => Assessed(audit.date) /\ sound[k]
    BY <1>8, <2>1
  <2> QED
    BY <1>3, <1>7, <2>1, <2>2, <2>3, <2>4
<1>17. CASE Audit!Check
  <2>1. /\ audit.pc = "check" /\ UNCHANGED submission /\ UNCHANGED <<outcome, sound, breaks>>
        /\ \/ sound[k] /\ Audit!Saves("passed") /\ Audit!Advance
           \/ Audit!Ends /\ UNCHANGED checkpoints
    BY <1>17, SameSubmission DEF Audit!submissionVars, submission, Audit!Check, k
  <2>2. Assessed(audit.date)
    BY <1>0, <1>2, <2>1 DEF AuditProceeds, k
  <2>3. MayTurn(audit')
    BY <1>0, <2>1, <2>2, Advances, EndsWell DEF AuditProceeds
  <2>4. "passed" \in Audit!Checkpoint
    BY DEF Audit!Checkpoint
  <2> QED
    BY <1>3, <1>5, <1>7, <2>1, <2>2, <2>3, <2>4
<1>18. CASE Audit!BreakOff
  <2>1. /\ breaks < MaxBreaks /\ breaks' = breaks + 1 /\ Audit!Ends
        /\ UNCHANGED submission /\ UNCHANGED <<outcome, sound, checkpoints>>
    BY <1>18, SameSubmission DEF Audit!submissionVars, submission, Audit!BreakOff
  <2> QED
    BY <1>0, <1>3, <1>6, <1>7, <2>1, EndsWell
<1>19. ASSUME NEW p \in Posts, Audit!LateAnswer(p) PROVE AuditInv'
  <2>1. /\ Sequential!Frees(p) /\ UNCHANGED <<run, batches>>
        /\ UNCHANGED <<outcome, sound, checkpoints, breaks>>
        /\ Audit!Ends \/ UNCHANGED audit
    BY <1>19, SameSubmission DEF Audit!submissionVars, submission, Audit!LateAnswer
  <2>2. MayTurn(audit')
    BY <1>0, <2>1, EndsWell
  <2>3. Serves
    BY <1>0, <2>1, SubmissionFrees DEF Serves
  <2> QED
    BY <1>5, <1>7, <2>1, <2>2, <2>3
<1>20. ASSUME NEW x \in Keys, Audit!ValidationsEnd(x) PROVE AuditInv'
  <2>1. /\ UNCHANGED submission /\ UNCHANGED <<sound, checkpoints, audit, breaks>>
        /\ \E o \in {"open", "completed", "failed"} :
              /\ <<outcome[x], o>> \in {<<"open", "completed">>, <<"open", "failed">>,
                                        <<"failed", "open">>}
              /\ outcome' = [outcome EXCEPT ![x] = o]
    BY <1>20, SameSubmission DEF Audit!submissionVars, submission, Audit!ValidationsEnd
  <2>2. PICK o \in {"open", "completed", "failed"} :
           outcome[x] # "completed" /\ outcome' = [outcome EXCEPT ![x] = o]
    BY <2>1
  <2>3. /\ outcome' \in [Keys -> {"open", "completed", "failed"}] /\ AuditKeeps
        /\ sound' \in [Keys -> BOOLEAN]
    BY <1>0, <2>1, <2>2 DEF AuditTypes, AuditKeeps
  <2>4. Counts /\ Serves /\ MayTurn(audit')
    <3>1. MayTurn(audit')
      BY <1>0, <2>1
    <3> QED
      BY <1>3, <1>5, <2>1, <3>1
  <2> QED
    BY <1>0, <2>1, <2>3, <2>4, AuditHolds DEF Counts, Serves
<1>21. ASSUME NEW x \in Keys, Audit!Disappoints(x) PROVE AuditInv'
  <2>1. /\ UNCHANGED submission /\ UNCHANGED <<outcome, checkpoints, audit, breaks>>
        /\ run[x] = "running" /\ sound' = [sound EXCEPT ![x] = FALSE]
    BY <1>21, SameSubmission DEF Audit!submissionVars, submission, Audit!Disappoints
  <2>2. /\ outcome' \in [Keys -> {"open", "completed", "failed"}] /\ AuditKeeps
        /\ sound' \in [Keys -> BOOLEAN]
    BY <1>0, <2>1 DEF AuditTypes, AuditKeeps
  <2>3. MayTurn(audit')
    BY <1>0, <2>1
  <2>4. Counts /\ Serves
    BY <1>3, <1>5, <2>1
  <2> QED
    BY <1>0, <2>1, <2>2, <2>3, <2>4, AuditHolds DEF Counts, Serves
<1>22. CASE Audit!SubmissionNext /\ UNCHANGED <<outcome, sound, checkpoints, audit, breaks>>
  <2>1. Serves
    BY <1>0, <1>22, SameSubmission, SubmissionServes DEF Serves
  <2>2. MayTurn(audit')
    BY <1>0, <1>22
  <2> QED
    BY <1>5, <1>7, <1>22, <2>1, <2>2
<1>23. CASE UNCHANGED <<submission, auditing>>
  <2>1. UNCHANGED submission /\ UNCHANGED <<outcome, sound, checkpoints, audit, breaks>>
    BY <1>23 DEF submission, auditing
  <2>2. MayTurn(audit')
    BY <1>0, <2>1
  <2> QED
    BY <1>3, <1>5, <1>7, <2>1, <2>2
<1> QED
  BY <1>10, <1>11, <1>12, <1>13, <1>14, <1>15, <1>16, <1>17, <1>18, <1>19, <1>20, <1>21,
     <1>22, <1>23 DEF Audit!Next

-----------------------------------------------------------------------------

LEMMA NoStepOfTheBatch ==
    ASSUME SequentialInv, SubmissionInv', focus # "sequential", focus' = focus, UNCHANGED sequential
    PROVE  SequentialInv'
BY DEF SequentialInv, SequentialTypes, sequential

LEMMA NoStepOfTheAudit ==
    ASSUME AuditInv, SubmissionInv', focus # "audit", focus' = focus, UNCHANGED auditing
    PROVE  AuditInv'
BY DEF AuditInv, AuditTypes, auditing, Audit!Checkpoint, Audit!Statuses

\* One of the scripts submits, or nobody does.
LEMMA ScriptsStep ==
    ASSUME ScriptsAssumption, SequentialInv, AuditInv, [OperationsNext]_all
    PROVE  SequentialInv' /\ AuditInv'
<1>1. CASE focus = "sequential"
  <2>1. SequentialInv'
    BY <1>1, OperationsStep, SequentialStep
  <2>2. SubmissionInv'
    BY <2>1 DEF SequentialInv
  <2> QED
    BY <1>1, <2>1, <2>2, OperationsStep, NoStepOfTheAudit
<1>2. CASE focus = "audit"
  <2>1. AuditInv'
    BY <1>2, OperationsStep, AuditStep
  <2>2. SubmissionInv'
    BY <2>1 DEF AuditInv
  <2> QED
    BY <1>2, <2>1, <2>2, OperationsStep, NoStepOfTheBatch
<1>3. CASE focus \notin {"sequential", "audit"}
  <2>1. UNCHANGED submission
    BY <1>3, OperationsStep
  <2>2. SubmissionInv'
    BY <2>1 DEF submission, AuditInv, SubmissionInv, Sequential!Statuses
  <2> QED
    BY <1>3, <2>2, OperationsStep, NoStepOfTheBatch, NoStepOfTheAudit
<1> QED
  BY <1>1, <1>2, <1>3

\* The invariants say what the scripts promise.
LEMMA BatchIsSafe ==
    ASSUME ScriptsAssumption, SequentialInv
    PROVE  /\ Sequential!OneBatchPerKey
           /\ focus = "sequential" => Sequential!DatesInOrder /\ Sequential!CompletedIsComplete
<1>1. Sequential!OneBatchPerKey
  BY DEF SequentialInv, SubmissionInv, Sequential!OneBatchPerKey
<1>2. ASSUME focus = "sequential" PROVE Sequential!DatesInOrder
  <2> SUFFICES ASSUME NEW s \in Symbols, NEW d \in 1 .. LastDate, d > 1, run[<<s, d>>] # "absent"
               PROVE  run[<<s, d - 1>>] = "succeeded"
    BY DEF Sequential!DatesInOrder, Sequential!AnalysisDates
  <2> DEFINE k == <<s, d>>
  <2>1. k \in Keys /\ k[1] = s /\ k[2] = d /\ run[k] # "absent"
    BY KeysAre
  <2> HIDE DEF k
  <2>2. \A e \in 1 .. d - 1 : run[<<s, e>>] = "succeeded"
    BY <1>2, <2>1 DEF SequentialInv, InTurn
  <2>3. d - 1 \in 1 .. d - 1
    BY DEF ScriptsAssumption
  <2> QED
    BY <2>2, <2>3
<1>3. ASSUME focus = "sequential" PROVE Sequential!CompletedIsComplete
  BY <1>3 DEF SequentialInv, TracksAreSeries, RecordsAreTrue, Sequential!CompletedIsComplete,
              Sequential!AnalysisDates
<1> QED
  BY <1>1, <1>2, <1>3

LEMMA AuditIsSafe ==
    ASSUME ScriptsAssumption, AuditInv
    PROVE  /\ Audit!PassedIsProven
           /\ focus = "audit" => Audit!CheckpointsInOrder
<1>1. Audit!PassedIsProven
  BY DEF AuditInv, Audit!PassedIsProven
<1>2. ASSUME focus = "audit" PROVE Audit!CheckpointsInOrder
  <2> SUFFICES ASSUME NEW d \in 1 .. LastDate, d > 1, run[Audit!KeyOf(d)] # "absent"
               PROVE  Assessed(d - 1)
    BY DEF Audit!CheckpointsInOrder, Assessed
  <2>1. AssessedBefore(d)
    BY <1>2 DEF AuditInv, AuditProceeds
  <2>2. d - 1 \in 1 .. d - 1
    BY DEF ScriptsAssumption
  <2> QED
    BY <2>1, <2>2 DEF AssessedBefore
<1> QED
  BY <1>1, <1>2

\* The scripts of operators.  Wherever the synchronisation with Keycloak is
\* interrupted nobody has lost their last role, nor an administrator that role, and
\* a plan that is carried out leaves nothing to do; whatever requests are left to
\* themselves and however often the scripts are started again, a key has one batch,
\* no date is begun before the ones before it are done, and a track that is completed
\* or a checkpoint that is passed is what it says.
THEOREM Scripts ==
    ASSUME ScriptsAssumption, IsFiniteSet(Members)
    PROVE  OperationsSpec => ScriptsAreSafe
<1> DEFINE ScriptsInv == SyncInv /\ SequentialInv /\ AuditInv
<1>1. OperationsInit => ScriptsInv
  BY SyncInit, SequentialStarts, AuditStarts DEF OperationsInit
<1>2. ScriptsInv /\ [OperationsNext]_all => ScriptsInv'
  BY SynchronisationStep, ScriptsStep, OperationsStep
<1>3. ScriptsInv /\ [OperationsNext]_all =>
        [\A m \in Members : /\ roles[m] # {} => roles'[m] # {}
                            /\ "Admin" \in roles[m] => "Admin" \in roles'[m]]_(Sync!vars)
  BY SynchronisationStep, OperationsStep DEF KeepsRoles, sync, Sync!vars
<1>4. ScriptsInv =>
        /\ Sync!OneRunConverges /\ Sequential!OneBatchPerKey /\ Audit!PassedIsProven
        /\ focus = "sequential" => Sequential!DatesInOrder /\ Sequential!CompletedIsComplete
        /\ focus = "audit" => Audit!CheckpointsInOrder
  BY SyncConverges, BatchIsSafe, AuditIsSafe
<1> HIDE DEF ScriptsInv
<1> QED
  BY <1>1, <1>2, <1>3, <1>4, PTL DEF OperationsSpec, ScriptsAreSafe, Sync!NobodyLosesTheirRole

-----------------------------------------------------------------------------
(* Rows, accounts, verdicts and state files *)

LEMMA SubmissionTyped ==
    ASSUME SubmissionInv PROVE Sequential!SubmissionTypeOK /\ Audit!SubmissionTypeOK
<1>1. run \in [Keys -> Sequential!Statuses] /\ Audit!Statuses = Sequential!Statuses
  BY SameSubmission DEF SubmissionInv
<1>2. batches \in [Keys -> Nat]
  BY DEF SubmissionInv
<1>3. post \in [Posts -> [pc : {"free", "find", "create", "found", "error"},
                         key : Keys \cup {None}]]
  <2>1. {"free"} \cup Served = {"free", "find", "create", "found", "error"}
    BY DEF Served
  <2> QED
    BY <2>1 DEF SubmissionInv
<1> QED
  BY <1>1, <1>2, <1>3 DEF Sequential!SubmissionTypeOK, Audit!SubmissionTypeOK

\* Together the invariants of the parts are inductive, and they say of every row, role,
\* state file and verdict what it may be.
PartsInv ==
    /\ IdentityInv /\ SyncInv /\ SequentialInv /\ AuditInv
    /\ IntegrityInv /\ RunInv /\ L!IInv /\ L!VInv

LEMMA PartsTyped == ASSUME PartsInv PROVE OperationsTypeOK
<1>1. TypeOK /\ Sync!TypeOK /\ Integrity!TypeOK
  BY SyncTyped, RunTyped DEF PartsInv, IdentityInv
<1>2. Sequential!TypeOK
  BY SubmissionTyped DEF PartsInv, SequentialInv, SequentialTypes, Sequential!TypeOK
<1>3. Audit!TypeOK
  BY SubmissionTyped DEF PartsInv, AuditInv, AuditTypes, Audit!TypeOK
<1>4. Ledger!TypeOK
  BY L!ProperIs, SameLedger DEF PartsInv
<1> QED
  BY <1>1, <1>2, <1>3, <1>4 DEF OperationsTypeOK

\* Whoever administers, synchronises, submits, runs, audits, retries and deletes, and
\* wherever they break off: an account has a formal role or none, a state file records a
\* status of its run, a verdict is one of the policy, each verdict and snapshot of a run
\* is there once, and an attempt that is over has left nothing in the process.
THEOREM WellFormed ==
    ASSUME RunAssumption, ScriptsAssumption, IsFiniteSet(Members), L!RowsAssumption
    PROVE  OperationsSpec => []OperationsTypeOK
<1>1. OperationsInit => PartsInv
  <2>1. OperationsInit => IdentityInv /\ SyncInv /\ SequentialInv /\ AuditInv
    BY IdentityInit, SyncInit, SequentialStarts, AuditStarts DEF OperationsInit
  <2>2. OperationsInit => IntegrityInv /\ RunInv
    BY IntegrityInit, RunInit DEF OperationsInit
  <2>3. OperationsInit => L!IInv /\ L!VInv
    BY L!InitInv, L!InitProper, SameLedger DEF OperationsInit
  <2> QED
    BY <2>1, <2>2, <2>3 DEF PartsInv
<1>2. PartsInv /\ [OperationsNext]_all => PartsInv'
  <2> SUFFICES ASSUME PartsInv, [OperationsNext]_all PROVE PartsInv'
    OBVIOUS
  <2>1. IdentityInv'
    BY IdentityStep, OperationsStep DEF PartsInv, identity
  <2>2. SyncInv'
    BY SynchronisationStep, OperationsStep DEF PartsInv
  <2>3. SequentialInv' /\ AuditInv'
    BY ScriptsStep DEF PartsInv
  <2>4. IntegrityInv' /\ RunInv'
    BY IntegrityStep, RunStep, OperationsStep DEF PartsInv
  <2>5. L!IInv' /\ L!VInv'
    BY L!Inductive, L!InductiveProper, LedgerStep DEF PartsInv
  <2> QED
    BY <2>1, <2>2, <2>3, <2>4, <2>5 DEF PartsInv
<1>3. PartsInv => OperationsTypeOK
  BY PartsTyped
<1> QED
  BY <1>1, <1>2, <1>3, PTL DEF OperationsSpec

-----------------------------------------------------------------------------
(* Prices: fractions, and products of them over days *)

\* A price or a return: something over something that is not nothing.
Pair == Nat \X Pos
\* The same number, in lowest terms or not.
SameValue(p, q) == p[1] * q[2] = q[1] * p[2]

\* A positive factor can be cancelled.
LEMMA Cancel ==
    \A a, b \in Int, k \in Pos : /\ a * k = b * k => a = b
                                 /\ a * k <= b * k <=> a <= b
<1> SUFFICES ASSUME NEW a \in Int, NEW b \in Int, NEW k \in Pos
             PROVE  (a * k = b * k => a = b) /\ (a * k <= b * k <=> a <= b)
  OBVIOUS
<1>1. ASSUME NEW x \in Int, NEW y \in Int, x < y PROVE x * k < y * k
  <2>1. (y - x) \in Int /\ (y - x) > 0 /\ k \in Int /\ k > 0
    BY <1>1 DEF Pos
  <2>2. (y - x) * k > 0
    BY <2>1
  <2>3. (y - x) * k = y * k - x * k
    BY <2>1
  <2>4. x * k \in Int /\ y * k \in Int
    BY <2>1
  <2> QED
    BY <2>2, <2>3, <2>4
<1>2. a * k \in Int /\ b * k \in Int
  BY DEF Pos
<1>3. a < b \/ b < a \/ a = b
  OBVIOUS
<1> QED
  BY <1>1, <1>2, <1>3

\* Products of positive numbers are positive,
LEMMA Positive ==
    \A a, b \in Pos : a * b \in Pos
<1> SUFFICES ASSUME NEW a \in Pos, NEW b \in Pos PROVE a * b \in Pos
  OBVIOUS
<1>1. a \in Int /\ b \in Int /\ a > 0 /\ b > 0
  BY DEF Pos
<1>2. a * b > 0 /\ a * b \in Int
  BY <1>1
<1> QED
  BY <1>2 DEF Pos

\* and those of natural numbers natural.
LEMMA Natural ==
    \A a, b \in Nat : a * b \in Nat
<1> SUFFICES ASSUME NEW a \in Nat, NEW b \in Nat PROVE a * b \in Nat
  OBVIOUS
<1> QED
  OBVIOUS

\* A number that divides another leaves nothing, and goes into it that often.
LEMMA Divides ==
    \A a \in Nat, b \in Pos :
       /\ a % b = 0 => (a \div b) \in Nat /\ (a \div b) * b = a
       /\ \A c \in Nat : a = c * b => a % b = 0
<1> SUFFICES ASSUME NEW a \in Nat, NEW b \in Pos
             PROVE  /\ a % b = 0 => (a \div b) \in Nat /\ (a \div b) * b = a
                    /\ \A c \in Nat : a = c * b => a % b = 0
  OBVIOUS
<1>1. a \in Int /\ a >= 0 /\ b \in Int /\ b > 0
  BY DEF Pos
<1>2. a % b = 0 => (a \div b) * b = a
  BY <1>1
<1>3. a % b = 0 => (a \div b) \in Nat
  BY <1>1
<1>4. ASSUME NEW c \in Nat, a = c * b PROVE a % b = 0
  BY <1>1, <1>4
<1> QED
  BY <1>2, <1>3, <1>4

\* By what a fraction may be expanded without leaving whole numbers; the least is
\* its lowest denominator.
Denominators(p) == {k \in 1 .. p[2] : (p[1] * k) % p[2] = 0}
Least(p) == Prices!Min(Denominators(p))

\* There is a lowest denominator: that of the fraction itself is one of them.
LEMMA LeastIs ==
    ASSUME NEW p \in Pair
    PROVE  /\ Least(p) \in Pos /\ Least(p) \in Denominators(p)
           /\ \A k \in Denominators(p) : Least(p) <= k
<1>0. p[1] \in Nat /\ p[2] \in Pos
  BY DEF Pair
<1>1. p[2] \in Denominators(p)
  <2>1. p[1] * p[2] \in Nat /\ p[2] \in 1 .. p[2]
    BY <1>0 DEF Pos
  <2>2. (p[1] * p[2]) % p[2] = 0
    BY <1>0, <2>1, Divides
  <2> QED
    BY <2>1, <2>2 DEF Denominators
<1>2. Denominators(p) \in SUBSET Nat /\ Denominators(p) \subseteq Pos
  BY <1>0 DEF Denominators, Pos
<1>3. \E x \in Denominators(p) : \A y \in Denominators(p) : x <= y
  BY <1>1, <1>2, L!LeastOf
<1>4. Least(p) \in Denominators(p) /\ \A k \in Denominators(p) : Least(p) <= k
  BY <1>3 DEF Least, Prices!Min
<1> QED
  BY <1>2, <1>4

\* In lowest terms a fraction is the same number.
LEMMA ReducedIs ==
    ASSUME NEW p \in Pair
    PROVE  /\ Prices!Reduced(p) \in Pair /\ SameValue(Prices!Reduced(p), p)
           /\ Prices!Reduced(p)[2] = Least(p)
<1> DEFINE n == p[1] * Least(p)
<1>0. p[1] \in Nat /\ p[2] \in Pos
  BY DEF Pair
<1>1. Least(p) \in Pos /\ n \in Nat /\ n % p[2] = 0
  BY <1>0, LeastIs DEF Denominators, Pos
<1>2. Prices!Reduced(p) = <<n \div p[2], Least(p)>>
  BY DEF Prices!Reduced, Least, Denominators
<1> HIDE DEF n
<1>3. (n \div p[2]) \in Nat /\ (n \div p[2]) * p[2] = n
  BY <1>0, <1>1, Divides
<1>4. Prices!Reduced(p)[1] = n \div p[2] /\ Prices!Reduced(p)[2] = Least(p)
  BY <1>2
<1> QED
  BY <1>1, <1>2, <1>3, <1>4 DEF Pair, SameValue, n

\* Fractions that are the same number have the same denominators.
LEMMA SameDenominators ==
    ASSUME NEW p \in Pair, NEW q \in Pair, SameValue(p, q), NEW k \in Pos,
           (p[1] * k) % p[2] = 0
    PROVE  (q[1] * k) % q[2] = 0
<1> DEFINE a == p[1]
           b == p[2]
           c == q[1]
           d == q[2]
           m == (a * k) \div b
<1>0. a \in Nat /\ b \in Pos /\ c \in Nat /\ d \in Pos /\ a * d = c * b /\ k \in Int
  BY DEF Pair, SameValue, Pos
<1>1. a * k \in Nat /\ c * k \in Nat
  BY <1>0 DEF Pos
<1>2. m \in Nat /\ m * b = a * k
  BY <1>0, <1>1, Divides
<1> HIDE DEF a, b, c, d, m
<1>3. (m * d) * b = (c * k) * b
  <2>1. b \in Int /\ d \in Int /\ a \in Int /\ c \in Int /\ m \in Int
    BY <1>0, <1>2 DEF Pos
  <2>2. (m * d) * b = (m * b) * d
    BY <2>1
  <2>3. (m * b) * d = (a * k) * d
    BY <1>2
  <2>4. (a * k) * d = (a * d) * k
    BY <1>0, <2>1
  <2>5. (a * d) * k = (c * b) * k
    BY <1>0
  <2>6. (c * b) * k = (c * k) * b
    BY <1>0, <2>1
  <2> QED
    BY <2>2, <2>3, <2>4, <2>5, <2>6
<1>4. m * d = c * k
  <2>1. m * d \in Int /\ c * k \in Int
    BY <1>0, <1>1, <1>2 DEF Pos
  <2> QED
    BY <1>0, <1>3, <2>1, Cancel
<1>5. (c * k) % d = 0
  BY <1>0, <1>1, <1>2, <1>4, Divides
<1> QED
  BY <1>5 DEF c, d

\* No way to write a number has a lower denominator than another.
LEMMA LeastIsLeast ==
    ASSUME NEW p \in Pair, NEW q \in Pair, SameValue(p, q)
    PROVE  Least(q) <= Least(p)
<1>0. p[2] \in Pos /\ q[2] \in Pos
  BY DEF Pair
<1>1. Least(p) \in Pos /\ (p[1] * Least(p)) % p[2] = 0
  BY LeastIs DEF Denominators
<1>2. (q[1] * Least(p)) % q[2] = 0
  BY <1>1, SameDenominators
<1>3. Least(q) \in 1 .. q[2] /\ \A k \in Denominators(q) : Least(q) <= k
  BY LeastIs DEF Denominators
<1>4. CASE Least(p) <= q[2]
  <2>1. Least(p) \in Denominators(q)
    BY <1>0, <1>1, <1>2, <1>4 DEF Denominators, Pos
  <2> QED
    BY <1>3, <2>1
<1>5. CASE ~(Least(p) <= q[2])
  BY <1>0, <1>1, <1>3, <1>5 DEF Pos
<1> QED
  BY <1>4, <1>5

\* Being the same number is symmetric,
LEMMA SameTurns ==
    \A p, q \in Pair : SameValue(p, q) => SameValue(q, p)
BY DEF SameValue

\* and transitive.
LEMMA SameJoins ==
    ASSUME NEW p \in Pair, NEW q \in Pair, NEW r \in Pair, SameValue(p, q), SameValue(q, r)
    PROVE  SameValue(p, r)
<1> DEFINE a == p[1]
           b == p[2]
           c == q[1]
           d == q[2]
           e == r[1]
           f == r[2]
<1>0. /\ a \in Int /\ b \in Int /\ c \in Int /\ d \in Int /\ e \in Int /\ f \in Int
      /\ d \in Pos /\ a * d = c * b /\ c * f = e * d
  BY DEF Pair, SameValue, Pos
<1>1. SameValue(p, r) <=> a * f = e * b
  BY DEF SameValue
<1> HIDE DEF a, b, c, d, e, f
<1>2. (a * f) * d = (e * b) * d
  <2>1. (a * f) * d = (a * d) * f
    BY <1>0
  <2>2. (a * d) * f = (c * b) * f
    BY <1>0
  <2>3. (c * b) * f = (c * f) * b
    BY <1>0
  <2>4. (c * f) * b = (e * d) * b
    BY <1>0
  <2>5. (e * d) * b = (e * b) * d
    BY <1>0
  <2> QED
    BY <2>1, <2>2, <2>3, <2>4, <2>5
<1>3. a * f \in Int /\ e * b \in Int
  BY <1>0
<1> QED
  BY <1>0, <1>1, <1>2, <1>3, Cancel

\* What is the same number has the same lowest terms.
LEMMA ReducedSame ==
    ASSUME NEW p \in Pair, NEW q \in Pair, SameValue(p, q)
    PROVE  Prices!Reduced(p) = Prices!Reduced(q)
<1> DEFINE a == Prices!Reduced(p)
           b == Prices!Reduced(q)
<1>1. /\ a \in Pair /\ SameValue(a, p) /\ a[2] = Least(p)
      /\ b \in Pair /\ SameValue(b, q) /\ b[2] = Least(q)
  BY ReducedIs
<1>2. Least(p) = Least(q)
  <2>1. Least(p) \in Pos /\ Least(q) \in Pos
    BY LeastIs
  <2>2. Least(p) <= Least(q) /\ Least(q) <= Least(p)
    BY SameTurns, LeastIsLeast
  <2> QED
    BY <2>1, <2>2 DEF Pos
<1> HIDE DEF a, b
<1>3. SameValue(a, b)
  BY <1>1, SameTurns, SameJoins
<1>4. a[1] = b[1]
  <2>1. a[1] \in Int /\ b[1] \in Int /\ a[2] = b[2] /\ a[2] \in Pos
    BY <1>1, <1>2 DEF Pair
  <2>2. a[1] * a[2] = b[1] * a[2]
    BY <1>3, <2>1 DEF SameValue
  <2> QED
    BY <2>1, <2>2, Cancel
<1>5. a = <<a[1], a[2]>> /\ b = <<b[1], b[2]>>
  BY <1>1 DEF Pair
<1>6. a = b
  BY <1>1, <1>2, <1>4, <1>5
<1> QED
  BY <1>6 DEF a, b

\* What is in lowest terms.
Frac == {p \in Pair : Prices!Reduced(p) = p}

\* What has been reduced cannot be reduced again.
LEMMA ReducedIsFrac ==
    ASSUME NEW p \in Pair PROVE Prices!Reduced(p) \in Frac
BY ReducedIs, ReducedSame DEF Frac

\* What products, quotients and sums of numbers are, however they are written.
LEMMA TimesSame ==
    ASSUME NEW p \in Pair, NEW q \in Pair, NEW r \in Pair, NEW s \in Pair,
           SameValue(p, r), SameValue(q, s)
    PROVE  Prices!Times(p, q) = Prices!Times(r, s)
<1> DEFINE x == <<p[1] * q[1], p[2] * q[2]>>
           y == <<r[1] * s[1], r[2] * s[2]>>
<1>0. /\ p[1] \in Nat /\ q[1] \in Nat /\ r[1] \in Nat /\ s[1] \in Nat
      /\ p[2] \in Pos /\ q[2] \in Pos /\ r[2] \in Pos /\ s[2] \in Pos
  BY DEF Pair
<1>1. x \in Pair /\ y \in Pair
  BY <1>0, Natural, Positive DEF Pair
<1>2. p[1] * r[2] = r[1] * p[2] /\ q[1] * s[2] = s[1] * q[2]
  BY DEF SameValue
<1>3. (p[1] * q[1]) * (r[2] * s[2]) = (r[1] * s[1]) * (p[2] * q[2])
  <2>1. ASSUME NEW a \in Int, NEW b \in Int, NEW c \in Int, NEW d \in Int,
               NEW e \in Int, NEW f \in Int, NEW g \in Int, NEW h \in Int,
               a * f = e * b, c * h = g * d
        PROVE  (a * c) * (f * h) = (e * g) * (b * d)
    <3>1. (a * c) * (f * h) = (a * f) * (c * h)
      OBVIOUS
    <3>2. (a * f) * (c * h) = (e * b) * (g * d)
      BY <2>1
    <3>3. (e * b) * (g * d) = (e * g) * (b * d)
      OBVIOUS
    <3> QED
      BY <3>1, <3>2, <3>3
  <2> QED
    BY <1>0, <1>2, <2>1 DEF Pos
<1>4. SameValue(x, y)
  BY <1>3 DEF SameValue
<1> HIDE DEF x, y
<1>5. Prices!Reduced(x) = Prices!Reduced(y)
  BY <1>1, <1>4, ReducedSame
<1> QED
  BY <1>5 DEF Prices!Times, x, y

\* A product is in lowest terms and does not depend on the order.
LEMMA TimesIs ==
    ASSUME NEW p \in Pair, NEW q \in Pair
    PROVE  /\ Prices!Times(p, q) = Prices!Reduced(<<p[1] * q[1], p[2] * q[2]>>)
           /\ Prices!Times(p, q) \in Frac
           /\ Prices!Times(p, q) = Prices!Times(q, p)
           /\ <<p[1] * q[1], p[2] * q[2]>> \in Pair
<1>0. p[1] \in Nat /\ q[1] \in Nat /\ p[2] \in Pos /\ q[2] \in Pos
  BY DEF Pair
<1>1. <<p[1] * q[1], p[2] * q[2]>> \in Pair
  BY <1>0, Natural, Positive DEF Pair
<1>2. p[1] * q[1] = q[1] * p[1] /\ p[2] * q[2] = q[2] * p[2]
  BY <1>0 DEF Pos
<1> QED
  BY <1>1, <1>2, ReducedIsFrac DEF Prices!Times

\* A fraction is the same number as itself, and as itself in lowest terms.
LEMMA SameItself ==
    \A p \in Pair : /\ SameValue(p, p) /\ SameValue(Prices!Reduced(p), p)
                    /\ Prices!Reduced(p) \in Pair
BY ReducedIs DEF SameValue

\* Products associate.
LEMMA TimesAssociates ==
    ASSUME NEW p \in Pair, NEW q \in Pair, NEW r \in Pair
    PROVE  Prices!Times(Prices!Times(p, q), r) = Prices!Times(p, Prices!Times(q, r))
<1> DEFINE x == <<p[1] * q[1], p[2] * q[2]>>
           y == <<q[1] * r[1], q[2] * r[2]>>
<1>0. /\ p[1] \in Nat /\ q[1] \in Nat /\ r[1] \in Nat
      /\ p[2] \in Pos /\ q[2] \in Pos /\ r[2] \in Pos
  BY DEF Pair
<1>1. /\ Prices!Times(p, q) = Prices!Reduced(x) /\ x \in Pair
      /\ Prices!Times(q, r) = Prices!Reduced(y) /\ y \in Pair
  BY TimesIs
<1>2. Prices!Times(x, r) = Prices!Times(p, y)
  <2>1. /\ (p[1] * q[1]) * r[1] = p[1] * (q[1] * r[1])
        /\ (p[2] * q[2]) * r[2] = p[2] * (q[2] * r[2])
    BY <1>0 DEF Pos
  <2> QED
    BY <2>1 DEF Prices!Times
<1> HIDE DEF x, y
<1>3. Prices!Times(Prices!Reduced(x), r) = Prices!Times(x, r)
  BY <1>1, SameItself, TimesSame
<1>4. Prices!Times(p, Prices!Reduced(y)) = Prices!Times(p, y)
  BY <1>1, SameItself, TimesSame
<1> QED
  BY <1>1, <1>2, <1>3, <1>4

\* What a share is worth of itself.
One == <<1, 1>>

\* One changes nothing, and whole numbers are in lowest terms.
LEMMA OneIs ==
    /\ One \in Frac /\ One \in Pair /\ One[1] = 1 /\ One[2] = 1
    /\ \A n \in Nat : <<n, 1>> \in Frac /\ <<n, 1>>[1] = n /\ <<n, 1>>[2] = 1
    /\ \A p \in Pair : Prices!Times(p, One) = Prices!Reduced(p)
    /\ \A p \in Frac : p \in Pair /\ Prices!Reduced(p) = p
<1>1. ASSUME NEW n \in Nat PROVE <<n, 1>> \in Frac /\ <<n, 1>>[1] = n /\ <<n, 1>>[2] = 1
  <2> DEFINE p == <<n, 1>>
  <2>1. p \in Pair /\ p[1] = n /\ p[2] = 1
    BY DEF Pair, Pos
  <2> HIDE DEF p
  <2>2. Prices!Reduced(p)[2] = 1 /\ Prices!Reduced(p) \in Pair /\ SameValue(Prices!Reduced(p), p)
    BY <2>1, ReducedIs, LeastIs DEF Denominators, Pos
  <2>3. Prices!Reduced(p)[1] = n
    BY <2>1, <2>2 DEF SameValue, Pair
  <2>4. Prices!Reduced(p) = p
    BY <2>1, <2>2, <2>3 DEF Pair
  <2> QED
    BY <2>1, <2>4 DEF Frac, p
<1>2. One \in Frac /\ One \in Pair /\ One[1] = 1 /\ One[2] = 1
  BY <1>1 DEF One, Frac
<1>3. ASSUME NEW p \in Pair PROVE Prices!Times(p, One) = Prices!Reduced(p)
  <2>1. p[1] * 1 = p[1] /\ p[2] * 1 = p[2] /\ p = <<p[1], p[2]>>
    BY DEF Pair, Pos
  <2> QED
    BY <1>2, <2>1 DEF Prices!Times
<1> QED
  BY <1>1, <1>2, <1>3 DEF Frac

\* A quotient is the product with the reciprocal.
LEMMA OverIs ==
    ASSUME NEW p \in Pair, NEW q \in Pair, q[1] # 0
    PROVE  /\ Prices!Over(p, q) = Prices!Reduced(<<p[1] * q[2], p[2] * q[1]>>)
           /\ <<p[1] * q[2], p[2] * q[1]>> \in Pair
           /\ Prices!Over(p, q) \in Frac
           /\ <<q[2], q[1]>> \in Pair /\ Prices!Over(p, q) = Prices!Times(p, <<q[2], q[1]>>)
<1> DEFINE u == <<q[2], q[1]>>
<1>1. u \in Pair /\ u[1] = q[2] /\ u[2] = q[1]
  BY DEF Pair, Pos
<1>2. Prices!Over(p, q) = Prices!Times(p, u)
  BY <1>1 DEF Prices!Over, Prices!Times
<1> HIDE DEF u
<1>3. /\ Prices!Times(p, u) = Prices!Reduced(<<p[1] * q[2], p[2] * q[1]>>)
      /\ <<p[1] * q[2], p[2] * q[1]>> \in Pair /\ Prices!Times(p, u) \in Frac
  BY <1>1, TimesIs
<1> QED
  BY <1>1, <1>2, <1>3 DEF u

\* A quotient of the same numbers is the same.
LEMMA OverSame ==
    \A p, q, r, s \in Pair : (SameValue(p, r) /\ SameValue(q, s) /\ q[1] # 0 /\ s[1] # 0)
                               => Prices!Over(p, q) = Prices!Over(r, s)
<1> SUFFICES ASSUME NEW p \in Pair, NEW q \in Pair, NEW r \in Pair, NEW s \in Pair,
                    SameValue(p, r), SameValue(q, s), q[1] # 0, s[1] # 0
             PROVE  Prices!Over(p, q) = Prices!Over(r, s)
  OBVIOUS
<1> DEFINE u == <<q[2], q[1]>>
           v == <<s[2], s[1]>>
<1>1. u \in Pair /\ v \in Pair /\ u[1] = q[2] /\ u[2] = q[1] /\ v[1] = s[2] /\ v[2] = s[1]
  BY DEF Pair, Pos
<1>2. Prices!Over(p, q) = Prices!Times(p, u) /\ Prices!Over(r, s) = Prices!Times(r, v)
  BY OverIs
<1> HIDE DEF u, v
<1>3. SameValue(u, v)
  <2>1. q[1] * s[2] = s[1] * q[2]
    BY DEF SameValue
  <2>2. q[1] \in Int /\ q[2] \in Int /\ s[1] \in Int /\ s[2] \in Int
    BY DEF Pair, Pos
  <2>3. q[2] * s[1] = s[2] * q[1]
    BY <2>1, <2>2
  <2> QED
    BY <1>1, <2>3 DEF SameValue
<1>4. Prices!Times(p, u) = Prices!Times(r, v)
  BY <1>1, <1>3, TimesSame
<1> QED
  BY <1>2, <1>4

\* A sum is in lowest terms.
LEMMA SumIs ==
    ASSUME NEW p \in Pair, NEW q \in Pair
    PROVE  /\ Prices!Sum(p, q) = Prices!Reduced(<<p[1] * q[2] + q[1] * p[2], p[2] * q[2]>>)
           /\ <<p[1] * q[2] + q[1] * p[2], p[2] * q[2]>> \in Pair
<1>1. /\ p[1] \in Nat /\ q[1] \in Nat /\ p[2] \in Pos /\ q[2] \in Pos
      /\ p[2] \in Nat /\ q[2] \in Nat
  BY DEF Pair, Pos
<1>2. p[1] * q[2] \in Nat /\ q[1] * p[2] \in Nat /\ p[2] * q[2] \in Pos
  BY <1>1, Natural, Positive
<1>3. p[1] * q[2] + q[1] * p[2] \in Nat
  BY <1>2
<1> QED
  BY <1>2, <1>3 DEF Pair, Prices!Sum

\* A sum of the same numbers is the same.
LEMMA SumsAgree ==
    \A p, q, r, s \in Pair : (SameValue(p, r) /\ SameValue(q, s)) => Prices!Sum(p, q) = Prices!Sum(r, s)
<1> SUFFICES ASSUME NEW p \in Pair, NEW q \in Pair, NEW r \in Pair, NEW s \in Pair,
                    SameValue(p, r), SameValue(q, s)
             PROVE  Prices!Sum(p, q) = Prices!Sum(r, s)
  OBVIOUS
<1> DEFINE x == <<p[1] * q[2] + q[1] * p[2], p[2] * q[2]>>
           y == <<r[1] * s[2] + s[1] * r[2], r[2] * s[2]>>
<1>0. /\ p[1] \in Nat /\ q[1] \in Nat /\ r[1] \in Nat /\ s[1] \in Nat
      /\ p[2] \in Pos /\ q[2] \in Pos /\ r[2] \in Pos /\ s[2] \in Pos
      /\ p[2] \in Int /\ q[2] \in Int /\ r[2] \in Int /\ s[2] \in Int
      /\ p[2] \in Nat /\ q[2] \in Nat /\ r[2] \in Nat /\ s[2] \in Nat
      /\ p[1] \in Int /\ q[1] \in Int /\ r[1] \in Int /\ s[1] \in Int
  BY DEF Pair, Pos
<1>1. x \in Pair /\ y \in Pair
  BY SumIs
<1>2. p[1] * r[2] = r[1] * p[2] /\ q[1] * s[2] = s[1] * q[2]
  BY DEF SameValue
<1>3. (p[1] * q[2] + q[1] * p[2]) * (r[2] * s[2]) = (r[1] * s[2] + s[1] * r[2]) * (p[2] * q[2])
  <2> DEFINE a == p[1]
             b == p[2]
             c == q[1]
             d == q[2]
             e == r[1]
             f == r[2]
             g == s[1]
             h == s[2]
  <2>0. /\ a \in Int /\ b \in Int /\ c \in Int /\ d \in Int
        /\ e \in Int /\ f \in Int /\ g \in Int /\ h \in Int
        /\ a * f = e * b /\ c * h = g * d
    BY <1>0, <1>2
  <2> HIDE DEF a, b, c, d, e, f, g, h
  <2>1. (a * d + c * b) * (f * h) = (a * f) * (d * h) + (c * h) * (b * f)
    BY <2>0
  <2>2. (a * f) * (d * h) + (c * h) * (b * f) = (e * b) * (d * h) + (g * d) * (b * f)
    BY <2>0
  <2>3. (e * b) * (d * h) + (g * d) * (b * f) = (e * h + g * f) * (b * d)
    BY <2>0
  <2>4. (a * d + c * b) * (f * h) = (e * h + g * f) * (b * d)
    BY <2>1, <2>2, <2>3
  <2> QED
    BY <2>4 DEF a, b, c, d, e, f, g, h
<1>4. SameValue(x, y)
  BY <1>3 DEF SameValue
<1> HIDE DEF x, y
<1>5. Prices!Reduced(x) = Prices!Reduced(y)
  BY <1>1, <1>4, ReducedSame
<1> QED
  BY <1>5 DEF Prices!Sum, x, y

\* A comparison of the same numbers is the same.
LEMMA AtMostSame ==
    ASSUME NEW p \in Pair, NEW q \in Pair, NEW r \in Pair, NEW s \in Pair,
           SameValue(p, r), SameValue(q, s)
    PROVE  Prices!AtMost(p, q) <=> Prices!AtMost(r, s)
<1> DEFINE a == p[1]
           b == p[2]
           c == q[1]
           d == q[2]
           e == r[1]
           f == r[2]
           g == s[1]
           h == s[2]
<1>0. /\ a \in Int /\ b \in Int /\ c \in Int /\ d \in Int
      /\ e \in Int /\ f \in Int /\ g \in Int /\ h \in Int
      /\ b \in Pos /\ d \in Pos /\ f \in Pos /\ h \in Pos
      /\ a * f = e * b /\ c * h = g * d
  BY DEF Pair, SameValue, Pos
<1>1. /\ Prices!AtMost(p, q) <=> ~(c * b < a * d)
      /\ Prices!AtMost(r, s) <=> ~(g * f < e * h)
  BY DEF Prices!AtMost, Prices!Below
<1> HIDE DEF a, b, c, d, e, f, g, h
<1>2. f * h \in Pos /\ b * d \in Pos
  BY <1>0, Positive
<1>3. a * d \in Int /\ c * b \in Int /\ e * h \in Int /\ g * f \in Int
  BY <1>0
<1>4. (a * d) * (f * h) = (e * h) * (b * d)
  <2>1. (a * d) * (f * h) = (a * f) * (d * h)
    BY <1>0
  <2>2. (a * f) * (d * h) = (e * b) * (d * h)
    BY <1>0
  <2>3. (e * b) * (d * h) = (e * h) * (b * d)
    BY <1>0
  <2> QED
    BY <2>1, <2>2, <2>3
<1>5. (c * b) * (f * h) = (g * f) * (b * d)
  <2>1. (c * b) * (f * h) = (c * h) * (b * f)
    BY <1>0
  <2>2. (c * h) * (b * f) = (g * d) * (b * f)
    BY <1>0
  <2>3. (g * d) * (b * f) = (g * f) * (b * d)
    BY <1>0
  <2> QED
    BY <2>1, <2>2, <2>3
<1>6. a * d <= c * b <=> (a * d) * (f * h) <= (c * b) * (f * h)
  BY <1>2, <1>3, Cancel
<1>7. e * h <= g * f <=> (e * h) * (b * d) <= (g * f) * (b * d)
  BY <1>2, <1>3, Cancel
<1>8. a * d <= c * b <=> e * h <= g * f
  BY <1>4, <1>5, <1>6, <1>7
<1> QED
  BY <1>1, <1>3, <1>8

\* What holds at first, and of a number if of the one before, holds of all.
LEMMA Induct ==
    ASSUME NEW n \in Nat, NEW S, 0 \in S, \A d \in 1 .. n : d - 1 \in S => d \in S
    PROVE  0 .. n \subseteq S
<1> DEFINE Bad == {d \in 0 .. n : d \notin S}
<1> SUFFICES ASSUME Bad # {} PROVE FALSE
  OBVIOUS
<1>1. Bad \in SUBSET Nat
  OBVIOUS
<1>2. PICK d \in Bad : \A e \in Bad : d <= e
  BY <1>1, L!LeastOf
<1>3. d \in 1 .. n
  OBVIOUS
<1>4. d - 1 \in 0 .. n /\ ~(d <= d - 1)
  BY <1>3
<1>5. d - 1 \in S
  BY <1>2, <1>4
<1> QED
  BY <1>3, <1>5

\* What the product is after a day.
WithDay(f, d, before) == IF d \in DOMAIN f THEN Prices!Times(before, f[d]) ELSE before

\* The product is reached one day after the other.
LEMMA ProductIs ==
    ASSUME EndOfTime \in Nat, NEW f, \A d \in DOMAIN f : f[d] \in Pair
    PROVE  \E P \in [0 .. EndOfTime -> Frac] :
              /\ P[0] = One /\ Prices!Product(f) = P[EndOfTime]
              /\ \A d \in 1 .. EndOfTime : P[d] = WithDay(f, d, P[d - 1])
<1> DEFINE Upto(k) == \E P \in [0 .. k -> Frac] :
                         P[0] = One /\ \A d \in 1 .. k : P[d] = WithDay(f, d, P[d - 1])
           S == {k \in 0 .. EndOfTime : Upto(k)}
           Unfolds(P) == P = [d \in 0 .. EndOfTime |->
                                IF d = 0 THEN <<1, 1>>
                                ELSE IF d \in DOMAIN f THEN Prices!Times(P[d - 1], f[d])
                                ELSE P[d - 1]]
<1>1. Upto(0)
  <2> DEFINE P == [d \in 0 .. 0 |-> One]
  <2>1. P \in [0 .. 0 -> Frac] /\ P[0] = One
    BY OneIs
  <2>2. \A d \in 1 .. 0 : FALSE
    OBVIOUS
  <2> HIDE DEF P
  <2> QED
    BY <2>1, <2>2
<1>2. ASSUME NEW k \in 1 .. EndOfTime, Upto(k - 1) PROVE Upto(k)
  <2>1. PICK P \in [0 .. k - 1 -> Frac] :
           P[0] = One /\ \A d \in 1 .. k - 1 : P[d] = WithDay(f, d, P[d - 1])
    BY <1>2
  <2> DEFINE Q == [d \in 0 .. k |-> IF d = k THEN WithDay(f, k, P[k - 1]) ELSE P[d]]
  <2>2. P[k - 1] \in Frac
    BY <2>1
  <2>3. WithDay(f, k, P[k - 1]) \in Frac
    BY <2>2, OneIs, TimesIs DEF WithDay
  <2>4. /\ Q \in [0 .. k -> Frac] /\ Q[k] = WithDay(f, k, P[k - 1])
        /\ \A d \in 0 .. k - 1 : Q[d] = P[d]
    BY <2>1, <2>3
  <2> HIDE DEF Q
  <2>5. Q[0] = One
    BY <2>1, <2>4
  <2>6. ASSUME NEW d \in 1 .. k PROVE Q[d] = WithDay(f, d, Q[d - 1])
    <3>1. d - 1 \in 0 .. k - 1 /\ Q[d - 1] = P[d - 1]
      BY <2>4
    <3>2. CASE d = k
      BY <2>4, <3>1, <3>2
    <3>3. CASE d # k
      <4>1. d \in 1 .. k - 1 /\ d \in 0 .. k - 1
        BY <3>3
      <4> QED
        BY <2>1, <2>4, <3>1, <4>1
    <3> QED
      BY <3>2, <3>3
  <2> QED
    BY <2>4, <2>5, <2>6
<1> HIDE DEF Upto
<1>3. Upto(EndOfTime)
  <2>1. 0 \in S
    BY <1>1
  <2>2. \A d \in 1 .. EndOfTime : d - 1 \in S => d \in S
    BY <1>2
  <2> HIDE DEF S
  <2>3. 0 .. EndOfTime \subseteq S
    BY <2>1, <2>2, Induct
  <2>4. EndOfTime \in S
    BY <2>3
  <2> QED
    BY <2>4 DEF S
<1>4. \E P : Unfolds(P)
  <2>1. PICK P \in [0 .. EndOfTime -> Frac] :
           P[0] = One /\ \A d \in 1 .. EndOfTime : P[d] = WithDay(f, d, P[d - 1])
    BY <1>3 DEF Upto
  <2>2. \A d \in 0 .. EndOfTime : P[d] = IF d = 0 THEN <<1, 1>>
                                         ELSE IF d \in DOMAIN f THEN Prices!Times(P[d - 1], f[d])
                                         ELSE P[d - 1]
    <3>1. \A d \in 0 .. EndOfTime : d = 0 \/ d \in 1 .. EndOfTime
      OBVIOUS
    <3>2. \A d \in 1 .. EndOfTime : d # 0
      OBVIOUS
    <3> QED
      BY <2>1, <3>1, <3>2, Zenon DEF WithDay, One
  <2>3. P = [d \in 0 .. EndOfTime |-> P[d]]
    BY <2>1
  <2>4. Unfolds(P)
    BY <2>2, <2>3
  <2> QED
    BY <2>4
<1> DEFINE R == CHOOSE P : Unfolds(P)
<1>5. Prices!Product(f) = R[EndOfTime]
  BY DEF Prices!Product
<1>6. Unfolds(R)
  <2> HIDE DEF Unfolds
  <2> QED
    BY <1>4
<1>7. /\ R[0] = One
      /\ \A d \in 1 .. EndOfTime : R[d] = WithDay(f, d, R[d - 1])
  <2> HIDE DEF R
  <2>1. \A d \in 0 .. EndOfTime : R[d] = IF d = 0 THEN <<1, 1>>
                                         ELSE IF d \in DOMAIN f THEN Prices!Times(R[d - 1], f[d])
                                         ELSE R[d - 1]
    BY <1>6, Zenon
  <2>2. \A d \in 1 .. EndOfTime : d # 0 /\ d \in 0 .. EndOfTime
    OBVIOUS
  <2>3. 0 \in 0 .. EndOfTime
    OBVIOUS
  <2> QED
    BY <2>1, <2>2, <2>3, Zenon DEF WithDay, One
<1>8. R \in [0 .. EndOfTime -> Frac]
  <2> DEFINE T == {d \in 0 .. EndOfTime : R[d] \in Frac}
  <2> HIDE DEF R
  <2>1. 0 \in T
    BY <1>7, OneIs
  <2>2. ASSUME NEW d \in 1 .. EndOfTime, d - 1 \in T PROVE d \in T
    <3>1. R[d - 1] \in Frac /\ R[d - 1] \in Pair
      BY <2>2, OneIs
    <3>2. WithDay(f, d, R[d - 1]) \in Frac
      BY <3>1, TimesIs DEF WithDay
    <3>3. R[d] \in Frac
      BY <1>7, <3>2
    <3> QED
      BY <3>3
  <2>3. 0 .. EndOfTime \subseteq T
    <3> HIDE DEF T
    <3> QED
      BY <2>1, <2>2, Induct
  <2> QED
    BY <1>6, <2>3
<1> QED
  BY <1>5, <1>7, <1>8

\* The factors of a product may change places.
LEMMA TimesSwaps ==
    ASSUME NEW p \in Pair, NEW q \in Pair, NEW r \in Pair
    PROVE  Prices!Times(Prices!Times(p, q), r) = Prices!Times(Prices!Times(p, r), q)
<1>1. Prices!Times(Prices!Times(p, q), r) = Prices!Times(p, Prices!Times(q, r))
  BY TimesAssociates
<1>2. Prices!Times(Prices!Times(p, r), q) = Prices!Times(p, Prices!Times(r, q))
  BY TimesAssociates
<1>3. Prices!Times(q, r) = Prices!Times(r, q)
  BY TimesIs
<1> QED
  BY <1>1, <1>2, <1>3

\* A product over days is that over some of them times that over the others.
LEMMA ProductJoins ==
    ASSUME EndOfTime \in Nat, NEW f, NEW g, NEW h,
           \A d \in DOMAIN h : h[d] \in Pair,
           DOMAIN h = DOMAIN f \cup DOMAIN g, DOMAIN f \cap DOMAIN g = {},
           \A d \in DOMAIN f : f[d] = h[d], \A d \in DOMAIN g : g[d] = h[d]
    PROVE  Prices!Product(h) = Prices!Times(Prices!Product(f), Prices!Product(g))
<1>0. (\A d \in DOMAIN f : f[d] \in Pair) /\ (\A d \in DOMAIN g : g[d] \in Pair)
  <2>1. \A d \in DOMAIN f : d \in DOMAIN h /\ f[d] = h[d]
    OBVIOUS
  <2>2. \A d \in DOMAIN g : d \in DOMAIN h /\ g[d] = h[d]
    OBVIOUS
  <2> QED
    BY <2>1, <2>2
<1>1. PICK F \in [0 .. EndOfTime -> Frac] :
         /\ F[0] = One /\ Prices!Product(f) = F[EndOfTime]
         /\ \A d \in 1 .. EndOfTime : F[d] = WithDay(f, d, F[d - 1])
  BY <1>0, ProductIs
<1>2. PICK G \in [0 .. EndOfTime -> Frac] :
         /\ G[0] = One /\ Prices!Product(g) = G[EndOfTime]
         /\ \A d \in 1 .. EndOfTime : G[d] = WithDay(g, d, G[d - 1])
  BY <1>0, ProductIs
<1>3. PICK H \in [0 .. EndOfTime -> Frac] :
         /\ H[0] = One /\ Prices!Product(h) = H[EndOfTime]
         /\ \A d \in 1 .. EndOfTime : H[d] = WithDay(h, d, H[d - 1])
  BY ProductIs
<1> DEFINE S == {d \in 0 .. EndOfTime : H[d] = Prices!Times(F[d], G[d])}
<1>4. 0 \in S
  <2>1. Prices!Times(One, One) = One
    <3>1. Prices!Times(One, One) = Prices!Reduced(One)
      BY OneIs
    <3>2. Prices!Reduced(One) = One
      BY OneIs
    <3> QED
      BY <3>1, <3>2
  <2>2. Prices!Times(F[0], G[0]) = One
    BY <1>1, <1>2, <2>1
  <2>3. 0 \in 0 .. EndOfTime /\ H[0] = Prices!Times(F[0], G[0])
    BY <1>3, <2>2
  <2> QED
    BY <2>3
<1>5. ASSUME NEW d \in 1 .. EndOfTime, d - 1 \in S PROVE d \in S
  <2>1. d - 1 \in 0 .. EndOfTime /\ H[d - 1] = Prices!Times(F[d - 1], G[d - 1])
    BY <1>5
  <2>2. F[d - 1] \in Pair /\ G[d - 1] \in Pair
    BY <1>1, <1>2, <2>1, OneIs
  <2>3. /\ F[d] = WithDay(f, d, F[d - 1]) /\ G[d] = WithDay(g, d, G[d - 1])
        /\ H[d] = WithDay(h, d, H[d - 1])
    BY <1>1, <1>2, <1>3
  <2>4. CASE d \in DOMAIN f
    <3>1. d \notin DOMAIN g /\ d \in DOMAIN h /\ f[d] = h[d] /\ f[d] \in Pair
      BY <2>4
    <3>2. H[d] = Prices!Times(Prices!Times(F[d - 1], G[d - 1]), f[d])
      BY <2>1, <2>3, <3>1 DEF WithDay
    <3>3. F[d] = Prices!Times(F[d - 1], f[d]) /\ G[d] = G[d - 1]
      BY <2>3, <2>4, <3>1 DEF WithDay
    <3>4. H[d] = Prices!Times(F[d], G[d])
      BY <2>2, <3>1, <3>2, <3>3, TimesSwaps
    <3> QED
      BY <3>4
  <2>5. CASE d \in DOMAIN g
    <3>1. d \notin DOMAIN f /\ d \in DOMAIN h /\ g[d] = h[d] /\ g[d] \in Pair
      BY <2>5
    <3>2. H[d] = Prices!Times(Prices!Times(F[d - 1], G[d - 1]), g[d])
      BY <2>1, <2>3, <3>1 DEF WithDay
    <3>3. G[d] = Prices!Times(G[d - 1], g[d]) /\ F[d] = F[d - 1]
      BY <2>3, <2>5, <3>1 DEF WithDay
    <3>4. H[d] = Prices!Times(F[d], G[d])
      BY <2>2, <3>1, <3>2, <3>3, TimesAssociates
    <3> QED
      BY <3>4
  <2>6. CASE d \notin DOMAIN f /\ d \notin DOMAIN g
    BY <2>1, <2>3, <2>6 DEF WithDay
  <2> QED
    BY <2>4, <2>5, <2>6
<1> HIDE DEF S
<1>6. 0 .. EndOfTime \subseteq S
  BY <1>4, <1>5, Induct
<1>7. EndOfTime \in S
  BY <1>6
<1> QED
  BY <1>1, <1>2, <1>3, <1>7 DEF S

\* Products of the same numbers are the same.
LEMMA ProductSame ==
    ASSUME EndOfTime \in Nat, NEW f, NEW g, DOMAIN f = DOMAIN g,
           \A d \in DOMAIN f : f[d] \in Pair /\ g[d] \in Pair /\ SameValue(f[d], g[d])
    PROVE  Prices!Product(f) = Prices!Product(g) /\ Prices!Product(f) \in Frac
<1>1. PICK F \in [0 .. EndOfTime -> Frac] :
         /\ F[0] = One /\ Prices!Product(f) = F[EndOfTime]
         /\ \A d \in 1 .. EndOfTime : F[d] = WithDay(f, d, F[d - 1])
  BY ProductIs
<1>2. PICK G \in [0 .. EndOfTime -> Frac] :
         /\ G[0] = One /\ Prices!Product(g) = G[EndOfTime]
         /\ \A d \in 1 .. EndOfTime : G[d] = WithDay(g, d, G[d - 1])
  BY ProductIs
<1> DEFINE S == {d \in 0 .. EndOfTime : F[d] = G[d]}
<1>4. 0 \in S
  BY <1>1, <1>2
<1>5. ASSUME NEW d \in 1 .. EndOfTime, d - 1 \in S PROVE d \in S
  <2>1. d - 1 \in 0 .. EndOfTime /\ F[d - 1] = G[d - 1] /\ F[d - 1] \in Pair
    BY <1>1, <1>5, OneIs
  <2>2. F[d] = WithDay(f, d, F[d - 1]) /\ G[d] = WithDay(g, d, F[d - 1])
    BY <1>1, <1>2, <2>1
  <2>3. CASE d \in DOMAIN f
    <3>1. Prices!Times(F[d - 1], f[d]) = Prices!Times(F[d - 1], g[d])
      BY <2>1, <2>3, TimesSame, SameItself
    <3> QED
      BY <2>2, <2>3, <3>1 DEF WithDay
  <2>4. CASE d \notin DOMAIN f
    BY <2>1, <2>2, <2>4 DEF WithDay
  <2> QED
    BY <2>3, <2>4
<1> HIDE DEF S
<1>6. 0 .. EndOfTime \subseteq S
  BY <1>4, <1>5, Induct
<1>7. EndOfTime \in S
  BY <1>6
<1> QED
  BY <1>1, <1>2, <1>7 DEF S

\* A product of whole numbers is one.
LEMMA ProductWhole ==
    ASSUME EndOfTime \in Nat, NEW f,
           \A d \in DOMAIN f : \E n \in Pos : f[d] = <<n, 1>>
    PROVE  \E n \in Pos : Prices!Product(f) = <<n, 1>>
<1>0. \A n \in Pos : <<n, 1>> \in Pair /\ n \in Nat
  BY DEF Pair, Pos
<1>1. PICK F \in [0 .. EndOfTime -> Frac] :
         /\ F[0] = One /\ Prices!Product(f) = F[EndOfTime]
         /\ \A d \in 1 .. EndOfTime : F[d] = WithDay(f, d, F[d - 1])
  BY <1>0, ProductIs
<1> DEFINE S == {d \in 0 .. EndOfTime : \E n \in Pos : F[d] = <<n, 1>>}
<1>2. 0 \in S
  BY <1>1 DEF One, Pos
<1>3. ASSUME NEW d \in 1 .. EndOfTime, d - 1 \in S PROVE d \in S
  <2>1. F[d] = WithDay(f, d, F[d - 1])
    BY <1>1
  <2>2. PICK n \in Pos : F[d - 1] = <<n, 1>>
    BY <1>3
  <2>3. CASE d \in DOMAIN f
    <3>1. PICK m \in Pos : f[d] = <<m, 1>>
      BY <2>3
    <3>2. F[d] = Prices!Times(<<n, 1>>, <<m, 1>>)
      BY <2>1, <2>2, <2>3, <3>1 DEF WithDay
    <3>3. F[d] = Prices!Reduced(<<n * m, 1 * 1>>)
      BY <3>2 DEF Prices!Times
    <3>4. n * m \in Pos /\ n * m \in Nat /\ 1 * 1 = 1
      BY Positive DEF Pos
    <3>5. F[d] = <<n * m, 1>>
      BY <3>3, <3>4, OneIs
    <3> QED
      BY <3>4, <3>5
  <2>4. CASE d \notin DOMAIN f
    BY <2>1, <2>2, <2>4 DEF WithDay
  <2> QED
    BY <2>3, <2>4
<1> HIDE DEF S
<1>4. 0 .. EndOfTime \subseteq S
  BY <1>2, <1>3, Induct
<1>5. EndOfTime \in S
  BY <1>4
<1> QED
  BY <1>1, <1>5 DEF S

\* Nothing multiplies to one,
LEMMA ProductOfNone ==
    ASSUME EndOfTime \in Nat, NEW f, DOMAIN f = {}
    PROVE  Prices!Product(f) = One
<1>1. PICK F \in [0 .. EndOfTime -> Frac] :
         /\ F[0] = One /\ Prices!Product(f) = F[EndOfTime]
         /\ \A d \in 1 .. EndOfTime : F[d] = WithDay(f, d, F[d - 1])
  BY ProductIs
<1> DEFINE S == {d \in 0 .. EndOfTime : F[d] = One}
<1>2. 0 \in S
  BY <1>1
<1>3. ASSUME NEW d \in 1 .. EndOfTime, d - 1 \in S PROVE d \in S
  BY <1>1, <1>3 DEF WithDay
<1> HIDE DEF S
<1>4. 0 .. EndOfTime \subseteq S
  BY <1>2, <1>3, Induct
<1>5. EndOfTime \in S
  BY <1>4
<1> QED
  BY <1>1, <1>5 DEF S

\* and a single day to its own factor.
LEMMA ProductOfOne ==
    ASSUME EndOfTime \in Nat, NEW f, NEW s \in 1 .. EndOfTime, DOMAIN f = {s}, f[s] \in Frac
    PROVE  Prices!Product(f) = f[s]
<1>0. \A d \in DOMAIN f : f[d] \in Pair
  BY OneIs
<1>1. PICK F \in [0 .. EndOfTime -> Frac] :
         /\ F[0] = One /\ Prices!Product(f) = F[EndOfTime]
         /\ \A d \in 1 .. EndOfTime : F[d] = WithDay(f, d, F[d - 1])
  BY <1>0, ProductIs
<1> DEFINE S == {d \in 0 .. EndOfTime : F[d] = IF d < s THEN One ELSE f[s]}
<1>2. 0 \in S
  BY <1>1
<1>3. ASSUME NEW d \in 1 .. EndOfTime, d - 1 \in S PROVE d \in S
  <2>1. F[d] = WithDay(f, d, F[d - 1]) /\ F[d - 1] = IF d - 1 < s THEN One ELSE f[s]
    BY <1>1, <1>3
  <2>2. CASE d = s
    <3>1. Prices!Times(One, f[s]) = f[s]
      <4>1. Prices!Times(One, f[s]) = Prices!Times(f[s], One)
        BY <1>0, OneIs, TimesIs
      <4>2. Prices!Times(f[s], One) = Prices!Reduced(f[s]) /\ Prices!Reduced(f[s]) = f[s]
        BY <1>0, OneIs
      <4> QED
        BY <4>1, <4>2
    <3>2. d - 1 < s /\ ~(d < s)
      BY <2>2
    <3>3. F[d] = f[s]
      BY <2>1, <2>2, <3>1, <3>2 DEF WithDay
    <3> QED
      BY <3>2, <3>3
  <2>3. CASE d # s
    <3>1. F[d] = F[d - 1]
      BY <2>1, <2>3 DEF WithDay
    <3>2. d - 1 < s <=> d < s
      BY <2>3
    <3> QED
      BY <2>1, <3>1, <3>2
  <2> QED
    BY <2>2, <2>3
<1> HIDE DEF S
<1>4. 0 .. EndOfTime \subseteq S
  BY <1>2, <1>3, Induct
<1>5. EndOfTime \in S /\ ~(EndOfTime < s)
  BY <1>4
<1> QED
  BY <1>1, <1>5 DEF S

-----------------------------------------------------------------------------
(* Prices: the market and what providers say of it *)

\* The sessions that have closed, as they were.
Market ==
    /\ day \in 1 .. EndOfTime
    /\ bars = [t \in Prices!Tickers |-> bars[t]]
    /\ \A t \in Prices!Tickers : bars[t] \in [{s \in Sessions : s < day} -> BarRecord]

\* What has closed is the calendar's sessions before today, each with its prices.
LEMMA ClosedIs ==
    ASSUME PricesAssumption, Market
    PROVE  /\ Prices!Closed = {s \in Sessions : s < day}
           /\ Prices!Closed \subseteq 1 .. day - 1 /\ Prices!Closed \subseteq 1 .. EndOfTime
           /\ \A t \in Prices!Tickers, s \in Prices!Closed :
                 /\ bars[t][s] \in BarRecord
                 /\ bars[t][s].close \in Pos /\ bars[t][s].high \in Nat
                 /\ bars[t][s].low \in Nat /\ bars[t][s].split \in Pos
                 /\ bars[t][s].dividend \in Nat
                 /\ bars[t][s].low <= bars[t][s].close /\ bars[t][s].close <= bars[t][s].high
<1>1. "instrument" \in Prices!Tickers
  BY DEF Prices!Tickers
<1>2. Prices!Closed = {s \in Sessions : s < day}
  BY <1>1 DEF Prices!Closed, Market
<1>3. Prices!Closed \subseteq 1 .. day - 1 /\ Prices!Closed \subseteq 1 .. EndOfTime
  BY <1>2 DEF Market, PricesAssumption, Pos
<1>4. \A t \in Prices!Tickers, s \in Prices!Closed : bars[t][s] \in BarRecord
  BY <1>2 DEF Market
<1>5. \A b \in BarRecord : /\ b.close \in Pos /\ b.high \in Nat /\ b.low \in Nat
                           /\ b.split \in Pos /\ b.dividend \in Nat
                           /\ b.low <= b.close /\ b.close <= b.high
  BY DEF BarRecord
<1> QED
  BY <1>2, <1>3, <1>4, <1>5

\* Shares there are in session u for one of session s.
Fold(t, s, u) == Prices!SplitsBetween(t, s, u)[1]

\* The splits after session s and up to session u.
Splitting(t, s, u) == [v \in {w \in Prices!Closed : s < w /\ w <= u} |-> <<bars[t][v].split, 1>>]

\* Splits multiply to a whole number of shares.
LEMMA SplitsAre ==
    ASSUME PricesAssumption, Market, NEW t \in Prices!Tickers, NEW s, NEW u
    PROVE  /\ Prices!SplitsBetween(t, s, u) = <<Fold(t, s, u), 1>>
           /\ Fold(t, s, u) \in Pos
           /\ Prices!SplitsBetween(t, s, u) = Prices!Product(Splitting(t, s, u))
           /\ \A d \in DOMAIN Splitting(t, s, u) : Splitting(t, s, u)[d] \in Pair
<1>1. Prices!SplitsBetween(t, s, u) = Prices!Product(Splitting(t, s, u))
  BY DEF Prices!SplitsBetween, Splitting
<1>2. \A d \in DOMAIN Splitting(t, s, u) : \E n \in Pos : Splitting(t, s, u)[d] = <<n, 1>>
  BY ClosedIs DEF Splitting
<1>3. PICK n \in Pos : Prices!Product(Splitting(t, s, u)) = <<n, 1>>
  BY <1>2, ProductWhole DEF PricesAssumption
<1>4. Fold(t, s, u) = n
  BY <1>1, <1>3 DEF Fold
<1>5. \A m \in Pos : <<m, 1>> \in Pair
  BY DEF Pair, Pos
<1> QED
  BY <1>1, <1>2, <1>3, <1>4, <1>5

\* Splits from one session to another are those to a session between times those
\* from there: what makes the basis of a series irrelevant.
LEMMA FoldsJoin ==
    ASSUME PricesAssumption, Market, NEW t \in Prices!Tickers,
           NEW s \in Int, NEW m \in Int, NEW u \in Int, s <= m, m <= u
    PROVE  Fold(t, s, u) = Fold(t, s, m) * Fold(t, m, u)
<1> DEFINE f == Splitting(t, s, m)
           g == Splitting(t, m, u)
           h == Splitting(t, s, u)
<1>0. Prices!Closed \subseteq Int
  BY ClosedIs
<1>1. /\ DOMAIN h = DOMAIN f \cup DOMAIN g /\ DOMAIN f \cap DOMAIN g = {}
      /\ \A d \in DOMAIN f : f[d] = h[d]
      /\ \A d \in DOMAIN g : g[d] = h[d]
  <2>1. /\ DOMAIN h = {w \in Prices!Closed : s < w /\ w <= u}
        /\ DOMAIN f = {w \in Prices!Closed : s < w /\ w <= m}
        /\ DOMAIN g = {w \in Prices!Closed : m < w /\ w <= u}
    BY DEF Splitting
  <2>2. /\ \A d \in DOMAIN h : h[d] = <<bars[t][d].split, 1>>
        /\ \A d \in DOMAIN f : f[d] = <<bars[t][d].split, 1>>
        /\ \A d \in DOMAIN g : g[d] = <<bars[t][d].split, 1>>
    BY DEF Splitting
  <2> HIDE DEF f, g, h
  <2>3. DOMAIN h = DOMAIN f \cup DOMAIN g /\ DOMAIN f \cap DOMAIN g = {}
    <3>1. \A w \in Prices!Closed :
             /\ (s < w /\ w <= u) <=> ((s < w /\ w <= m) \/ (m < w /\ w <= u))
             /\ ~((s < w /\ w <= m) /\ (m < w /\ w <= u))
      <4> SUFFICES ASSUME NEW w \in Int
                   PROVE  /\ (s < w /\ w <= u) <=> ((s < w /\ w <= m) \/ (m < w /\ w <= u))
                          /\ ~((s < w /\ w <= m) /\ (m < w /\ w <= u))
        BY <1>0
      <4> QED
        OBVIOUS
    <3> QED
      BY <2>1, <3>1, Zenon
  <2> QED
    BY <2>2, <2>3
<1>2. \A d \in DOMAIN h : h[d] \in Pair
  BY SplitsAre
<1> HIDE DEF f, g, h
<1>3. Prices!Product(h) = Prices!Times(Prices!Product(f), Prices!Product(g))
  BY <1>1, <1>2, ProductJoins DEF PricesAssumption
<1>4. /\ Prices!Product(h) = <<Fold(t, s, u), 1>> /\ Prices!Product(f) = <<Fold(t, s, m), 1>>
      /\ Prices!Product(g) = <<Fold(t, m, u), 1>>
  BY SplitsAre DEF f, g, h
<1>5. Fold(t, s, m) \in Pos /\ Fold(t, m, u) \in Pos
  BY SplitsAre
<1>6. Fold(t, s, m) * Fold(t, m, u) \in Nat /\ 1 * 1 = 1
  BY <1>5, Natural DEF Pos
<1>7. Prices!Product(h) = Prices!Reduced(<<Fold(t, s, m) * Fold(t, m, u), 1 * 1>>)
  BY <1>3, <1>4 DEF Prices!Times
<1>8. Prices!Product(h) = <<Fold(t, s, m) * Fold(t, m, u), 1>>
  BY <1>6, <1>7, OneIs
<1> QED
  BY <1>4, <1>8

\* Between a session and itself nothing splits;
LEMMA FoldOfNone ==
    ASSUME PricesAssumption, Market, NEW t \in Prices!Tickers, NEW s \in Int, NEW u \in Int, u <= s
    PROVE  Fold(t, s, u) = 1
<1>1. \A w \in Int : ~(s < w /\ w <= u)
  OBVIOUS
<1>2. DOMAIN Splitting(t, s, u) = {}
  BY <1>1, ClosedIs DEF Splitting
<1>3. Prices!Product(Splitting(t, s, u)) = One
  BY <1>2, ProductOfNone DEF PricesAssumption
<1> QED
  BY <1>3, SplitsAre DEF One

\* from one session to the next only what splits in the next.
LEMMA FoldOfOne ==
    ASSUME PricesAssumption, Market, NEW t \in Prices!Tickers,
           NEW before \in Prices!Closed, NEW s \in Prices!Closed, before < s,
           \A u \in Prices!Closed : u < s => u <= before
    PROVE  Fold(t, before, s) = bars[t][s].split
<1> DEFINE f == Splitting(t, before, s)
<1>0. Prices!Closed \subseteq 1 .. EndOfTime
  BY ClosedIs
<1>1. \A w \in Prices!Closed : (before < w /\ w <= s) <=> w = s
  <2> SUFFICES ASSUME NEW w \in Prices!Closed PROVE (before < w /\ w <= s) <=> w = s
    OBVIOUS
  <2>1. w \in Int /\ s \in Int /\ before \in Int /\ (w < s => w <= before)
    BY <1>0
  <2> QED
    BY <2>1
<1>2. DOMAIN f = {s} /\ f[s] = <<bars[t][s].split, 1>>
  BY <1>1 DEF Splitting
<1>3. bars[t][s].split \in Nat
  BY ClosedIs DEF Pos
<1>4. f[s] \in Frac /\ s \in 1 .. EndOfTime
  BY <1>0, <1>2, <1>3, OneIs
<1> HIDE DEF f
<1>5. Prices!Product(f) = f[s]
  BY <1>2, <1>4, ProductOfOne DEF PricesAssumption
<1> QED
  BY <1>2, <1>5, SplitsAre DEF f

\* Who has split nothing in the end has never split.
LEMMA FoldsAreOne ==
    ASSUME PricesAssumption, Market, NEW t \in Prices!Tickers,
           NEW s \in Int, NEW u \in Int, NEW v \in Int, u <= v, Fold(t, s, v) = 1
    PROVE  Fold(t, s, u) = 1
<1>1. CASE u <= s
  BY <1>1, FoldOfNone
<1>2. CASE ~(u <= s)
  <2>1. Fold(t, s, v) = Fold(t, s, u) * Fold(t, u, v)
    BY <1>2, FoldsJoin
  <2>2. Fold(t, s, u) \in Pos /\ Fold(t, u, v) \in Pos
    BY SplitsAre
  <2>3. ASSUME NEW a \in Pos, NEW b \in Pos, a * b = 1 PROVE a = 1
    <3>1. a \in Int /\ b \in Int /\ a >= 1 /\ b >= 1
      BY DEF Pos
    <3>2. CASE a >= 2
      <4>1. 2 * b <= a * b
        BY <3>1, <3>2, Cancel
      <4> QED
        BY <2>3, <3>1, <4>1
    <3> QED
      BY <3>1, <3>2
  <2> QED
    BY <2>1, <2>2, <2>3
<1> QED
  BY <1>1, <1>2

\* The greatest number of a set.
LEMMA GreatestOf ==
    ASSUME NEW n \in Nat, NEW S, S \subseteq 0 .. n, S # {}
    PROVE  /\ Prices!Max(S) \in S
           /\ \A x \in S : x <= Prices!Max(S)
<1> DEFINE T == {n - x : x \in S}
<1>1. T \in SUBSET Nat /\ T # {}
  <2>1. \A x \in S : n - x \in Nat
    OBVIOUS
  <2> QED
    BY <2>1
<1>2. PICK y \in T : \A z \in T : y <= z
  BY <1>1, L!LeastOf
<1>3. PICK x \in S : y = n - x
  BY <1>2
<1>4. \A z \in S : x >= z
  BY <1>2, <1>3
<1>5. Prices!Max(S) = CHOOSE m \in S : \A z \in S : m >= z
  BY DEF Prices!Max
<1>6. Prices!Max(S) \in S /\ \A z \in S : Prices!Max(S) >= z
  BY <1>4, <1>5
<1> QED
  BY <1>6

\* The day ends: what has closed stays as it was.
LEMMA MarketGrows ==
    ASSUME PricesAssumption, Market, Prices!DayEnds
    PROVE  /\ Market' /\ day' = day + 1
           /\ Prices!Closed \subseteq Prices!Closed' /\ Prices!Closed' \subseteq Int
           /\ \A s \in Prices!Closed' : s < day => s \in Prices!Closed
           /\ \A t \in Prices!Tickers, s \in Prices!Closed : bars'[t][s] = bars[t][s]
<1>0. day < EndOfTime /\ day' = day + 1 /\ day \in Int
  BY DEF Prices!DayEnds, Market
<1>1. Prices!Closed = {s \in Sessions : s < day} /\ "instrument" \in Prices!Tickers
  BY ClosedIs DEF Prices!Tickers
<1>2. Sessions \subseteq Int
  BY DEF PricesAssumption, Pos
<1>3. \A s \in Sessions : s < day' <=> s < day \/ s = day
  <2>1. \A s \in Int : s < day' <=> s < day \/ s = day
    BY <1>0
  <2> QED
    BY <1>2, <2>1
<1>4. CASE day \in Sessions
  <2>1. PICK i \in Bars["instrument"][day], b \in Bars["benchmark"][day] :
           bars' = [t \in Prices!Tickers |-> [s \in Prices!Closed \cup {day} |->
                      IF s = day THEN [instrument |-> i, benchmark |-> b][t] ELSE bars[t][s]]]
    BY <1>4 DEF Prices!DayEnds
  <2>2. Prices!Closed \cup {day} = {s \in Sessions : s < day'}
    BY <1>1, <1>4, <1>3, Zenon
  <2>3. \A t \in Prices!Tickers : [instrument |-> i, benchmark |-> b][t] \in BarRecord
    BY <1>4 DEF PricesAssumption, Prices!Tickers
  <2>4. \A t \in Prices!Tickers : bars[t] \in [Prices!Closed -> BarRecord]
    BY <1>1 DEF Market
  <2>5. \A t \in Prices!Tickers : /\ bars'[t] \in [{s \in Sessions : s < day'} -> BarRecord]
                                  /\ \A s \in Prices!Closed : bars'[t][s] = bars[t][s]
    <3>1. day \notin Prices!Closed
      BY <1>0, <1>1
    <3> QED
      BY <2>1, <2>2, <2>3, <2>4, <3>1
  <2>6. bars' = [t \in Prices!Tickers |-> bars'[t]]
    BY <2>1
  <2>7. Prices!Closed' = {s \in Sessions : s < day'}
    BY <1>1, <2>5 DEF Prices!Closed
  <2>8. day' \in 1 .. EndOfTime
    BY <1>0 DEF Market, PricesAssumption
  <2>9. /\ Prices!Closed \subseteq Prices!Closed'
        /\ \A s \in Prices!Closed' : s < day => s \in Prices!Closed
    BY <1>1, <2>2, <2>7
  <2>10. Prices!Closed' \subseteq Int
    BY <1>2, <2>7
  <2> QED
    BY <1>0, <2>5, <2>6, <2>8, <2>9, <2>10 DEF Market
<1>5. CASE day \notin Sessions
  <2>1. bars' = bars
    BY <1>5 DEF Prices!DayEnds
  <2>2. {s \in Sessions : s < day'} = {s \in Sessions : s < day}
    BY <1>5, <1>3, Zenon
  <2>3. Prices!Closed' = Prices!Closed
    BY <2>1 DEF Prices!Closed
  <2>4. day' \in 1 .. EndOfTime
    BY <1>0 DEF Market, PricesAssumption
  <2>5. Market'
    BY <2>1, <2>2, <2>4 DEF Market
  <2> QED
    BY <1>0, <1>1, <1>2, <2>1, <2>3, <2>5
<1> QED
  BY <1>4, <1>5

\* Splits up to a session that has closed stay what they were.
LEMMA SplitsStay ==
    ASSUME PricesAssumption, Market, Prices!DayEnds, NEW t \in Prices!Tickers,
           NEW s \in Int, NEW u \in Int, u < day
    PROVE  Prices!SplitsBetween(t, s, u)' = Prices!SplitsBetween(t, s, u)
<1>1. /\ Prices!Closed \subseteq Prices!Closed'
      /\ \A v \in Prices!Closed' : v < day => v \in Prices!Closed
      /\ \A v \in Prices!Closed : bars'[t][v] = bars[t][v]
      /\ Prices!Closed' \subseteq Int /\ day \in Int
  <2>1. day \in Int
    BY DEF Market
  <2> QED
    BY <2>1, MarketGrows
<1>2. \A w \in Prices!Closed' : w <= u => w < day
  BY <1>1
<1>3. {w \in Prices!Closed' : s < w /\ w <= u} = {w \in Prices!Closed : s < w /\ w <= u}
  BY <1>1, <1>2, Zenon
<1>4. Splitting(t, s, u)' = Splitting(t, s, u)
  BY <1>1, <1>3 DEF Splitting
<1>5. /\ Prices!SplitsBetween(t, s, u) = Prices!Product(Splitting(t, s, u))
      /\ Prices!SplitsBetween(t, s, u)' = Prices!Product(Splitting(t, s, u)')
  BY DEF Prices!SplitsBetween, Splitting, Prices!Product
<1> QED
  BY <1>4, <1>5

\* A series as a provider once had it: nothing in it has changed since.
SeriesIs(series, t, from, to) ==
    /\ t \in Prices!Tickers /\ from \in Int /\ to \in Int
    /\ series.ticker = t /\ series.provider \in Prices!Providers
    /\ series.published \in 0 .. day - 1
    /\ series.sessions = {s \in Prices!Closed : from <= s /\ s <= to /\ s <= series.published}

\* The session, or the day, in whose shares the prices of a series are.
Basis(series) ==
    IF series.provider \in Prices!AsTraded THEN Prices!Max(series.sessions) ELSE series.published

\* The basis is a day that is over and no session of the series is after it.
LEMMA BasisIs ==
    ASSUME PricesAssumption, Market, NEW series, NEW t, NEW from, NEW to,
           SeriesIs(series, t, from, to), series.sessions # {}
    PROVE  /\ Basis(series) \in 0 .. day - 1
           /\ \A s \in series.sessions : s <= Basis(series) /\ s \in Prices!Closed /\ s \in Int
<1>1. series.sessions \subseteq 0 .. EndOfTime /\ series.sessions \subseteq Prices!Closed
  BY ClosedIs DEF SeriesIs
<1>2. Prices!Closed \subseteq 1 .. day - 1 /\ Prices!Closed \subseteq Int
  BY ClosedIs
<1>3. CASE series.provider \in Prices!AsTraded
  <2>1. Basis(series) = Prices!Max(series.sessions)
    BY <1>3 DEF Basis
  <2>2. /\ Prices!Max(series.sessions) \in series.sessions
        /\ \A s \in series.sessions : s <= Prices!Max(series.sessions)
    BY <1>1, GreatestOf DEF PricesAssumption
  <2>3. Basis(series) \in 1 .. day - 1
    BY <1>1, <1>2, <2>1, <2>2
  <2>4. Basis(series) \in 0 .. day - 1
    BY <2>3 DEF Market
  <2> QED
    BY <1>1, <1>2, <2>1, <2>2, <2>4
<1>4. CASE series.provider \notin Prices!AsTraded
  BY <1>1, <1>2, <1>4 DEF Basis, SeriesIs
<1> QED
  BY <1>3, <1>4

\* What a provider reports.
Fields == {"close", "high", "low", "dividend"}

\* Whoever reports it, a price is that of the market, in the shares of the basis.
LEMMA AdjustedIs ==
    ASSUME PricesAssumption, Market, NEW series, NEW t, NEW from, NEW to,
           SeriesIs(series, t, from, to), NEW s \in series.sessions, NEW field \in Fields
    PROVE  /\ Prices!Adjusted(series, field, s)
                = Prices!Reduced(<<bars[t][s][field], Fold(t, s, Basis(series))>>)
           /\ <<bars[t][s][field], Fold(t, s, Basis(series))>> \in Pair
           /\ bars[t][s][field] \in Nat /\ Fold(t, s, Basis(series)) \in Pos
<1> DEFINE n == bars[t][s][field]
           m == Fold(t, s, Basis(series))
<1>1. t \in Prices!Tickers /\ series.ticker = t /\ s \in Prices!Closed
  BY DEF SeriesIs
<1>2. n \in Nat
  BY <1>1, ClosedIs DEF Fields, BarRecord, Pos
<1>3. m \in Pos /\ Prices!SplitsBetween(t, s, Basis(series)) = <<m, 1>>
  BY <1>1, SplitsAre
<1>4. <<n, m>> \in Pair
  BY <1>2, <1>3 DEF Pair
<1>5. /\ <<n, 1>> \in Frac /\ <<m, 1>> \in Frac /\ <<n, 1>> \in Pair /\ <<m, 1>> \in Pair
      /\ One \in Pair /\ One[1] # 0 /\ m # 0
  BY <1>2, <1>3, OneIs DEF Pos
<1>6. Prices!Over(<<n, 1>>, <<m, 1>>) = Prices!Reduced(<<n, m>>)
  <2>1. n * 1 = n /\ 1 * m = m
    BY <1>2, <1>3 DEF Pos
  <2> QED
    BY <2>1 DEF Prices!Over
<1>7. Prices!Over(Prices!Reduced(<<n, m>>), One) = Prices!Reduced(<<n, m>>)
  <2> DEFINE p == <<n, m>>
  <2>1. p \in Pair
    BY <1>4
  <2> HIDE DEF p
  <2>2. SameValue(Prices!Reduced(p), p) /\ Prices!Reduced(p) \in Pair /\ SameValue(One, One)
    BY <1>5, <2>1, SameItself
  <2>3. Prices!Over(Prices!Reduced(p), One) = Prices!Over(p, One)
    <3> DEFINE w == Prices!Reduced(p)
    <3>1. w \in Pair /\ SameValue(w, p)
      BY <2>2
    <3>2. One \in Pair /\ SameValue(One, One) /\ One[1] # 0
      BY <1>5, <2>2
    <3> HIDE DEF w
    <3>3. Prices!Over(w, One) = Prices!Over(p, One)
      BY <2>1, <3>1, <3>2, OverSame
    <3> QED
      BY <3>3 DEF w
  <2>4. p[1] * 1 = p[1] /\ p[2] * 1 = p[2] /\ p = <<p[1], p[2]>>
    BY <2>1 DEF Pair, Pos
  <2>5. Prices!Over(p, One) = Prices!Reduced(p)
    BY <2>4 DEF Prices!Over, One
  <2>6. Prices!Over(Prices!Reduced(p), One) = Prices!Reduced(p)
    BY <2>3, <2>5
  <2> QED
    BY <2>6 DEF p
<1>8. CASE series.provider \in Prices!AsTraded
  <2>1. Prices!Reported(series, field, s) = <<n, 1>>
    BY <1>1, <1>8 DEF Prices!Reported
  <2>2. Prices!LaterSplitFactor(series, s) = <<m, 1>>
    BY <1>1, <1>3, <1>8 DEF Prices!LaterSplitFactor, Basis
  <2>3. Prices!Adjusted(series, field, s) = Prices!Over(<<n, 1>>, <<m, 1>>)
    BY <2>1, <2>2 DEF Prices!Adjusted
  <2> QED
    BY <1>2, <1>3, <1>4, <1>6, <2>3
<1>9. CASE series.provider \notin Prices!AsTraded
  <2>1. Prices!Reported(series, field, s) = Prices!Over(<<n, 1>>, <<m, 1>>)
    <3>1. Basis(series) = series.published
      BY <1>9 DEF Basis
    <3>2. Prices!SplitsBetween(series.ticker, s, series.published) = <<m, 1>>
      BY <1>1, <1>3, <3>1
    <3> HIDE DEF m
    <3> QED
      BY <1>1, <1>9, <3>2 DEF Prices!Reported
  <2>2. Prices!LaterSplitFactor(series, s) = One
    BY <1>9 DEF Prices!LaterSplitFactor, One
  <2>3. Prices!Adjusted(series, field, s) = Prices!Over(Prices!Reduced(<<n, m>>), One)
    BY <1>6, <2>1, <2>2 DEF Prices!Adjusted
  <2> QED
    BY <1>2, <1>3, <1>4, <1>7, <2>3
<1> QED
  BY <1>8, <1>9

\* What is not nothing stays so in lowest terms.
LEMMA NotZero ==
    ASSUME NEW p \in Pair, p[1] # 0 PROVE Prices!Reduced(p)[1] # 0
<1> DEFINE w == Prices!Reduced(p)
<1>1. w \in Pair /\ w[1] * p[2] = p[1] * w[2]
  BY ReducedIs DEF SameValue
<1> HIDE DEF w
<1>2. p[1] \in Pos /\ w[2] \in Pos /\ p[2] \in Int
  BY <1>1 DEF Pair, Pos
<1>3. p[1] * w[2] \in Pos
  BY <1>2, Positive
<1>4. w[1] # 0
  BY <1>1, <1>2, <1>3 DEF Pos
<1> QED
  BY <1>4 DEF w

\* Quotients of what is in lowest terms.
LEMMA OverReduced ==
    ASSUME NEW p \in Pair, NEW q \in Pair, q[1] # 0
    PROVE  Prices!Over(Prices!Reduced(p), Prices!Reduced(q)) = Prices!Over(p, q)
<1> DEFINE v == Prices!Reduced(p)
           w == Prices!Reduced(q)
<1>1. v \in Pair /\ w \in Pair /\ SameValue(v, p) /\ SameValue(w, q) /\ w[1] # 0
  BY SameItself, NotZero
<1> HIDE DEF v, w
<1>2. Prices!Over(v, w) = Prices!Over(p, q)
  BY <1>1, OverSame
<1> QED
  BY <1>2 DEF v, w

\* The price return is what the market gave, whichever provider reported it.
LEMMA PriceReturnIs ==
    ASSUME PricesAssumption, Market, NEW series, NEW t, NEW from, NEW to,
           SeriesIs(series, t, from, to),
           NEW entry \in series.sessions, NEW exit \in series.sessions, entry <= exit
    PROVE  Prices!PriceReturn(series, entry, exit) = Prices!Earned(t, entry, exit)
<1> DEFINE a == bars[t][exit].close
           b == bars[t][entry].close
           g == Fold(t, exit, Basis(series))
           h == Fold(t, entry, Basis(series))
           n == Fold(t, entry, exit)
           p == <<a, g>>
           q == <<b, h>>
<1>1. t \in Prices!Tickers /\ entry \in Prices!Closed /\ exit \in Prices!Closed
  BY DEF SeriesIs
<1>2. entry \in Int /\ exit \in Int /\ Basis(series) \in Int /\ exit <= Basis(series)
  BY BasisIs
<1>3. a \in Pos /\ b \in Pos /\ g \in Pos /\ h \in Pos /\ n \in Pos
  BY <1>1, ClosedIs, SplitsAre
<1>4. h = n * g
  BY <1>1, <1>2, FoldsJoin
<1>5. /\ Prices!Adjusted(series, "close", exit) = Prices!Reduced(p)
      /\ Prices!Adjusted(series, "close", entry) = Prices!Reduced(q)
  BY AdjustedIs DEF Fields
<1>6. Prices!PriceReturn(series, entry, exit) = Prices!Over(Prices!Reduced(p), Prices!Reduced(q))
  BY <1>5 DEF Prices!PriceReturn
<1>7. /\ p \in Pair /\ q \in Pair /\ p[1] = a /\ p[2] = g /\ q[1] = b /\ q[2] = h /\ b # 0
      /\ <<a, b>> \in Pair /\ <<n, 1>> \in Pair
  BY <1>3 DEF Pair, Pos
<1>8. Prices!Earned(t, entry, exit) = Prices!Times(<<a, b>>, <<n, 1>>)
  BY <1>1, SplitsAre DEF Prices!Earned
<1> HIDE DEF a, b, g, h, n, p, q
<1>9. Prices!PriceReturn(series, entry, exit) = Prices!Over(p, q)
  BY <1>6, <1>7, OverReduced
<1>10. /\ Prices!Over(p, q) = Prices!Reduced(<<a * h, g * b>>) /\ <<a * h, g * b>> \in Pair
  BY <1>7, OverIs
<1>11. /\ Prices!Times(<<a, b>>, <<n, 1>>) = Prices!Reduced(<<a * n, b * 1>>)
       /\ <<a * n, b * 1>> \in Pair
  <2> DEFINE x == <<a, b>>
             y == <<n, 1>>
  <2>1. x \in Pair /\ y \in Pair /\ x[1] = a /\ x[2] = b /\ y[1] = n /\ y[2] = 1
    BY <1>7
  <2> HIDE DEF x, y
  <2>2. /\ Prices!Times(x, y) = Prices!Reduced(<<a * n, b * 1>>)
        /\ <<a * n, b * 1>> \in Pair
    BY <2>1, TimesIs
  <2> QED
    BY <2>2 DEF x, y
<1>12. (a * h) * (b * 1) = (a * n) * (g * b)
  <2>1. a \in Int /\ b \in Int /\ g \in Int /\ n \in Int
    BY <1>3 DEF Pos
  <2>2. (a * h) * (b * 1) = (a * (n * g)) * (b * 1)
    BY <1>4
  <2>3. (a * (n * g)) * (b * 1) = (a * n) * (g * b)
    BY <2>1
  <2> QED
    BY <2>2, <2>3
<1> DEFINE u == <<a * h, g * b>>
           v == <<a * n, b * 1>>
<1>13. u \in Pair /\ v \in Pair /\ SameValue(u, v)
  BY <1>10, <1>11, <1>12 DEF SameValue
<1> HIDE DEF u, v
<1>14. Prices!Reduced(u) = Prices!Reduced(v)
  BY <1>13, ReducedSame
<1> QED
  BY <1>8, <1>9, <1>10, <1>11, <1>14 DEF u, v

\* The session before one that has another before it.
Before(S, s) == Prices!Max({u \in S : u < s})

\* There is a last session before another, if there is one at all.
LEMMA BeforeIs ==
    ASSUME PricesAssumption, Market, NEW s \in Prices!Closed, NEW entry \in Prices!Closed, entry < s
    PROVE  /\ Before(Prices!Closed, s) \in Prices!Closed
           /\ entry <= Before(Prices!Closed, s) /\ Before(Prices!Closed, s) < s
           /\ \A u \in Prices!Closed : u < s => u <= Before(Prices!Closed, s)
<1> DEFINE S == {u \in Prices!Closed : u < s}
<1>1. S \subseteq 0 .. EndOfTime /\ entry \in S
  BY ClosedIs
<1>2. Prices!Max(S) \in S /\ \A x \in S : x <= Prices!Max(S)
  BY <1>1, GreatestOf DEF PricesAssumption
<1>3. Before(Prices!Closed, s) = Prices!Max(S)
  BY DEF Before
<1> QED
  BY <1>1, <1>2, <1>3

\* What a share grows by in a session, dividend and split included.
Growth(t, s) ==
    <<(bars[t][s].close + bars[t][s].dividend) * bars[t][s].split,
      bars[t][Before(Prices!Closed, s)].close>>

\* The total return of a session is what a share grows by in it.
LEMMA LinkIs ==
    ASSUME PricesAssumption, Market, NEW series, NEW t, NEW from, NEW to,
           SeriesIs(series, t, from, to),
           NEW entry \in series.sessions, NEW s \in series.sessions, entry < s
    PROVE  /\ Prices!TotalReturnLink(series, s) \in Pair /\ Growth(t, s) \in Pair
           /\ SameValue(Prices!TotalReturnLink(series, s), Growth(t, s))
<1> DEFINE before == Before(Prices!Closed, s)
           c == bars[t][s].close
           d == bars[t][s].dividend
           k == bars[t][s].split
           b == bars[t][before].close
           g == Fold(t, s, Basis(series))
           h == Fold(t, before, Basis(series))
           x == <<c, g>>
           y == <<d, g>>
           q == <<b, h>>
<1>0. t \in Prices!Tickers /\ entry \in Prices!Closed /\ s \in Prices!Closed
  BY DEF SeriesIs
<1>1. /\ before \in Prices!Closed /\ entry <= before /\ before < s
      /\ \A u \in Prices!Closed : u < s => u <= before
  BY <1>0, BeforeIs
<1>2. /\ entry \in Int /\ s \in Int /\ Basis(series) \in Int /\ s <= Basis(series)
      /\ before \in Int /\ Prices!Closed \subseteq Int
  BY <1>0, <1>1, BasisIs, ClosedIs
<1>3. before \in series.sessions
  <2>1. from <= entry /\ s <= to /\ s <= series.published /\ from \in Int /\ to \in Int
        /\ series.published \in Int
    BY DEF SeriesIs
  <2>2. from <= before /\ before <= to /\ before <= series.published
    BY <1>1, <1>2, <2>1
  <2> QED
    BY <1>1, <2>2 DEF SeriesIs
<1>5. Before(series.sessions, s) = before
  <2> DEFINE T == {u \in series.sessions : u < s}
             m == Prices!Max(T)
  <2>1. T \subseteq 0 .. EndOfTime /\ before \in T /\ T \subseteq Prices!Closed
    BY <1>1, <1>3, ClosedIs DEF SeriesIs
  <2>2. m \in T /\ \A z \in T : z <= m
    BY <2>1, GreatestOf DEF PricesAssumption
  <2>3. m \in Int /\ before <= m /\ m <= before
    BY <1>1, <1>2, <2>1, <2>2
  <2>4. m = before
    BY <1>2, <2>3
  <2> QED
    BY <2>4 DEF Before
<1>6. /\ c \in Pos /\ d \in Nat /\ k \in Pos /\ b \in Pos /\ g \in Pos /\ h \in Pos
  BY <1>0, <1>1, ClosedIs, SplitsAre
<1>7. h = k * g
  <2>1. Fold(t, before, s) = k
    BY <1>0, <1>1, FoldOfOne
  <2>2. h = Fold(t, before, s) * g
    BY <1>0, <1>1, <1>2, FoldsJoin
  <2> QED
    BY <2>1, <2>2
<1>8. /\ Prices!Adjusted(series, "close", s) = Prices!Reduced(x)
      /\ Prices!Adjusted(series, "dividend", s) = Prices!Reduced(y)
      /\ Prices!Adjusted(series, "close", before) = Prices!Reduced(q)
  BY <1>3, AdjustedIs DEF Fields
<1>9. Prices!TotalReturnLink(series, s) =
         Prices!Over(Prices!Sum(Prices!Reduced(x), Prices!Reduced(y)), Prices!Reduced(q))
  BY <1>5, <1>8 DEF Prices!TotalReturnLink, Before
<1>10. /\ x \in Pair /\ y \in Pair /\ q \in Pair
       /\ x[1] = c /\ x[2] = g /\ y[1] = d /\ y[2] = g /\ q[1] = b /\ q[2] = h /\ b # 0
  BY <1>6 DEF Pair, Pos
<1>11. Growth(t, s) = <<(c + d) * k, b>>
  BY DEF Growth
<1> HIDE DEF before, c, d, k, b, g, h, x, y, q
<1> DEFINE z == <<c * g + d * g, g * g>>
<1>12. Prices!Sum(Prices!Reduced(x), Prices!Reduced(y)) = Prices!Reduced(z) /\ z \in Pair
  <2> DEFINE v == Prices!Reduced(x)
             w == Prices!Reduced(y)
  <2>1. v \in Pair /\ w \in Pair /\ SameValue(v, x) /\ SameValue(w, y)
    BY <1>10, SameItself
  <2> HIDE DEF v, w, z
  <2>2. Prices!Sum(v, w) = Prices!Sum(x, y)
    BY <1>10, <2>1, SumsAgree
  <2> DEFINE a == <<x[1] * y[2] + y[1] * x[2], x[2] * y[2]>>
  <2>3. Prices!Sum(x, y) = Prices!Reduced(a) /\ a \in Pair
    BY <1>10, SumIs
  <2>4. a = z
    BY <1>10 DEF z
  <2> QED
    BY <2>2, <2>3, <2>4 DEF v, w
<1>13. z[1] = c * g + d * g /\ z[2] = g * g
  OBVIOUS
<1> HIDE DEF z
<1>14. Prices!TotalReturnLink(series, s) = Prices!Over(z, q)
  BY <1>9, <1>10, <1>12, OverReduced
<1> DEFINE u == <<z[1] * q[2], z[2] * q[1]>>
           r == <<(c + d) * k, b>>
<1>15. Prices!TotalReturnLink(series, s) = Prices!Reduced(u) /\ u \in Pair
  BY <1>10, <1>12, <1>14, OverIs
<1>16. r \in Pair
  <2>1. (c + d) * k \in Nat
    BY <1>6 DEF Pos
  <2> QED
    BY <1>6, <2>1 DEF Pair
<1>17. u[1] = (c * g + d * g) * h /\ u[2] = (g * g) * b /\ r[1] = (c + d) * k /\ r[2] = b
  BY <1>10, <1>13
<1>18. ((c * g + d * g) * h) * b = ((c + d) * k) * ((g * g) * b)
  <2>1. c \in Int /\ d \in Int /\ k \in Int /\ b \in Int /\ g \in Int
    BY <1>6 DEF Pos
  <2>2. ((c * g + d * g) * h) * b = ((c * g + d * g) * (k * g)) * b
    BY <1>7
  <2>3. ((c * g + d * g) * (k * g)) * b = ((c + d) * k) * ((g * g) * b)
    BY <2>1
  <2> QED
    BY <2>2, <2>3
<1> HIDE DEF u, r
<1>19. SameValue(u, r)
  BY <1>17, <1>18 DEF SameValue
<1>20. SameValue(Prices!Reduced(u), u) /\ Prices!Reduced(u) \in Pair
  BY <1>15, SameItself
<1>21. SameValue(Prices!Reduced(u), r)
  BY <1>15, <1>16, <1>19, <1>20, SameJoins
<1> QED
  BY <1>11, <1>15, <1>16, <1>20, <1>21 DEF r

\* What a share grows by in each session after one, up to another.
Growing(t, entry, exit) ==
    [s \in {u \in Prices!Closed : entry < u /\ u <= exit} |-> Growth(t, s)]

\* What is earned in total is the product of the growths.
LEMMA TotalIs ==
    \A t, entry, exit : Prices!EarnedInTotal(t, entry, exit) = Prices!Product(Growing(t, entry, exit))
  BY DEF Prices!EarnedInTotal, Growing, Growth, Before

\* The total return is what the market gave, whichever provider reported it.
LEMMA TotalReturnIs ==
    ASSUME PricesAssumption, Market, NEW series, NEW t, NEW from, NEW to,
           SeriesIs(series, t, from, to),
           NEW entry \in series.sessions, NEW exit \in series.sessions
    PROVE  /\ Prices!TotalReturn(series, entry, exit) = Prices!EarnedInTotal(t, entry, exit)
           /\ Prices!EarnedInTotal(t, entry, exit) \in Frac
<1> DEFINE S == {u \in series.sessions : entry < u /\ u <= exit}
           C == {u \in Prices!Closed : entry < u /\ u <= exit}
           f == [s \in S |-> Prices!TotalReturnLink(series, s)]
           g == Growing(t, entry, exit)
<1>1. S = C
  <2>1. Prices!Closed \subseteq Int
    BY ClosedIs
  <2>2. /\ from <= entry /\ exit <= to /\ exit <= series.published /\ from \in Int /\ to \in Int
        /\ series.published \in Int /\ entry \in Int /\ exit \in Int
    <3>1. series.sessions = {s \in Prices!Closed : from <= s /\ s <= to /\ s <= series.published}
      BY DEF SeriesIs
    <3>2. from \in Int /\ to \in Int /\ series.published \in Int
      BY DEF SeriesIs
    <3> QED
      BY <2>1, <3>1, <3>2
  <2>3. \A u \in Int : (entry < u /\ u <= exit) => (from <= u /\ u <= to /\ u <= series.published)
    BY <2>2
  <2> QED
    BY <2>1, <2>3 DEF SeriesIs
<1>2. DOMAIN f = S /\ DOMAIN g = C
  BY DEF Growing
<1>3. \A d \in S : f[d] \in Pair /\ g[d] \in Pair /\ SameValue(f[d], g[d])
  <2> SUFFICES ASSUME NEW d \in S PROVE f[d] \in Pair /\ g[d] \in Pair /\ SameValue(f[d], g[d])
    OBVIOUS
  <2>1. d \in series.sessions /\ entry < d
    OBVIOUS
  <2>2. /\ Prices!TotalReturnLink(series, d) \in Pair /\ Growth(t, d) \in Pair
        /\ SameValue(Prices!TotalReturnLink(series, d), Growth(t, d))
    BY <2>1, LinkIs
  <2>3. f[d] = Prices!TotalReturnLink(series, d) /\ g[d] = Growth(t, d)
    BY <1>1 DEF Growing
  <2> QED
    BY <2>2, <2>3
<1> HIDE DEF f, g, S, C
<1>4. EndOfTime \in Nat /\ DOMAIN f = DOMAIN g
  BY <1>1, <1>2 DEF PricesAssumption
<1>5. Prices!Product(f) = Prices!Product(g) /\ Prices!Product(f) \in Frac
  BY <1>2, <1>3, <1>4, ProductSame
<1>6. Prices!TotalReturn(series, entry, exit) = Prices!Product(f)
  BY DEF Prices!TotalReturn, f, S
<1> QED
  BY <1>5, <1>6, TotalIs DEF g

\* A comparison is one of products,
LEMMA AtMostIs ==
    \A p, q \in Pair : Prices!AtMost(p, q) <=> p[1] * q[2] <= q[1] * p[2]
<1> SUFFICES ASSUME NEW p \in Pair, NEW q \in Pair
             PROVE  Prices!AtMost(p, q) <=> p[1] * q[2] <= q[1] * p[2]
  OBVIOUS
<1>1. p[1] \in Int /\ q[1] \in Int /\ p[2] \in Int /\ q[2] \in Int
  BY DEF Pair, Pos
<1>2. p[1] * q[2] \in Int /\ q[1] * p[2] \in Int
  BY <1>1
<1> QED
  BY <1>2 DEF Prices!AtMost, Prices!Below

\* and any two fractions can be compared.
LEMMA AtMostAll ==
    \A p, q \in Pair : Prices!AtMost(p, p) /\ (Prices!AtMost(p, q) \/ Prices!AtMost(q, p))
<1> SUFFICES ASSUME NEW p \in Pair, NEW q \in Pair
             PROVE  Prices!AtMost(p, p) /\ (Prices!AtMost(p, q) \/ Prices!AtMost(q, p))
  OBVIOUS
<1>1. p[1] \in Int /\ q[1] \in Int /\ p[2] \in Int /\ q[2] \in Int
  BY DEF Pair, Pos
<1>2. p[1] * q[2] \in Int /\ q[1] * p[2] \in Int /\ p[1] * p[2] \in Int
  BY <1>1
<1> QED
  BY <1>2, AtMostIs

\* Comparisons join.
LEMMA AtMostJoins ==
    \A p, q, r \in Pair : (Prices!AtMost(p, q) /\ Prices!AtMost(q, r)) => Prices!AtMost(p, r)
<1> SUFFICES ASSUME NEW p \in Pair, NEW q \in Pair, NEW r \in Pair,
                    Prices!AtMost(p, q), Prices!AtMost(q, r)
             PROVE  Prices!AtMost(p, r)
  OBVIOUS
<1> DEFINE a == p[1]
           b == p[2]
           c == q[1]
           d == q[2]
           e == r[1]
           f == r[2]
<1>1. a \in Int /\ b \in Pos /\ c \in Int /\ d \in Pos /\ e \in Int /\ f \in Pos
      /\ b \in Int /\ d \in Int /\ f \in Int
  BY DEF Pair, Pos
<1>2. a * d <= c * b /\ c * f <= e * d
  BY AtMostIs
<1> HIDE DEF a, b, c, d, e, f
<1>3. a * d \in Int /\ c * b \in Int /\ c * f \in Int /\ e * d \in Int /\ a * f \in Int /\ e * b \in Int
  BY <1>1
<1>4. (a * d) * f <= (c * b) * f /\ (c * f) * b <= (e * d) * b
  BY <1>1, <1>2, <1>3, Cancel
<1>5. /\ (a * d) * f = (a * f) * d /\ (c * b) * f = (c * f) * b /\ (e * d) * b = (e * b) * d
  BY <1>1
<1>6. (a * d) * f \in Int /\ (c * b) * f \in Int /\ (e * d) * b \in Int
  BY <1>1, <1>3
<1>7. (a * f) * d <= (e * b) * d
  BY <1>4, <1>5, <1>6
<1>8. a * f <= e * b
  BY <1>1, <1>3, <1>7, Cancel
<1> QED
  BY <1>8, AtMostIs DEF a, b, e, f

\* What is at most another is so in relation to a third,
LEMMA OverOrder ==
    \A p, q, r \in Pair : (r[1] # 0 /\ Prices!AtMost(p, q))
                            => Prices!AtMost(Prices!Over(p, r), Prices!Over(q, r))
<1> SUFFICES ASSUME NEW p \in Pair, NEW q \in Pair, NEW r \in Pair,
                    r[1] # 0, Prices!AtMost(p, q)
             PROVE  Prices!AtMost(Prices!Over(p, r), Prices!Over(q, r))
  OBVIOUS
<1> DEFINE a == p[1]
           b == p[2]
           c == q[1]
           d == q[2]
           e == r[1]
           f == r[2]
           u == <<a * f, b * e>>
           v == <<c * f, d * e>>
<1>1. a \in Int /\ b \in Pos /\ c \in Int /\ d \in Pos /\ e \in Pos /\ f \in Pos
      /\ b \in Int /\ d \in Int /\ f \in Int /\ e \in Int
  BY DEF Pair, Pos
<1>2. a * d <= c * b
  BY AtMostIs
<1>3. Prices!Over(p, r) = Prices!Reduced(u) /\ u \in Pair
      /\ Prices!Over(q, r) = Prices!Reduced(v) /\ v \in Pair
  BY OverIs
<1>4. u[1] = a * f /\ u[2] = b * e /\ v[1] = c * f /\ v[2] = d * e
  OBVIOUS
<1> HIDE DEF a, b, c, d, e, f, u, v
<1>5. f * e \in Pos /\ a * d \in Int /\ c * b \in Int
  BY <1>1, Positive
<1>6. (a * d) * (f * e) <= (c * b) * (f * e)
  BY <1>2, <1>5, Cancel
<1>7. (a * d) * (f * e) = (a * f) * (d * e) /\ (c * b) * (f * e) = (c * f) * (b * e)
  BY <1>1
<1>8. Prices!AtMost(u, v)
  BY <1>3, <1>4, <1>6, <1>7, AtMostIs
<1> DEFINE x == Prices!Reduced(u)
           y == Prices!Reduced(v)
<1>9. x \in Pair /\ y \in Pair /\ SameValue(x, u) /\ SameValue(y, v)
  BY <1>3, SameItself
<1> HIDE DEF x, y
<1>10. Prices!AtMost(x, y)
  BY <1>3, <1>8, <1>9, AtMostSame
<1> QED
  BY <1>3, <1>10 DEF x, y

\* and anything is one in relation to itself.
LEMMA OverItself ==
    \A p \in Pair : p[1] # 0 => Prices!Over(p, p) = One
<1> SUFFICES ASSUME NEW p \in Pair, p[1] # 0 PROVE Prices!Over(p, p) = One
  OBVIOUS
<1> DEFINE u == <<p[1] * p[2], p[2] * p[1]>>
<1>1. Prices!Over(p, p) = Prices!Reduced(u) /\ u \in Pair
  BY OverIs
<1>2. SameValue(u, One)
  <2>1. p[1] \in Int /\ p[2] \in Int
    BY DEF Pair, Pos
  <2>2. p[1] * p[2] = p[2] * p[1] /\ p[1] * p[2] \in Int
    BY <2>1
  <2> QED
    BY <2>2, OneIs DEF SameValue
<1> HIDE DEF u
<1>3. One \in Pair /\ Prices!Reduced(One) = One
  BY OneIs
<1>4. Prices!Reduced(u) = Prices!Reduced(One)
  BY <1>1, <1>2, <1>3, ReducedSame
<1> QED
  BY <1>1, <1>3, <1>4

\* Among the sessions of a window there is a highest value, and a lowest: day by day,
\* whatever was best so far or today's.
LEMMA GreatestIs ==
    ASSUME NEW n \in Nat, NEW S, S \subseteq 0 .. n, S # {}, NEW F, \A s \in S : F[s] \in Pair
    PROVE  /\ \E s \in S : \A u \in S : Prices!AtMost(F[u], F[s])
           /\ \E s \in S : \A u \in S : Prices!AtMost(F[s], F[u])
<1> DEFINE T(d) == {s \in S : s <= d}
           Topped(d) == \E s \in T(d) : \A u \in T(d) : Prices!AtMost(F[u], F[s])
           Bottomed(d) == \E s \in T(d) : \A u \in T(d) : Prices!AtMost(F[s], F[u])
           D == {d \in 0 .. n : T(d) # {} => Topped(d) /\ Bottomed(d)}
<1>1. \A s \in S : s \in Int /\ 0 <= s /\ s <= n /\ F[s] \in Pair
  OBVIOUS
<1>2. 0 \in D
  <2>1. \A s \in T(0) : s = 0
    BY <1>1
  <2>2. ASSUME T(0) # {} PROVE Topped(0) /\ Bottomed(0)
    <3>1. 0 \in T(0) /\ F[0] \in Pair
      BY <2>1, <2>2
    <3>2. Prices!AtMost(F[0], F[0])
      BY <3>1, AtMostAll
    <3> QED
      BY <2>1, <3>1, <3>2
  <2> QED
    BY <2>2
<1>3. ASSUME NEW d \in 1 .. n, d - 1 \in D PROVE d \in D
  <2>1. d \in 0 .. n /\ d - 1 \in Int
    OBVIOUS
  <2>2. \A s \in T(d) : s \in T(d - 1) \/ s = d
    BY <1>1, <2>1
  <2>3. \A s \in T(d - 1) : s \in T(d)
    BY <1>1, <2>1
  <2>4. CASE d \notin S
    <3>1. T(d) = T(d - 1)
      BY <2>2, <2>3, <2>4
    <3> HIDE DEF T
    <3> QED
      BY <1>3, <2>1, <3>1
  <2>5. CASE d \in S
    <3>1. d \in T(d)
      BY <2>1, <2>5
    <3>2. CASE T(d - 1) = {}
      <4>1. \A s \in T(d) : s = d
        BY <2>2, <3>2
      <4>2. Prices!AtMost(F[d], F[d])
        BY <1>1, <2>5, AtMostAll
      <4>3. Topped(d) /\ Bottomed(d)
        BY <3>1, <4>1, <4>2
      <4> QED
        BY <2>1, <4>3
    <3>3. CASE T(d - 1) # {}
      <4>1. PICK s \in T(d - 1) : \A u \in T(d - 1) : Prices!AtMost(F[u], F[s])
        BY <1>3, <3>3
      <4>2. PICK r \in T(d - 1) : \A u \in T(d - 1) : Prices!AtMost(F[r], F[u])
        BY <1>3, <3>3
      <4>3. s \in T(d) /\ r \in T(d) /\ F[s] \in Pair /\ F[r] \in Pair /\ F[d] \in Pair
        BY <1>1, <2>3, <2>5
      <4>4. \A u \in T(d) : F[u] \in Pair
        BY <1>1
      <4> HIDE DEF T
      <4>5. Topped(d)
        <5>1. CASE Prices!AtMost(F[d], F[s])
          <6>1. \A u \in T(d) : Prices!AtMost(F[u], F[s])
            BY <2>2, <4>1, <5>1
          <6> QED
            BY <4>3, <6>1
        <5>2. CASE Prices!AtMost(F[s], F[d])
          <6>1. \A u \in T(d) : Prices!AtMost(F[u], F[d])
            <7> SUFFICES ASSUME NEW u \in T(d) PROVE Prices!AtMost(F[u], F[d])
              OBVIOUS
            <7>1. CASE u = d
              BY <4>3, <7>1, AtMostAll
            <7>2. CASE u \in T(d - 1)
              <8>1. Prices!AtMost(F[u], F[s])
                BY <4>1, <7>2
              <8> QED
                BY <4>3, <4>4, <5>2, <8>1, AtMostJoins
            <7> QED
              BY <2>2, <7>1, <7>2
          <6> QED
            BY <3>1, <6>1
        <5> QED
          BY <4>3, <5>1, <5>2, AtMostAll
      <4>6. Bottomed(d)
        <5>1. CASE Prices!AtMost(F[r], F[d])
          <6>1. \A u \in T(d) : Prices!AtMost(F[r], F[u])
            BY <2>2, <4>2, <5>1
          <6> QED
            BY <4>3, <6>1
        <5>2. CASE Prices!AtMost(F[d], F[r])
          <6>1. \A u \in T(d) : Prices!AtMost(F[d], F[u])
            <7> SUFFICES ASSUME NEW u \in T(d) PROVE Prices!AtMost(F[d], F[u])
              OBVIOUS
            <7>1. CASE u = d
              BY <4>3, <7>1, AtMostAll
            <7>2. CASE u \in T(d - 1)
              <8>1. Prices!AtMost(F[r], F[u])
                BY <4>2, <7>2
              <8> QED
                BY <4>3, <4>4, <5>2, <8>1, AtMostJoins
            <7> QED
              BY <2>2, <7>1, <7>2
          <6> QED
            BY <3>1, <6>1
        <5> QED
          BY <4>3, <5>1, <5>2, AtMostAll
      <4> HIDE DEF Topped, Bottomed
      <4> QED
        BY <2>1, <4>5, <4>6
    <3> QED
      BY <3>2, <3>3
  <2> QED
    BY <2>4, <2>5
<1>4. n \in D
  <2> HIDE DEF D
  <2>1. 0 .. n \subseteq D
    BY <1>2, <1>3, Induct
  <2> QED
    BY <2>1
<1>5. T(n) = S
  BY <1>1
<1> HIDE DEF T
<1> QED
  BY <1>4, <1>5

\* Highest and Lowest choose them.
LEMMA ExtremesAre ==
    ASSUME NEW n \in Nat, NEW S, S \subseteq 0 .. n, S # {}, NEW F, \A s \in S : F[s] \in Pair,
           NEW X, \A s \in S : F[s] \in X, \A x \in X : \E s \in S : x = F[s]
    PROVE  /\ \E s \in S : Prices!Highest(X) = F[s]
           /\ \E s \in S : Prices!Lowest(X) = F[s]
           /\ \A s \in S : Prices!AtMost(F[s], Prices!Highest(X))
           /\ \A s \in S : Prices!AtMost(Prices!Lowest(X), F[s])
<1> DEFINE top == Prices!Highest(X)
           bottom == Prices!Lowest(X)
<1>1. /\ \E s \in S : \A u \in S : Prices!AtMost(F[u], F[s])
      /\ \E s \in S : \A u \in S : Prices!AtMost(F[s], F[u])
  BY GreatestIs
<1>2. /\ \E p \in X : \A q \in X : Prices!AtMost(q, p)
      /\ \E p \in X : \A q \in X : Prices!AtMost(p, q)
  <2>1. PICK s \in S : \A u \in S : Prices!AtMost(F[u], F[s])
    BY <1>1
  <2>2. PICK r \in S : \A u \in S : Prices!AtMost(F[r], F[u])
    BY <1>1
  <2>3. F[s] \in X /\ F[r] \in X
    OBVIOUS
  <2>4. \A q \in X : Prices!AtMost(q, F[s]) /\ Prices!AtMost(F[r], q)
    BY <2>1, <2>2
  <2> QED
    BY <2>3, <2>4
<1>3. top \in X /\ \A q \in X : Prices!AtMost(q, top)
  BY <1>2 DEF Prices!Highest
<1>4. bottom \in X /\ \A q \in X : Prices!AtMost(bottom, q)
  BY <1>2 DEF Prices!Lowest
<1> HIDE DEF top, bottom
<1>5. /\ \E s \in S : top = F[s]
      /\ \E s \in S : bottom = F[s]
      /\ \A s \in S : Prices!AtMost(F[s], top)
      /\ \A s \in S : Prices!AtMost(bottom, F[s])
  BY <1>3, <1>4
<1> QED
  BY <1>5 DEF top, bottom

\* What a series says of a field between two sessions, in shares of its basis.
Values(series, field, entry, exit) ==
    {Prices!Adjusted(series, field, s) : s \in Prices!Window(series, entry, exit)}

\* The highest high and the lowest low of a window are values of its sessions.
LEMMA ValuesAre ==
    ASSUME PricesAssumption, Market, NEW series, NEW t, NEW from, NEW to,
           SeriesIs(series, t, from, to), NEW entry, NEW exit, NEW field \in Fields,
           Prices!Window(series, entry, exit) # {}
    PROVE  LET X == Values(series, field, entry, exit)
               W == Prices!Window(series, entry, exit)
           IN  /\ \A s \in W : Prices!Adjusted(series, field, s) \in Pair
               /\ \E s \in W : Prices!Highest(X) = Prices!Adjusted(series, field, s)
               /\ \E s \in W : Prices!Lowest(X) = Prices!Adjusted(series, field, s)
               /\ \A s \in W : Prices!AtMost(Prices!Adjusted(series, field, s), Prices!Highest(X))
               /\ \A s \in W : Prices!AtMost(Prices!Lowest(X), Prices!Adjusted(series, field, s))
<1> DEFINE W == Prices!Window(series, entry, exit)
           X == Values(series, field, entry, exit)
           F == [s \in W |-> Prices!Adjusted(series, field, s)]
<1>1. W \subseteq series.sessions /\ W \subseteq 0 .. EndOfTime
  BY ClosedIs DEF Prices!Window, SeriesIs
<1>2. \A s \in W : F[s] = Prices!Adjusted(series, field, s)
  OBVIOUS
<1>3. \A s \in W : F[s] \in Pair
  <2> SUFFICES ASSUME NEW s \in W PROVE Prices!Adjusted(series, field, s) \in Pair
    OBVIOUS
  <2> DEFINE p == <<bars[t][s][field], Fold(t, s, Basis(series))>>
  <2>1. s \in series.sessions
    BY <1>1
  <2>2. Prices!Adjusted(series, field, s) = Prices!Reduced(p) /\ p \in Pair
    BY <2>1, AdjustedIs
  <2> HIDE DEF p
  <2> QED
    BY <2>2, SameItself
<1>4. (\A s \in W : F[s] \in X) /\ \A x \in X : \E s \in W : x = F[s]
  BY DEF Values
<1>0. W # {} /\ EndOfTime \in Nat
  BY DEF PricesAssumption
<1> HIDE DEF W, X, F
<1>5. /\ \E s \in W : Prices!Highest(X) = F[s]
      /\ \E s \in W : Prices!Lowest(X) = F[s]
      /\ \A s \in W : Prices!AtMost(F[s], Prices!Highest(X))
      /\ \A s \in W : Prices!AtMost(Prices!Lowest(X), F[s])
  BY <1>0, <1>1, <1>3, <1>4, ExtremesAre
<1>6. /\ \A s \in W : Prices!Adjusted(series, field, s) \in Pair
      /\ \E s \in W : Prices!Highest(X) = Prices!Adjusted(series, field, s)
      /\ \E s \in W : Prices!Lowest(X) = Prices!Adjusted(series, field, s)
      /\ \A s \in W : Prices!AtMost(Prices!Adjusted(series, field, s), Prices!Highest(X))
      /\ \A s \in W : Prices!AtMost(Prices!Lowest(X), Prices!Adjusted(series, field, s))
  BY <1>2, <1>3, <1>5
<1> QED
  BY <1>6 DEF W, X

\* In one session, the low is at most the close, and that at most the high, in the
\* shares of whatever basis.
LEMMA LowCloseHigh ==
    ASSUME PricesAssumption, Market, NEW series, NEW t, NEW from, NEW to,
           SeriesIs(series, t, from, to), NEW s \in series.sessions
    PROVE  /\ Prices!AtMost(Prices!Adjusted(series, "low", s), Prices!Adjusted(series, "close", s))
           /\ Prices!AtMost(Prices!Adjusted(series, "close", s), Prices!Adjusted(series, "high", s))
           /\ Prices!Adjusted(series, "close", s) \in Pair
           /\ Prices!Adjusted(series, "close", s)[1] # 0
<1> DEFINE g == Fold(t, s, Basis(series))
           p == <<bars[t][s].low, g>>
           q == <<bars[t][s].close, g>>
           r == <<bars[t][s].high, g>>
<1>1. t \in Prices!Tickers /\ s \in Prices!Closed
  BY DEF SeriesIs
<1>2. /\ bars[t][s].close \in Pos /\ bars[t][s].high \in Nat /\ bars[t][s].low \in Nat
      /\ bars[t][s].low <= bars[t][s].close /\ bars[t][s].close <= bars[t][s].high
  BY <1>1, ClosedIs
<1>3. /\ Prices!Adjusted(series, "low", s) = Prices!Reduced(p) /\ p \in Pair /\ g \in Pos
      /\ Prices!Adjusted(series, "close", s) = Prices!Reduced(q) /\ q \in Pair
      /\ Prices!Adjusted(series, "high", s) = Prices!Reduced(r) /\ r \in Pair
  BY AdjustedIs DEF Fields
<1>4. p[1] <= q[1] /\ q[1] <= r[1] /\ p[2] = g /\ q[2] = g /\ r[2] = g /\ q[1] # 0
      /\ p[1] \in Int /\ q[1] \in Int /\ r[1] \in Int
  BY <1>2 DEF Pos
<1> HIDE DEF p, q, r, g
<1>5. p[1] * g <= q[1] * g /\ q[1] * g <= r[1] * g
  BY <1>3, <1>4, Cancel
<1>6. Prices!AtMost(p, q) /\ Prices!AtMost(q, r)
  BY <1>3, <1>4, <1>5, AtMostIs
<1> DEFINE x == Prices!Reduced(p)
           y == Prices!Reduced(q)
           z == Prices!Reduced(r)
<1>7. /\ x \in Pair /\ y \in Pair /\ z \in Pair
      /\ SameValue(x, p) /\ SameValue(y, q) /\ SameValue(z, r) /\ y[1] # 0
  BY <1>3, <1>4, SameItself, NotZero
<1> HIDE DEF x, y, z
<1>8. Prices!AtMost(x, y) <=> Prices!AtMost(p, q)
  BY <1>3, <1>7, AtMostSame
<1>9. Prices!AtMost(y, z) <=> Prices!AtMost(q, r)
  BY <1>3, <1>7, AtMostSame
<1> QED
  BY <1>3, <1>6, <1>7, <1>8, <1>9 DEF x, y, z

\* The worst is at most one and at most the return, the best at least both.
LEMMA ExcursionsAre ==
    ASSUME PricesAssumption, Market, NEW series, NEW t, NEW from, NEW to,
           SeriesIs(series, t, from, to),
           NEW entry \in series.sessions, NEW exit \in series.sessions, entry <= exit,
           NEW worst, NEW best, NEW price,
           worst = Prices!Over(Prices!Lowest(Values(series, "low", entry, exit)),
                               Prices!Adjusted(series, "close", entry)),
           best = Prices!Over(Prices!Highest(Values(series, "high", entry, exit)),
                              Prices!Adjusted(series, "close", entry)),
           price = Prices!PriceReturn(series, entry, exit)
    PROVE  /\ Prices!AtMost(worst, One) /\ Prices!AtMost(One, best)
           /\ Prices!AtMost(worst, price) /\ Prices!AtMost(price, best)
<1> DEFINE W == Prices!Window(series, entry, exit)
           low(s) == Prices!Adjusted(series, "low", s)
           close(s) == Prices!Adjusted(series, "close", s)
           high(s) == Prices!Adjusted(series, "high", s)
           bottom == Prices!Lowest(Values(series, "low", entry, exit))
           top == Prices!Highest(Values(series, "high", entry, exit))
<1>1. entry \in W /\ exit \in W
  BY BasisIs DEF Prices!Window
<1>2. \A s \in {entry, exit} : /\ Prices!AtMost(low(s), close(s)) /\ Prices!AtMost(close(s), high(s))
                               /\ close(s) \in Pair /\ close(s)[1] # 0
  BY LowCloseHigh
<1>3. /\ \A s \in W : low(s) \in Pair /\ Prices!AtMost(bottom, low(s))
      /\ \E s \in W : bottom = low(s)
  BY <1>1, ValuesAre DEF Fields
<1>4. /\ \A s \in W : high(s) \in Pair /\ Prices!AtMost(high(s), top)
      /\ \E s \in W : top = high(s)
  BY <1>1, ValuesAre DEF Fields
<1>5. bottom \in Pair /\ top \in Pair
  BY <1>3, <1>4
<1>6. price = Prices!Over(close(exit), close(entry))
  BY DEF Prices!PriceReturn
<1> HIDE DEF W, low, close, high, bottom, top
<1>7. \A s \in {entry, exit} : Prices!AtMost(bottom, close(s)) /\ Prices!AtMost(close(s), top)
  <2> SUFFICES ASSUME NEW s \in {entry, exit}
               PROVE  Prices!AtMost(bottom, close(s)) /\ Prices!AtMost(close(s), top)
    OBVIOUS
  <2>1. s \in W
    BY <1>1
  <2>2. low(s) \in Pair /\ high(s) \in Pair /\ close(s) \in Pair
    BY <1>2, <1>3, <1>4, <2>1
  <2>3. Prices!AtMost(bottom, low(s)) /\ Prices!AtMost(low(s), close(s))
    BY <1>2, <1>3, <2>1
  <2>4. Prices!AtMost(close(s), high(s)) /\ Prices!AtMost(high(s), top)
    BY <1>2, <1>4, <2>1
  <2> QED
    BY <1>5, <2>2, <2>3, <2>4, AtMostJoins
<1>8. close(entry) \in Pair /\ close(exit) \in Pair /\ close(entry)[1] # 0
  BY <1>2
<1>9. Prices!Over(close(entry), close(entry)) = One
  BY <1>8, OverItself
<1>10. /\ Prices!AtMost(bottom, close(entry)) /\ Prices!AtMost(close(entry), top)
       /\ Prices!AtMost(bottom, close(exit)) /\ Prices!AtMost(close(exit), top)
  BY <1>7
<1>11. /\ Prices!AtMost(Prices!Over(bottom, close(entry)), Prices!Over(close(entry), close(entry)))
       /\ Prices!AtMost(Prices!Over(close(entry), close(entry)), Prices!Over(top, close(entry)))
       /\ Prices!AtMost(Prices!Over(bottom, close(entry)), Prices!Over(close(exit), close(entry)))
       /\ Prices!AtMost(Prices!Over(close(exit), close(entry)), Prices!Over(top, close(entry)))
  BY <1>5, <1>8, <1>10, OverOrder
<1>12. worst = Prices!Over(bottom, close(entry)) /\ best = Prices!Over(top, close(entry))
  BY DEF bottom, top, close
<1> QED
  BY <1>6, <1>9, <1>11, <1>12

\* The target of a basis whose reference close was divided by no later split, in
\* the shares of a later series.
LEMMA RebasedIs ==
    ASSUME PricesAssumption, Market, NEW series, NEW from, NEW to,
           SeriesIs(series, "instrument", from, to), NEW taken, NEW target \in Nat,
           taken.session \in series.sessions,
           taken.multiple = Prices!Over(<<target, 1>>,
                                        Prices!Reduced(<<bars["instrument"][taken.session].close, 1>>))
    PROVE  LET x == <<target, Fold("instrument", taken.session, Basis(series))>>
           IN  x \in Pair /\ Prices!RebasedTarget(series, taken) = Prices!Reduced(x)
<1> DEFINE r == taken.session
           c == bars["instrument"][r].close
           g == Fold("instrument", r, Basis(series))
           p == <<target, 1>>
           q == <<c, 1>>
           y == <<c, g>>
           u == <<p[1] * q[2], p[2] * q[1]>>
           x == <<target, g>>
           v == Prices!Reduced(q)
           w == Prices!Reduced(y)
           m == Prices!Reduced(u)
<1>1. r \in Prices!Closed /\ "instrument" \in Prices!Tickers
  BY DEF SeriesIs, Prices!Tickers
<1>2. c \in Pos
  BY <1>1, ClosedIs
<1>3. Prices!Adjusted(series, "close", r) = w /\ y \in Pair /\ g \in Pos
  BY AdjustedIs DEF Fields
<1>4. p \in Pair /\ q \in Pair /\ x \in Pair /\ q[1] = c /\ q[2] = 1 /\ p[1] = target /\ p[2] = 1
      /\ y[1] = c /\ y[2] = g /\ x[1] = target /\ x[2] = g /\ c # 0
  BY <1>2, <1>3 DEF Pair, Pos
<1>5. taken.multiple = Prices!Over(p, v) /\ Prices!RebasedTarget(series, taken) = Prices!Times(taken.multiple, w)
  BY <1>3 DEF Prices!RebasedTarget
<1>6. u[1] = target /\ u[2] = c
  BY <1>2, <1>4 DEF Pos
<1> HIDE DEF r, c, g, p, q, y, x, v, w, m
<1>7. v \in Pair /\ SameValue(v, q) /\ v[1] # 0 /\ SameValue(p, p) /\ w \in Pair /\ SameValue(w, y)
  BY <1>3, <1>4, SameItself, NotZero DEF v, w
<1>8. Prices!Over(p, v) = Prices!Over(p, q)
  BY <1>4, <1>7, OverSame
<1>9. Prices!Over(p, q) = Prices!Reduced(u) /\ u \in Pair
  BY <1>4, OverIs
<1> HIDE DEF u
<1>10. m \in Pair /\ SameValue(m, u) /\ taken.multiple = m
  BY <1>5, <1>8, <1>9, SameItself DEF m
<1>11. Prices!Times(m, w) = Prices!Times(u, y)
  BY <1>3, <1>7, <1>9, <1>10, TimesSame
<1> DEFINE z == <<u[1] * y[1], u[2] * y[2]>>
<1>12. Prices!Times(u, y) = Prices!Reduced(z) /\ z \in Pair
  BY <1>3, <1>9, TimesIs
<1>13. SameValue(z, x)
  <2>1. z[1] = target * c /\ z[2] = c * g
    BY <1>4, <1>6
  <2>2. target \in Int /\ c \in Int /\ g \in Int
    BY <1>2, <1>3 DEF Pos
  <2>3. (target * c) * g = target * (c * g)
    BY <2>2
  <2> QED
    BY <1>4, <2>1, <2>3 DEF SameValue
<1> HIDE DEF z
<1>14. Prices!Reduced(z) = Prices!Reduced(x)
  BY <1>4, <1>12, <1>13, ReducedSame
<1>15. x \in Pair /\ Prices!RebasedTarget(series, taken) = Prices!Reduced(x)
  BY <1>4, <1>5, <1>10, <1>11, <1>12, <1>14
<1> QED
  BY <1>15 DEF x, g, r

\* The target compares with a price in the series as it does with the worth of a
\* share of the reference session.
LEMMA ReachedIs ==
    ASSUME PricesAssumption, Market, NEW series, NEW from, NEW to,
           SeriesIs(series, "instrument", from, to), NEW target \in Nat, NEW field \in Fields,
           NEW r \in series.sessions, NEW s \in series.sessions, r <= s, NEW rebased,
           rebased = Prices!Reduced(<<target, Fold("instrument", r, Basis(series))>>)
    PROVE  /\ Prices!AtMost(rebased, Prices!Adjusted(series, field, s))
                <=> Prices!AtMost(<<target, 1>>, Prices!Worth(field, r, s))
           /\ Prices!AtMost(Prices!Adjusted(series, field, s), rebased)
                <=> Prices!AtMost(Prices!Worth(field, r, s), <<target, 1>>)
<1> DEFINE h == Fold("instrument", r, Basis(series))
           g == Fold("instrument", s, Basis(series))
           n == Fold("instrument", r, s)
           v == bars["instrument"][s][field]
           x == <<target, h>>
           y == <<v, g>>
           p == <<target, 1>>
           q == <<v, 1>>
           k == <<n, 1>>
<1>1. r \in Prices!Closed /\ s \in Prices!Closed /\ "instrument" \in Prices!Tickers
  BY DEF SeriesIs, Prices!Tickers
<1>2. r \in Int /\ s \in Int /\ Basis(series) \in Int /\ s <= Basis(series)
  BY BasisIs
<1>3. h \in Pos /\ n \in Pos /\ h = n * g
  BY <1>1, <1>2, SplitsAre, FoldsJoin
<1>4. Prices!Adjusted(series, field, s) = Prices!Reduced(y) /\ y \in Pair /\ v \in Nat /\ g \in Pos
  BY AdjustedIs
<1>5. Prices!Worth(field, r, s) = Prices!Times(q, k)
  BY <1>1, SplitsAre DEF Prices!Worth
<1>6. x \in Pair /\ q \in Pair /\ k \in Pair /\ p \in Pair
      /\ x[1] = target /\ x[2] = h /\ y[1] = v /\ y[2] = g /\ p[1] = target /\ p[2] = 1
      /\ q[1] = v /\ q[2] = 1 /\ k[1] = n /\ k[2] = 1
  BY <1>3, <1>4 DEF Pair, Pos
<1>7. rebased = Prices!Reduced(x)
  OBVIOUS
<1> HIDE DEF h, g, n, v, x, y, p, q, k
<1> DEFINE z == <<q[1] * k[1], q[2] * k[2]>>
<1>8. Prices!Times(q, k) = Prices!Reduced(z) /\ z \in Pair
  BY <1>6, TimesIs
<1>9. z[1] = v * n /\ z[2] = 1
  BY <1>6
<1> HIDE DEF z
<1>10. /\ Prices!AtMost(x, y) <=> target * g <= v * h
       /\ Prices!AtMost(y, x) <=> v * h <= target * g
       /\ Prices!AtMost(p, z) <=> target * 1 <= (v * n) * 1
       /\ Prices!AtMost(z, p) <=> (v * n) * 1 <= target * 1
  BY <1>4, <1>6, <1>8, <1>9, AtMostIs
<1>11. v * h = (v * n) * g /\ v * n \in Int /\ target \in Int
  <2>1. v \in Int /\ n \in Int /\ g \in Int
    BY <1>3, <1>4 DEF Pos
  <2> QED
    BY <1>3, <2>1
<1>12. /\ target * g <= (v * n) * g <=> target <= v * n
       /\ (v * n) * g <= target * g <=> v * n <= target
  BY <1>4, <1>11, Cancel
<1>13. target * 1 = target /\ (v * n) * 1 = v * n
  BY <1>11
<1>14. /\ Prices!AtMost(x, y) <=> Prices!AtMost(p, z)
       /\ Prices!AtMost(y, x) <=> Prices!AtMost(z, p)
  BY <1>10, <1>11, <1>12, <1>13
<1> DEFINE a == Prices!Reduced(x)
           b == Prices!Reduced(y)
           c == Prices!Reduced(z)
<1>15. /\ a \in Pair /\ b \in Pair /\ c \in Pair
       /\ SameValue(a, x) /\ SameValue(b, y) /\ SameValue(c, z) /\ SameValue(p, p)
  BY <1>4, <1>6, <1>8, SameItself
<1> HIDE DEF a, b, c
<1>16. (Prices!AtMost(a, b) <=> Prices!AtMost(x, y)) /\ (Prices!AtMost(b, a) <=> Prices!AtMost(y, x))
  BY <1>4, <1>6, <1>15, AtMostSame
<1>17. (Prices!AtMost(p, c) <=> Prices!AtMost(p, z)) /\ (Prices!AtMost(c, p) <=> Prices!AtMost(z, p))
  BY <1>6, <1>8, <1>15, AtMostSame
<1>18. /\ Prices!Adjusted(series, field, s) = b /\ rebased = a /\ Prices!Worth(field, r, s) = c
  BY <1>4, <1>5, <1>7, <1>8 DEF a, b, c
<1>19. /\ Prices!AtMost(rebased, Prices!Adjusted(series, field, s))
                <=> Prices!AtMost(p, Prices!Worth(field, r, s))
       /\ Prices!AtMost(Prices!Adjusted(series, field, s), rebased)
                <=> Prices!AtMost(Prices!Worth(field, r, s), p)
  BY <1>14, <1>16, <1>17, <1>18
<1> QED
  BY <1>19 DEF p

\* The first session from a date on, and the one that is the horizon away.
LEMMA CalendarIs ==
    ASSUME PricesAssumption, NEW d \in DecisionDates
    PROVE  /\ Prices!EntrySession(d) \in Sessions /\ Prices!ExitSession(d) \in Sessions
           /\ d \in Int /\ Prices!EntrySession(d) \in Int /\ Prices!ExitSession(d) \in Int
           /\ d <= Prices!EntrySession(d) /\ Prices!EntrySession(d) <= Prices!ExitSession(d)
<1> DEFINE e == Prices!EntrySession(d)
           x == Prices!ExitSession(d)
           S == {s \in Sessions : s >= d}
<1>1. \E s \in Sessions : s >= d /\ Cardinality({u \in Sessions : d <= u /\ u <= s}) = Horizon + 1
  BY DEF PricesAssumption
<1>2. x \in Sessions /\ x >= d
  <2>1. \E s \in Sessions : /\ s >= d
                            /\ Prices!Cardinality({u \in Sessions : d <= u /\ u <= s}) = Horizon + 1
    BY <1>1, Zenon DEF Cardinality, Prices!Cardinality
  <2> QED
    BY <2>1 DEF Prices!ExitSession
<1>3. Sessions \subseteq Int /\ Sessions \in SUBSET Nat /\ d \in Int
  BY DEF PricesAssumption, Pos
<1>4. S \in SUBSET Nat /\ S # {}
  BY <1>2, <1>3
<1>5. \E m \in S : \A y \in S : m <= y
  BY <1>4, L!LeastOf
<1>6. e = Prices!Min(S)
  BY DEF Prices!EntrySession
<1> HIDE DEF e, x
<1>7. e \in S /\ \A y \in S : e <= y
  BY <1>5, <1>6 DEF Prices!Min
<1>8. e \in Sessions /\ e \in Int /\ x \in Int /\ d <= e /\ e <= x
  BY <1>2, <1>3, <1>7
<1> QED
  BY <1>2, <1>3, <1>8 DEF e, x

\* What was earned up to a session that has closed stays as it is.
LEMMA EarnedStays ==
    ASSUME PricesAssumption, Market, Prices!DayEnds, NEW t \in Prices!Tickers,
           NEW entry \in Prices!Closed, NEW exit \in Prices!Closed
    PROVE  /\ Prices!Earned(t, entry, exit)' = Prices!Earned(t, entry, exit)
           /\ \A field : Prices!Worth(field, entry, exit)' = Prices!Worth(field, entry, exit)
<1>1. entry \in Int /\ exit \in Int /\ exit < day
  BY ClosedIs
<1>2. "instrument" \in Prices!Tickers
  BY DEF Prices!Tickers
<1>3. /\ Prices!SplitsBetween(t, entry, exit)' = Prices!SplitsBetween(t, entry, exit)
      /\ Prices!SplitsBetween("instrument", entry, exit)' = Prices!SplitsBetween("instrument", entry, exit)
  BY <1>1, <1>2, SplitsStay
<1>4. /\ bars'[t][entry] = bars[t][entry] /\ bars'[t][exit] = bars[t][exit]
      /\ bars'["instrument"][exit] = bars["instrument"][exit]
  BY <1>2, MarketGrows
<1> QED
  BY <1>3, <1>4 DEF Prices!Earned, Prices!Worth

\* What was earned in total up to a session that has closed stays as it is.
LEMMA TotalStays ==
    ASSUME PricesAssumption, Market, Prices!DayEnds, NEW t \in Prices!Tickers,
           NEW entry \in Prices!Closed, NEW exit \in Prices!Closed
    PROVE  Prices!EarnedInTotal(t, entry, exit)' = Prices!EarnedInTotal(t, entry, exit)
<1>1. /\ Prices!Closed \subseteq Prices!Closed'
      /\ \A s \in Prices!Closed' : s < day => s \in Prices!Closed
      /\ \A s \in Prices!Closed : bars'[t][s] = bars[t][s]
      /\ Prices!Closed' \subseteq Int /\ day \in Int /\ exit < day /\ entry \in Int /\ exit \in Int
  <2>1. Prices!Closed' \subseteq Int
    BY MarketGrows
  <2>2. entry \in Int /\ exit \in Int /\ exit < day
    BY ClosedIs
  <2>3. day \in Int
    BY DEF Market
  <2> QED
    BY <2>1, <2>2, <2>3, MarketGrows
<1>2. \A u \in Prices!Closed' : u <= exit => u \in Prices!Closed
  BY <1>1
<1>3. {u \in Prices!Closed' : entry < u /\ u <= exit} = {u \in Prices!Closed : entry < u /\ u <= exit}
  BY <1>1, <1>2, Zenon
<1>4. ASSUME NEW s \in Prices!Closed, entry < s, s <= exit
      PROVE  Growth(t, s)' = Growth(t, s)
  <2>1. \A u \in Prices!Closed' : u < s => u \in Prices!Closed
    BY <1>1, <1>2, <1>4
  <2>2. {u \in Prices!Closed' : u < s} = {u \in Prices!Closed : u < s}
    BY <1>1, <2>1, Zenon
  <2>3. Before(Prices!Closed, s)' = Before(Prices!Closed, s)
    BY <2>2 DEF Before, Prices!Max
  <2>4. Before(Prices!Closed, s) \in Prices!Closed
    BY <1>4, BeforeIs
  <2>5. /\ bars'[t][s] = bars[t][s]
        /\ bars'[t][Before(Prices!Closed, s)] = bars[t][Before(Prices!Closed, s)]
    BY <1>1, <2>4
  <2> QED
    BY <2>3, <2>5 DEF Growth
<1>5. Growing(t, entry, exit)' = Growing(t, entry, exit)
  BY <1>3, <1>4 DEF Growing
<1>6. /\ Prices!EarnedInTotal(t, entry, exit) = Prices!Product(Growing(t, entry, exit))
      /\ Prices!EarnedInTotal(t, entry, exit)' = Prices!Product(Growing(t, entry, exit)')
  BY DEF Prices!EarnedInTotal, Growing, Growth, Before, Prices!Product
<1> QED
  BY <1>5, <1>6

-----------------------------------------------------------------------------
(* Prices: target and outcome, step by step *)

\* The multiple of a basis is that of the close of session r, in shares of day p,
\* and those of the session itself if the provider reports what was traded.
FrozenAs(r, p) ==
    /\ basis.provider \in Prices!AsTraded => Fold("instrument", r, p) = 1
    /\ basis.multiple = Prices!Over(<<decision.target, 1>>,
          Prices!Reduced(<<bars["instrument"][r].close, Fold("instrument", r, p)>>))

\* A completed basis is of a session up to the analysis date, and if that had
\* closed, of its close.
BasisHolds(d) ==
    /\ basis.status = "completed" => basis.session \in Sessions /\ basis.session <= d
    /\ \A r \in Sessions :
          (basis.status = "completed" /\ basis.settled /\ basis.session = r) =>
              r \in Prices!Closed /\ \E p \in 0 .. day - 1 : FrozenAs(r, p)

\* The worker has claimed a validation whose exit session had closed, with a basis
\* that stays if it is completed, and has prices as a provider had them.
ClaimHolds(d) ==
    claim.status \in {"claimed", "priced"} =>
        /\ Prices!ExitSession(d) \in Prices!Closed
        /\ claim.basis.status = "completed" => basis = claim.basis
        /\ \A series : (claim.status = "priced" /\ claim.series = series)
                           => SeriesIs(series, "instrument", d - Background, Prices!ExitSession(d))

\* Returns, excursions and direction, as ReturnsAreEarned has them.
IsEarned(o, entry, exit) ==
    /\ o.price = Prices!Earned("instrument", entry, exit)
    /\ o.total = Prices!EarnedInTotal("instrument", entry, exit)
    /\ o.benchmark = Prices!EarnedInTotal("benchmark", entry, exit)
    /\ o.direction = Prices!DirectionCorrect(Prices!EarnedInTotal("instrument", entry, exit),
                                                      Prices!EarnedInTotal("benchmark", entry, exit))
    /\ Prices!AtMost(o.worst, <<1, 1>>) /\ Prices!AtMost(<<1, 1>>, o.best)
    /\ Prices!AtMost(o.worst, o.price)
    /\ Prices!AtMost(o.price, o.best)

\* The target was reached if a share of the reference session was worth it.
IsReached(o, entry, exit, r) ==
    /\ "bullish" \in o.hit
          <=> \E s \in Prices!Closed : /\ entry <= s /\ s <= exit
                                       /\ Prices!AtMost(<<decision.target, 1>>, Prices!Worth("high", r, s))
    /\ "bearish" \in o.hit
          <=> \E s \in Prices!Closed : /\ entry <= s /\ s <= exit
                                       /\ Prices!AtMost(Prices!Worth("low", r, s), <<decision.target, 1>>)

\* A completed outcome is that of two sessions that have closed; that a target was
\* evaluated means a completed basis, and a sound one that it was judged rightly.
OutcomeHolds(d) ==
    validation.status = "completed" =>
        /\ Prices!EntrySession(d) \in Prices!Closed /\ Prices!ExitSession(d) \in Prices!Closed
        /\ IsEarned(validation, Prices!EntrySession(d), Prices!ExitSession(d))
        /\ validation.target = "evaluated" => basis.status = "completed"
        /\ \A r \in Sessions :
              (validation.target = "evaluated" /\ basis.session = r /\ Prices!BasisIsSound(basis))
                  => IsReached(validation, Prices!EntrySession(d), Prices!ExitSession(d), r)

\* Statuses, and that nothing starts before there is a decision.
PricesTyped ==
    /\ decision \in [date : DecisionDates \cup {0}, target : Targets \cup {0}]
    /\ basis.status \in {"none", "pending", "unavailable", "completed"}
    /\ claim.status \in {"none", "claimed", "priced"}
    /\ validation.status \in {"none", "scheduled", "completed", "unavailable"}
    /\ decision.date = 0 => basis.status = "none" /\ claim.status = "none" /\ validation.status = "none"
    /\ decision.date = 0 => claim = Prices!Unset

\* What lets OutcomeIsTrue be proved.
PricesInv ==
    /\ Market /\ PricesTyped
    /\ \A d \in DecisionDates : decision.date = d => BasisHolds(d) /\ ClaimHolds(d) /\ OutcomeHolds(d)

\* A decision has a date.
LEMMA NoDate == ASSUME PricesAssumption PROVE 0 \notin DecisionDates /\ \A d \in DecisionDates : d \in Int
  BY DEF PricesAssumption, Pos

\* The invariant holds before the first session.
LEMMA PricesInit ==
    ASSUME PricesAssumption, Prices!Init PROVE PricesInv
<1>1. /\ day = 1 /\ decision = [date |-> 0, target |-> 0]
      /\ basis = Prices!Unset /\ claim = Prices!Unset /\ validation = Prices!Unset
  BY DEF Prices!Init
<1>2. \A t \in Prices!Tickers : bars[t] = << >>
  BY DEF Prices!Init
<1>3. {s \in Sessions : s < day} = {}
  <2>1. \A s \in Pos : ~(s < 1)
    BY DEF Pos
  <2>2. Sessions \subseteq Pos
    BY DEF PricesAssumption
  <2>3. \A s \in Sessions : ~(s < day)
    BY <1>1, <2>1, <2>2
  <2> QED
    BY <2>3
<1>4. << >> \in [{} -> BarRecord]
  <2>1. << >> \in Seq(BarRecord) /\ Len(<< >>) = 0
    BY EmptySeq
  <2>2. << >> \in [1 .. 0 -> BarRecord]
    BY <2>1, LenProperties
  <2>3. 1 .. 0 = {}
    OBVIOUS
  <2> QED
    BY <2>2, <2>3
<1>5. Market
  <2>1. bars = [t \in Prices!Tickers |-> bars[t]]
    BY DEF Prices!Init
  <2>2. day \in 1 .. EndOfTime
    BY <1>1 DEF PricesAssumption
  <2> QED
    BY <1>2, <1>3, <1>4, <2>1, <2>2, Zenon DEF Market
<1>6. PricesTyped
  BY <1>1 DEF PricesTyped, Prices!Unset
<1>7. \A d \in DecisionDates : decision.date # d
  BY <1>1, NoDate
<1> QED
  BY <1>5, <1>6, <1>7 DEF PricesInv

\* A product of whole numbers that is one is one of any of its factors.
LEMMA FactorsOfOne ==
    ASSUME EndOfTime \in Nat, NEW f, NEW g, DOMAIN g \subseteq DOMAIN f,
           \A d \in DOMAIN f : \E n \in Pos : f[d] = <<n, 1>>,
           \A d \in DOMAIN g : g[d] = f[d], Prices!Product(f) = One
    PROVE  Prices!Product(g) = One
<1> DEFINE h == [d \in DOMAIN f \ DOMAIN g |-> f[d]]
<1>1. DOMAIN h = DOMAIN f \ DOMAIN g /\ \A d \in DOMAIN h : h[d] = f[d]
  OBVIOUS
<1> HIDE DEF h
<1>2. \A d \in DOMAIN f : f[d] \in Pair
  BY OneIs DEF Frac, Pos
<1>3. Prices!Product(f) = Prices!Times(Prices!Product(g), Prices!Product(h))
  <2>1. DOMAIN f = DOMAIN g \cup DOMAIN h /\ DOMAIN g \cap DOMAIN h = {}
    BY <1>1
  <2> QED
    BY <1>1, <1>2, <2>1, ProductJoins
<1>4. PICK a \in Pos : Prices!Product(g) = <<a, 1>>
  BY ProductWhole
<1>5. PICK b \in Pos : Prices!Product(h) = <<b, 1>>
  BY <1>1, ProductWhole
<1> DEFINE p == <<a, 1>>
           q == <<b, 1>>
           z == <<p[1] * q[1], p[2] * q[2]>>
<1>6. p \in Pair /\ q \in Pair /\ p[1] = a /\ q[1] = b /\ p[2] = 1 /\ q[2] = 1
      /\ a \in Int /\ b \in Int /\ a >= 1 /\ b >= 1
  BY OneIs DEF Frac, Pos
<1> HIDE DEF p, q
<1>7. Prices!Times(p, q) = Prices!Reduced(z) /\ z \in Pair
  BY <1>6, TimesIs
<1>8. z[1] = a * b /\ z[2] = 1
  BY <1>6
<1> HIDE DEF z
<1>9. SameValue(z, One)
  <2>1. One = Prices!Reduced(z)
    BY <1>3, <1>4, <1>5, <1>7 DEF p, q
  <2> QED
    BY <1>7, <2>1, SameItself, SameTurns, OneIs
<1>10. a * b = 1
  <2>1. a * b \in Int
    BY <1>6
  <2> QED
    BY <1>8, <1>9, <2>1, OneIs DEF SameValue
<1>11. a = 1
  <2>1. CASE a >= 2
    <3>1. 2 * b <= a * b
      BY <1>6, <2>1, Cancel
    <3> QED
      BY <1>6, <1>10, <3>1
  <2> QED
    BY <1>6, <2>1
<1> QED
  BY <1>4, <1>11 DEF One

\* A target that no split has touched now had not been touched before.
LEMMA NoSplitsBefore ==
    ASSUME PricesAssumption, Market, Prices!DayEnds, NEW t \in Prices!Tickers, NEW r, NEW u,
           Prices!SplitsBetween(t, r, u)' = One
    PROVE  Prices!SplitsBetween(t, r, u) = One
<1> DEFINE f == Splitting(t, r, u)'
           g == Splitting(t, r, u)
<1>1. /\ Prices!SplitsBetween(t, r, u) = Prices!Product(g)
      /\ Prices!SplitsBetween(t, r, u)' = Prices!Product(f)
  BY DEF Prices!SplitsBetween, Splitting, Prices!Product
<1>2. /\ Market' /\ Prices!Closed \subseteq Prices!Closed'
      /\ \A s \in Prices!Closed : bars'[t][s] = bars[t][s]
  BY MarketGrows
<1>3. \A s \in Prices!Closed' : bars'[t][s].split \in Pos
  BY <1>2 DEF Market, Prices!Closed, Prices!Tickers, BarRecord
<1>4. DOMAIN g \subseteq DOMAIN f /\ \A d \in DOMAIN g : g[d] = f[d]
  BY <1>2 DEF Splitting
<1>5. \A d \in DOMAIN f : \E n \in Pos : f[d] = <<n, 1>>
  BY <1>3 DEF Splitting
<1> HIDE DEF f, g
<1> QED
  BY <1>1, <1>4, <1>5, FactorsOfOne DEF PricesAssumption

\* A day that ends changes nothing of what has closed.
LEMMA PricesDayEnds ==
    ASSUME PricesAssumption, PricesInv, Prices!DayEnds PROVE PricesInv'
<1>1. /\ Market /\ PricesTyped
      /\ \A d \in DecisionDates : decision.date = d => BasisHolds(d) /\ ClaimHolds(d) /\ OutcomeHolds(d)
  BY DEF PricesInv
<1>2. /\ decision' = decision /\ basis' = basis /\ claim' = claim /\ validation' = validation
  BY DEF Prices!DayEnds
<1>3. /\ Market' /\ day' = day + 1 /\ Prices!Closed \subseteq Prices!Closed'
      /\ Prices!Closed' \subseteq Int
      /\ \A s \in Prices!Closed' : s < day => s \in Prices!Closed
      /\ \A t \in Prices!Tickers, s \in Prices!Closed : bars'[t][s] = bars[t][s]
  BY <1>1, MarketGrows
<1>4. day \in Int /\ Prices!Closed \subseteq Int /\ EndOfTime \in Int /\ day <= EndOfTime
      /\ \A s \in Prices!Closed : s < day
  <2>1. day \in Int /\ EndOfTime \in Int /\ day <= EndOfTime
    BY <1>1 DEF Market, PricesAssumption
  <2> QED
    BY <1>1, <2>1, ClosedIs
<1>5. "instrument" \in Prices!Tickers /\ "benchmark" \in Prices!Tickers
  BY DEF Prices!Tickers
<1>6. PricesTyped'
  BY <1>1, <1>2 DEF PricesTyped
<1> SUFFICES ASSUME NEW d \in DecisionDates, decision.date = d
             PROVE  BasisHolds(d)' /\ ClaimHolds(d)' /\ OutcomeHolds(d)'
  BY <1>2, <1>3, <1>6 DEF PricesInv
<1>7. BasisHolds(d) /\ ClaimHolds(d) /\ OutcomeHolds(d)
  BY <1>1
<1>8. BasisHolds(d)'
  <2>1. ASSUME NEW r \in Sessions,
               basis.status = "completed", basis.settled, basis.session = r
        PROVE  r \in Prices!Closed' /\ \E p \in 0 .. day' - 1 : FrozenAs(r, p)'
    <3>1. r \in Prices!Closed /\ \E p \in 0 .. day - 1 : FrozenAs(r, p)
      BY <1>7, <2>1 DEF BasisHolds
    <3>2. PICK p \in 0 .. day - 1 : FrozenAs(r, p)
      BY <3>1
    <3>3. p \in 0 .. day' - 1 /\ p \in Int /\ p < day /\ r \in Int
      <4>1. day' - 1 = day /\ day \in Int
        BY <1>3, <1>4
      <4>2. p \in Int /\ 0 <= p /\ p < day
        BY <4>1
      <4>3. r \in Int
        BY <1>4, <3>1
      <4> QED
        BY <4>1, <4>2, <4>3
    <3>4. Prices!SplitsBetween("instrument", r, p)' = Prices!SplitsBetween("instrument", r, p)
      BY <1>1, <1>5, <3>3, SplitsStay
    <3>5. Fold("instrument", r, p)' = Fold("instrument", r, p)
      BY <3>4 DEF Fold
    <3>6. bars'["instrument"][r] = bars["instrument"][r]
      BY <1>3, <1>5, <3>1
    <3>7. FrozenAs(r, p)'
      BY <1>2, <3>2, <3>5, <3>6 DEF FrozenAs, Prices!AsTraded
    <3> QED
      BY <1>3, <3>1, <3>3, <3>7
  <2> QED
    BY <1>2, <1>7, <2>1 DEF BasisHolds
<1>9. ClaimHolds(d)'
  <2>1. ASSUME NEW series, SeriesIs(series, "instrument", d - Background, Prices!ExitSession(d))
        PROVE  SeriesIs(series, "instrument", d - Background, Prices!ExitSession(d))'
    <3>1. series.published \in 0 .. day - 1
      BY <2>1 DEF SeriesIs
    <3>2. series.published \in 0 .. day' - 1 /\ series.published \in Int /\ series.published < day
      BY <1>3, <1>4, <3>1
    <3>3. \A s \in Prices!Closed' : s <= series.published => s \in Prices!Closed
      <4>1. \A s \in Int : s <= series.published => s < day
        BY <1>4, <3>2
      <4> QED
        BY <1>3, <4>1
    <3>4. series.sessions = {s \in Prices!Closed' : /\ d - Background <= s /\ s <= Prices!ExitSession(d)
                                                    /\ s <= series.published}
      BY <1>3, <2>1, <3>3 DEF SeriesIs
    <3> QED
      BY <2>1, <3>2, <3>4 DEF SeriesIs
  <2> QED
    BY <1>2, <1>3, <1>7, <2>1 DEF ClaimHolds
<1>10. OutcomeHolds(d)'
  <2> SUFFICES ASSUME validation.status = "completed" PROVE OutcomeHolds(d)'
    BY <1>2 DEF OutcomeHolds
  <2> DEFINE e == Prices!EntrySession(d)
             x == Prices!ExitSession(d)
  <2>1. /\ e \in Prices!Closed /\ x \in Prices!Closed /\ IsEarned(validation, e, x)
        /\ validation.target = "evaluated" => basis.status = "completed"
        /\ \A r \in Sessions :
              (validation.target = "evaluated" /\ basis.session = r /\ Prices!BasisIsSound(basis))
                  => IsReached(validation, e, x, r)
    BY <1>7 DEF OutcomeHolds
  <2> HIDE DEF e, x
  <2>2. \A t \in Prices!Tickers : /\ Prices!Earned(t, e, x)' = Prices!Earned(t, e, x)
                                  /\ Prices!EarnedInTotal(t, e, x)' = Prices!EarnedInTotal(t, e, x)
    BY <1>1, <2>1, EarnedStays, TotalStays
  <2>3. IsEarned(validation, e, x)'
    BY <1>2, <1>5, <2>1, <2>2 DEF IsEarned, Prices!AtMost, Prices!Below, Prices!DirectionCorrect
  <2>4. ASSUME NEW r \in Sessions, validation.target = "evaluated", basis.session = r,
               Prices!BasisIsSound(basis)'
        PROVE  IsReached(validation, e, x, r)'
    <3>1. r \in Prices!Closed /\ basis.status = "completed" /\ basis.settled
      BY <1>2, <1>7, <2>1, <2>4 DEF BasisHolds, Prices!BasisIsSound
    <3>2. Prices!BasisIsSound(basis)
      <4>1. Prices!SplitsBetween("instrument", r, EndOfTime)' = One
               => Prices!SplitsBetween("instrument", r, EndOfTime) = One
        BY <1>1, <1>3, <1>5, NoSplitsBefore
      <4> QED
        BY <1>2, <2>4, <4>1 DEF Prices!BasisIsSound, One, Prices!AsTraded
    <3>3. IsReached(validation, e, x, r)
      BY <2>1, <2>4, <3>2
    <3>4. e \in Int /\ x \in Int /\ x < day
      BY <1>4, <2>1
    <3>5. \A s \in Prices!Closed : \A field : Prices!Worth(field, r, s)' = Prices!Worth(field, r, s)
      BY <1>1, <1>5, <3>1, EarnedStays
    <3>6. \A s \in Prices!Closed' : s <= x => s \in Prices!Closed
      <4>1. \A s \in Int : s <= x => s < day
        BY <1>4, <3>4
      <4> QED
        BY <1>3, <4>1
    <3> QED
      BY <1>2, <1>3, <3>3, <3>5, <3>6 DEF IsReached, Prices!AtMost, Prices!Below
  <2> QED
    BY <1>2, <1>3, <2>1, <2>3, <2>4 DEF OutcomeHolds, e, x
<1> QED
  BY <1>8, <1>9, <1>10

\* What a step that leaves market and basis, or claim, or outcome alone keeps.
LEMMA MarketStays ==
    ASSUME day' = day, bars' = bars
    PROVE  /\ Market' = Market /\ Prices!Closed' = Prices!Closed
           /\ \A t, s, u : Prices!SplitsBetween(t, s, u)' = Prices!SplitsBetween(t, s, u)
           /\ \A t, s, u : Fold(t, s, u)' = Fold(t, s, u)
           /\ \A t, s, u : Prices!Earned(t, s, u)' = Prices!Earned(t, s, u)
           /\ \A t, s, u : Prices!EarnedInTotal(t, s, u)' = Prices!EarnedInTotal(t, s, u)
           /\ \A t, s, u : Prices!Worth(t, s, u)' = Prices!Worth(t, s, u)
<1>1. Market' = Market /\ Prices!Closed' = Prices!Closed
  BY DEF Market, Prices!Closed
<1>2. \A t, s, u : Prices!SplitsBetween(t, s, u)' = Prices!SplitsBetween(t, s, u)
  BY <1>1 DEF Prices!SplitsBetween, Prices!Product
<1>3. \A t, s, u : Growing(t, s, u)' = Growing(t, s, u)
  BY <1>1 DEF Growing, Growth, Before, Prices!Max
<1>4. \A t, s, u : Prices!EarnedInTotal(t, s, u)' = Prices!EarnedInTotal(t, s, u)
  <2> SUFFICES ASSUME NEW t, NEW s, NEW u
               PROVE  Prices!EarnedInTotal(t, s, u)' = Prices!EarnedInTotal(t, s, u)
    OBVIOUS
  <2>1. /\ Prices!EarnedInTotal(t, s, u) = Prices!Product(Growing(t, s, u))
        /\ Prices!EarnedInTotal(t, s, u)' = Prices!Product(Growing(t, s, u)')
    BY DEF Prices!EarnedInTotal, Growing, Growth, Before, Prices!Product
  <2> QED
    BY <1>3, <2>1
<1> QED
  BY <1>1, <1>2, <1>4 DEF Fold, Prices!Earned, Prices!Worth

\* The basis stays what it was;
LEMMA BasisStays ==
    ASSUME day' = day, bars' = bars, decision' = decision, basis' = basis, NEW d, BasisHolds(d)
    PROVE  BasisHolds(d)'
  BY MarketStays DEF BasisHolds, FrozenAs, Prices!AsTraded

\* so does a claim, for only a basis that is pending changes;
LEMMA ClaimStays ==
    ASSUME day' = day, bars' = bars, claim' = claim, basis' = basis \/ basis.status = "pending",
           NEW d, ClaimHolds(d)
    PROVE  ClaimHolds(d)'
<1>1. \A series, t, from, to : SeriesIs(series, t, from, to) => SeriesIs(series, t, from, to)'
  BY MarketStays DEF SeriesIs
<1> QED
  BY <1>1, MarketStays DEF ClaimHolds

\* so does an outcome, for the same reason.
LEMMA OutcomeStays ==
    ASSUME day' = day, bars' = bars, decision' = decision, validation' = validation,
           basis' = basis \/ basis.status = "pending", NEW d, OutcomeHolds(d)
    PROVE  OutcomeHolds(d)'
<1> SUFFICES ASSUME validation.status = "completed" PROVE OutcomeHolds(d)'
  BY DEF OutcomeHolds
<1>1. \A e, x : IsEarned(validation, e, x) => IsEarned(validation, e, x)'
  BY MarketStays DEF IsEarned
<1>2. \A e, x, r : IsReached(validation, e, x, r) => IsReached(validation, e, x, r)'
  BY MarketStays DEF IsReached
<1>3. CASE validation.target # "evaluated"
  BY <1>1, <1>3, MarketStays DEF OutcomeHolds
<1>4. CASE validation.target = "evaluated"
  <2>1. basis' = basis
    BY <1>4 DEF OutcomeHolds
  <2>2. Prices!BasisIsSound(basis)' => Prices!BasisIsSound(basis)
    BY <2>1, MarketStays DEF Prices!BasisIsSound, Prices!AsTraded
  <2> QED
    BY <1>1, <1>2, <2>1, <2>2, MarketStays DEF OutcomeHolds
<1> QED
  BY <1>3, <1>4

\* What is calculated is what the market gave, and compares the target with the
\* highest high and the lowest low.
LEMMA CalculatedIs ==
    ASSUME PricesAssumption, Market, NEW series, NEW benchmark, NEW from, NEW to,
           SeriesIs(series, "instrument", from, to), SeriesIs(benchmark, "benchmark", from, to),
           NEW entry \in series.sessions, NEW exit \in series.sessions, entry <= exit,
           entry \in benchmark.sessions, exit \in benchmark.sessions, NEW taken, NEW o,
           o = Prices!Calculated(series, benchmark, entry, exit, taken)
    PROVE  /\ o.status = "completed" /\ IsEarned(o, entry, exit)
           /\ o.target = "evaluated" => decision.target # 0 /\ taken.status = "completed"
           /\ (decision.target # 0 /\ taken.status = "completed") =>
                 /\ "bullish" \in o.hit
                       <=> Prices!AtMost(Prices!RebasedTarget(series, taken),
                                         Prices!Highest(Values(series, "high", entry, exit)))
                 /\ "bearish" \in o.hit
                       <=> Prices!AtMost(Prices!Lowest(Values(series, "low", entry, exit)),
                                         Prices!RebasedTarget(series, taken))
<1> DEFINE top == Prices!Highest(Values(series, "high", entry, exit))
           bottom == Prices!Lowest(Values(series, "low", entry, exit))
           close == Prices!Adjusted(series, "close", entry)
           total == Prices!TotalReturn(series, entry, exit)
           other == Prices!TotalReturn(benchmark, entry, exit)
           rebased == Prices!RebasedTarget(series, taken)
           evaluated == decision.target # 0 /\ taken.status = "completed"
           up == Prices!AtMost(rebased, top)
           down == Prices!AtMost(bottom, rebased)
           turn == Prices!DirectionCorrect(total, other)
           price == Prices!PriceReturn(series, entry, exit)
           best == Prices!Over(top, close)
           worst == Prices!Over(bottom, close)
           r == [status |-> "completed", price |-> price, total |-> total, benchmark |-> other,
                 worst |-> worst, best |-> best, direction |-> turn,
                 target |-> IF decision.target = 0 THEN "not_set"
                            ELSE IF evaluated THEN "evaluated" ELSE "basis_unavailable",
                 hit |-> IF ~evaluated THEN {}
                         ELSE (IF up THEN {"bullish"} ELSE {}) \cup (IF down THEN {"bearish"} ELSE {})]
<1>1. o = r
  BY DEF Prices!Calculated, Values
<1>2. /\ price = Prices!Earned("instrument", entry, exit)
      /\ total = Prices!EarnedInTotal("instrument", entry, exit)
      /\ other = Prices!EarnedInTotal("benchmark", entry, exit)
  BY PriceReturnIs, TotalReturnIs
<1>3. /\ Prices!AtMost(worst, One) /\ Prices!AtMost(One, best)
      /\ Prices!AtMost(worst, price) /\ Prices!AtMost(price, best)
  BY ExcursionsAre
<1> HIDE DEF top, bottom, close, total, other, rebased, up, down, turn, price, best, worst
<1>4. /\ o.status = "completed" /\ o.price = price /\ o.total = total /\ o.benchmark = other
      /\ o.worst = worst /\ o.best = best /\ o.direction = turn
      /\ o.target = IF decision.target = 0 THEN "not_set"
                    ELSE IF evaluated THEN "evaluated" ELSE "basis_unavailable"
      /\ o.hit = IF ~evaluated THEN {}
                 ELSE (IF up THEN {"bullish"} ELSE {}) \cup (IF down THEN {"bearish"} ELSE {})
  BY <1>1
<1> HIDE DEF r
<1>5. turn = Prices!DirectionCorrect(Prices!EarnedInTotal("instrument", entry, exit),
                                     Prices!EarnedInTotal("benchmark", entry, exit))
  BY <1>2 DEF turn
<1>6. IsEarned(o, entry, exit)
  BY <1>2, <1>3, <1>4, <1>5 DEF IsEarned, One
<1>7. o.target = "evaluated" => evaluated
  BY <1>4
<1>8. evaluated => ("bullish" \in o.hit <=> up) /\ ("bearish" \in o.hit <=> down)
  BY <1>4
<1> QED
  BY <1>4, <1>6, <1>7, <1>8 DEF up, down, rebased, top, bottom

\* With a sound basis the target was reached if a share of the reference session was
\* ever worth it.
LEMMA HitIs ==
    ASSUME PricesAssumption, Market, NEW series, NEW from, NEW to,
           SeriesIs(series, "instrument", from, to),
           NEW entry \in series.sessions, NEW exit \in series.sessions, entry <= exit,
           NEW r \in series.sessions, r <= entry, NEW o,
           basis.session = r, Prices!BasisIsSound(basis), NEW p \in 0 .. day - 1, FrozenAs(r, p),
           decision.target \in Nat,
           "bullish" \in o.hit
                <=> Prices!AtMost(Prices!RebasedTarget(series, basis),
                                  Prices!Highest(Values(series, "high", entry, exit))),
           "bearish" \in o.hit
                <=> Prices!AtMost(Prices!Lowest(Values(series, "low", entry, exit)),
                                  Prices!RebasedTarget(series, basis))
    PROVE  IsReached(o, entry, exit, r)
<1> DEFINE W == Prices!Window(series, entry, exit)
           top == Prices!Highest(Values(series, "high", entry, exit))
           bottom == Prices!Lowest(Values(series, "low", entry, exit))
           rebased == Prices!RebasedTarget(series, basis)
           target == <<decision.target, 1>>
           high(s) == Prices!Adjusted(series, "high", s)
           low(s) == Prices!Adjusted(series, "low", s)
<1>1. "instrument" \in Prices!Tickers /\ r \in Prices!Closed /\ Prices!Closed \subseteq Int
      /\ entry \in Prices!Closed /\ exit \in Prices!Closed
  BY ClosedIs DEF SeriesIs, Prices!Tickers
<1>2. r \in Int /\ p \in Int /\ EndOfTime \in Int /\ p <= EndOfTime /\ entry \in Int /\ exit \in Int
  <2>1. day \in Int /\ EndOfTime \in Int /\ day <= EndOfTime
    BY DEF Market, PricesAssumption
  <2> QED
    BY <1>1, <2>1
<1>3. Fold("instrument", r, p) = 1
  <2>1. CASE basis.provider \in Prices!AsTraded
    BY <2>1 DEF FrozenAs
  <2>2. CASE basis.provider \notin Prices!AsTraded
    <3>1. Prices!SplitsBetween("instrument", r, EndOfTime) = <<1, 1>>
      BY <2>2 DEF Prices!BasisIsSound
    <3>2. Fold("instrument", r, EndOfTime) = 1
      BY <3>1 DEF Fold
    <3> QED
      BY <1>1, <1>2, <3>2, FoldsAreOne
  <2> QED
    BY <2>1, <2>2
<1>4. basis.multiple = Prices!Over(<<decision.target, 1>>,
                                   Prices!Reduced(<<bars["instrument"][basis.session].close, 1>>))
  BY <1>3 DEF FrozenAs
<1> DEFINE x == <<decision.target, Fold("instrument", r, Basis(series))>>
<1>5. x \in Pair /\ rebased = Prices!Reduced(x)
  BY <1>4, RebasedIs
<1>6. W = {s \in Prices!Closed : entry <= s /\ s <= exit}
  <2>1. /\ from <= entry /\ exit <= to /\ exit <= series.published /\ from \in Int /\ to \in Int
        /\ series.published \in Int
    <3>1. series.sessions = {s \in Prices!Closed : from <= s /\ s <= to /\ s <= series.published}
      BY DEF SeriesIs
    <3>2. from \in Int /\ to \in Int /\ series.published \in Int
      BY DEF SeriesIs
    <3> QED
      BY <1>2, <3>1, <3>2
  <2>2. \A u \in Int : (entry <= u /\ u <= exit) => (from <= u /\ u <= to /\ u <= series.published)
    BY <1>2, <2>1
  <2> QED
    BY <1>1, <2>2 DEF SeriesIs, Prices!Window
<1>7. entry \in W
  BY <1>2 DEF Prices!Window
<1>8. /\ \A s \in W : high(s) \in Pair /\ Prices!AtMost(high(s), top)
      /\ \E s \in W : top = high(s)
  BY <1>7, ValuesAre DEF Fields
<1>9. /\ \A s \in W : low(s) \in Pair /\ Prices!AtMost(bottom, low(s))
      /\ \E s \in W : bottom = low(s)
  BY <1>7, ValuesAre DEF Fields
<1>10. \A s \in W :
          /\ Prices!AtMost(rebased, high(s)) <=> Prices!AtMost(target, Prices!Worth("high", r, s))
          /\ Prices!AtMost(low(s), rebased) <=> Prices!AtMost(Prices!Worth("low", r, s), target)
  <2> SUFFICES ASSUME NEW s \in W
      PROVE  /\ Prices!AtMost(rebased, high(s)) <=> Prices!AtMost(target, Prices!Worth("high", r, s))
             /\ Prices!AtMost(low(s), rebased) <=> Prices!AtMost(Prices!Worth("low", r, s), target)
    OBVIOUS
  <2>1. s \in series.sessions /\ r <= s
    <3>1. s \in series.sessions
      BY DEF Prices!Window
    <3>2. s \in Int /\ entry <= s
      BY <1>1, <1>6
    <3> QED
      BY <1>2, <3>1, <3>2
  <2>2. "high" \in Fields /\ "low" \in Fields
    BY DEF Fields
  <2>3. Prices!AtMost(rebased, high(s)) <=> Prices!AtMost(target, Prices!Worth("high", r, s))
    BY <1>5, <2>1, <2>2, ReachedIs
  <2>4. Prices!AtMost(low(s), rebased) <=> Prices!AtMost(Prices!Worth("low", r, s), target)
    BY <1>5, <2>1, <2>2, ReachedIs
  <2> QED
    BY <2>3, <2>4
<1>11. rebased \in Pair
  BY <1>5, SameItself
<1> HIDE DEF W, top, bottom, rebased, target, high, low, x
<1>12. top \in Pair /\ bottom \in Pair
  BY <1>8, <1>9
<1>13. Prices!AtMost(rebased, top) <=> \E s \in W : Prices!AtMost(rebased, high(s))
  BY <1>8, <1>11, <1>12, AtMostJoins
<1>14. Prices!AtMost(bottom, rebased) <=> \E s \in W : Prices!AtMost(low(s), rebased)
  BY <1>9, <1>11, <1>12, AtMostJoins
<1>15. "bullish" \in o.hit <=> \E s \in W : Prices!AtMost(target, Prices!Worth("high", r, s))
  BY <1>10, <1>13 DEF rebased, top
<1>16. "bearish" \in o.hit <=> \E s \in W : Prices!AtMost(Prices!Worth("low", r, s), target)
  BY <1>10, <1>14 DEF rebased, bottom
<1> QED
  BY <1>6, <1>15, <1>16 DEF IsReached, target

\* What a provider answers is such a series.
LEMMA SeriesHas ==
    ASSUME PricesAssumption, Market, NEW t \in Prices!Tickers, NEW provider \in Prices!Providers,
           NEW published \in Prices!Published, NEW from \in Int, NEW to \in Int
    PROVE  SeriesIs(Prices!Series(t, provider, published, from, to), t, from, to)
<1>1. published \in 0 .. day - 1
  <2>1. published \in Prices!Closed \cup {0}
    BY DEF Prices!Published
  <2>2. Prices!Closed \subseteq 1 .. day - 1
    BY ClosedIs
  <2>3. day \in Int /\ day >= 1
    BY DEF Market
  <2> QED
    BY <2>1, <2>2, <2>3
<1> QED
  BY <1>1 DEF SeriesIs, Prices!Series

\* A decision starts with nothing but what is to be done.
LEMMA PricesDecide ==
    ASSUME PricesAssumption, PricesInv, Prices!Decide PROVE PricesInv'
<1>1. PICK date \in DecisionDates, target \in Targets :
         /\ decision' = [date |-> date, target |-> target]
         /\ basis' = IF target = 0 THEN Prices!Unset ELSE [status |-> "pending"]
  BY DEF Prices!Decide
<1>2. decision.date = 0 /\ validation' = [status |-> "scheduled"] /\ day' = day /\ bars' = bars
      /\ claim' = claim
  BY DEF Prices!Decide
<1>3. Market /\ PricesTyped
  BY DEF PricesInv
<1>4. Market'
  BY <1>2, <1>3, MarketStays
<1>5. basis'.status \in {"none", "pending"} /\ claim.status = "none" /\ validation'.status = "scheduled"
  BY <1>1, <1>2, <1>3 DEF PricesTyped, Prices!Unset
<1>6. PricesTyped'
  <2>1. decision'.date # 0
    BY <1>1, NoDate
  <2> QED
    BY <1>1, <1>2, <1>5, <2>1 DEF PricesTyped
<1>7. \A d : BasisHolds(d)' /\ ClaimHolds(d)' /\ OutcomeHolds(d)'
  BY <1>2, <1>5 DEF BasisHolds, ClaimHolds, OutcomeHolds
<1> QED
  BY <1>4, <1>6, <1>7 DEF PricesInv

\* A basis is of the last session of a series, and of its close.
LEMMA PricesPrepareBasis ==
    ASSUME PricesAssumption, PricesInv, Prices!PrepareBasis PROVE PricesInv'
<1>1. PICK provider \in Prices!Providers, published \in Prices!Published :
         LET series == Prices!Series("instrument", provider, published,
                                     decision.date - Background, decision.date)
             reference == Prices!Max(series.sessions)
         IN  basis' = IF series.sessions = {} THEN [status |-> "unavailable"]
                      ELSE Prices!Frozen(reference, Prices!Adjusted(series, "close", reference),
                                         provider, TRUE)
  BY DEF Prices!PrepareBasis
<1>2. basis.status = "pending" /\ day' = day /\ bars' = bars /\ decision' = decision
      /\ claim' = claim /\ validation' = validation
  BY DEF Prices!PrepareBasis
<1>3. /\ Market /\ PricesTyped
      /\ \A d \in DecisionDates : decision.date = d => BasisHolds(d) /\ ClaimHolds(d) /\ OutcomeHolds(d)
  BY DEF PricesInv
<1>4. PICK d \in DecisionDates : decision.date = d
  BY <1>2, <1>3 DEF PricesTyped
<1> DEFINE series == Prices!Series("instrument", provider, published, d - Background, d)
           r == Prices!Max(series.sessions)
<1>5. Market' /\ Prices!Closed' = Prices!Closed
  BY <1>2, <1>3, MarketStays
<1>6. d \in Int /\ d - Background \in Int
  BY NoDate DEF PricesAssumption
<1>7. SeriesIs(series, "instrument", d - Background, d)
  <2>1. "instrument" \in Prices!Tickers
    BY DEF Prices!Tickers
  <2> QED
    BY <1>3, <1>6, <2>1, SeriesHas
<1>8. series.provider = provider
  BY DEF Prices!Series
<1> HIDE DEF series
<1>9. CASE series.sessions = {}
  <2>1. basis' = [status |-> "unavailable"]
    BY <1>1, <1>4, <1>9 DEF series
  <2>2. basis'.status = "unavailable"
    BY <2>1
  <2>3. PricesTyped'
    BY <1>2, <1>3, <2>2 DEF PricesTyped
  <2>4. BasisHolds(d)'
    BY <2>2 DEF BasisHolds
  <2>5. ClaimHolds(d)' /\ OutcomeHolds(d)'
    BY <1>2, <1>3, <1>4, ClaimStays, OutcomeStays
  <2> QED
    BY <1>2, <1>4, <1>5, <2>3, <2>4, <2>5 DEF PricesInv
<1>10. CASE series.sessions # {}
  <2>1. basis' = Prices!Frozen(r, Prices!Adjusted(series, "close", r), provider, TRUE)
    BY <1>1, <1>4, <1>10 DEF series
  <2>2. r \in series.sessions /\ \A s \in series.sessions : s <= r
    <3>1. series.sessions \subseteq 0 .. EndOfTime /\ EndOfTime \in Nat
      BY <1>3, <1>7, ClosedIs DEF SeriesIs, PricesAssumption
    <3> QED
      BY <1>10, <3>1, GreatestOf
  <2>3. r \in Prices!Closed /\ r <= d /\ r \in Int /\ r \in Sessions
    BY <1>3, <1>7, <2>2, ClosedIs DEF SeriesIs
  <2>4. Basis(series) \in 0 .. day - 1
    BY <1>3, <1>7, <1>10, BasisIs
  <2>5. Prices!Adjusted(series, "close", r)
           = Prices!Reduced(<<bars["instrument"][r].close, Fold("instrument", r, Basis(series))>>)
    BY <1>3, <1>7, <2>2, AdjustedIs DEF Fields
  <2>6. provider \in Prices!AsTraded => Fold("instrument", r, Basis(series)) = 1
    <3>1. provider \in Prices!AsTraded => Basis(series) = r
      BY <1>8 DEF Basis
    <3>2. Fold("instrument", r, r) = 1
      BY <1>3, <2>3, FoldOfNone DEF Prices!Tickers
    <3> QED
      BY <3>1, <3>2
  <2> HIDE DEF r
  <2>7. /\ basis'.status = "completed" /\ basis'.settled /\ basis'.session = r
        /\ basis'.provider = provider
        /\ basis'.multiple = Prices!Over(<<decision.target, 1>>, Prices!Adjusted(series, "close", r))
    BY <2>1 DEF Prices!Frozen
  <2>8. PICK q \in Sessions, p \in 0 .. day - 1 : q = r /\ p = Basis(series)
    BY <2>3, <2>4
  <2>9. /\ \A t, s, u : Fold(t, s, u)' = Fold(t, s, u)
        /\ Prices!Closed' = Prices!Closed
    BY <1>2, MarketStays
  <2>10. FrozenAs(q, p)'
    <3>1. basis'.multiple = Prices!Over(<<decision'.target, 1>>,
             Prices!Reduced(<<bars'["instrument"][q].close, Fold("instrument", q, p)'>>))
      BY <1>2, <2>5, <2>7, <2>8, <2>9
    <3>2. basis'.provider \in Prices!AsTraded => Fold("instrument", q, p)' = 1
      BY <2>6, <2>7, <2>8, <2>9
    <3> QED
      BY <3>1, <3>2 DEF FrozenAs, Prices!AsTraded
  <2>11. BasisHolds(d)'
    <3>1. basis'.session \in Sessions /\ basis'.session <= d
      BY <2>3, <2>7
    <3>2. \A s \in Sessions : basis'.session = s => s = q
      BY <2>7, <2>8
    <3>3. q \in Prices!Closed' /\ p \in 0 .. day' - 1
      BY <1>2, <2>3, <2>8, <2>9
    <3> QED
      BY <2>10, <3>1, <3>2, <3>3 DEF BasisHolds
  <2>12. PricesTyped'
    BY <1>2, <1>3, <1>4, <2>7, NoDate DEF PricesTyped
  <2>13. ClaimHolds(d)' /\ OutcomeHolds(d)'
    BY <1>2, <1>3, <1>4, ClaimStays, OutcomeStays
  <2> QED
    BY <1>2, <1>4, <1>5, <2>11, <2>12, <2>13 DEF PricesInv
<1> QED
  BY <1>9, <1>10

\* One of a session that still goes on is not settled.
LEMMA PricesPrepareBasisEarly ==
    ASSUME PricesAssumption, PricesInv, Prices!PrepareBasisEarly PROVE PricesInv'
<1>1. PICK provider \in Prices!Providers, bar \in Bars["instrument"][day] :
         basis' = Prices!Frozen(day, <<bar.close, 1>>, provider, FALSE)
  BY DEF Prices!PrepareBasisEarly
<1>2. basis.status = "pending" /\ day' = day /\ bars' = bars /\ decision' = decision
      /\ claim' = claim /\ validation' = validation /\ day = decision.date /\ day \in Sessions
  BY DEF Prices!PrepareBasisEarly
<1>3. /\ Market /\ PricesTyped
      /\ \A d \in DecisionDates : decision.date = d => BasisHolds(d) /\ ClaimHolds(d) /\ OutcomeHolds(d)
  BY DEF PricesInv
<1>4. PICK d \in DecisionDates : decision.date = d
  BY <1>2, <1>3 DEF PricesTyped
<1>5. Market'
  BY <1>2, <1>3, MarketStays
<1>6. basis'.status = "completed" /\ ~basis'.settled /\ basis'.session = day
  BY <1>1 DEF Prices!Frozen
<1>7. PricesTyped'
  BY <1>2, <1>3, <1>4, <1>6, NoDate DEF PricesTyped
<1>8. BasisHolds(d)'
  <2>1. basis'.session <= d /\ basis'.session \in Sessions
    BY <1>2, <1>4, <1>6, NoDate
  <2> QED
    BY <1>6, <2>1 DEF BasisHolds
<1>9. ClaimHolds(d)' /\ OutcomeHolds(d)'
  BY <1>2, <1>3, <1>4, ClaimStays, OutcomeStays
<1> QED
  BY <1>2, <1>4, <1>5, <1>7, <1>8, <1>9 DEF PricesInv

\* Data that is rejected leaves no basis.
LEMMA PricesBasisIsInvalid ==
    ASSUME PricesAssumption, PricesInv, Prices!BasisIsInvalid PROVE PricesInv'
<1>1. basis' = [status |-> "unavailable"]
  BY DEF Prices!BasisIsInvalid
<1>2. basis.status = "pending" /\ day' = day /\ bars' = bars /\ decision' = decision
      /\ claim' = claim /\ validation' = validation
  BY DEF Prices!BasisIsInvalid
<1>3. /\ Market /\ PricesTyped
      /\ \A d \in DecisionDates : decision.date = d => BasisHolds(d) /\ ClaimHolds(d) /\ OutcomeHolds(d)
  BY DEF PricesInv
<1>4. Market' /\ basis'.status = "unavailable"
  BY <1>1, <1>2, <1>3, MarketStays
<1>5. PricesTyped'
  BY <1>2, <1>3, <1>4 DEF PricesTyped
<1>6. ASSUME NEW d \in DecisionDates, decision.date = d
      PROVE  BasisHolds(d)' /\ ClaimHolds(d)' /\ OutcomeHolds(d)'
  <2>1. BasisHolds(d)'
    BY <1>4 DEF BasisHolds
  <2>2. ClaimHolds(d)' /\ OutcomeHolds(d)'
    BY <1>2, <1>3, <1>6, ClaimStays, OutcomeStays
  <2> QED
    BY <2>1, <2>2
<1> QED
  BY <1>2, <1>4, <1>5, <1>6 DEF PricesInv

\* A claim takes the basis as it is, once the exit session has closed.
LEMMA PricesClaimMatured ==
    ASSUME PricesAssumption, PricesInv, Prices!ClaimMatured PROVE PricesInv'
<1>1. claim' = [status |-> "claimed", basis |-> basis] /\ validation.status = "scheduled"
      /\ Prices!ExitSession(decision.date) \in Prices!Closed
  BY DEF Prices!ClaimMatured
<1>2. day' = day /\ bars' = bars /\ decision' = decision /\ basis' = basis /\ validation' = validation
  BY DEF Prices!ClaimMatured
<1>3. /\ Market /\ PricesTyped
      /\ \A d \in DecisionDates : decision.date = d => BasisHolds(d) /\ ClaimHolds(d) /\ OutcomeHolds(d)
  BY DEF PricesInv
<1>4. Market' /\ Prices!Closed' = Prices!Closed /\ claim'.status = "claimed" /\ claim'.basis = basis
  BY <1>1, <1>2, <1>3, MarketStays
<1>5. PricesTyped'
  BY <1>1, <1>2, <1>3, <1>4 DEF PricesTyped
<1>6. ASSUME NEW d \in DecisionDates, decision.date = d
      PROVE  BasisHolds(d)' /\ ClaimHolds(d)' /\ OutcomeHolds(d)'
  <2>1. ClaimHolds(d)'
    BY <1>1, <1>2, <1>4, <1>6 DEF ClaimHolds
  <2>2. BasisHolds(d)' /\ OutcomeHolds(d)'
    BY <1>2, <1>3, <1>6, BasisStays, OutcomeStays
  <2> QED
    BY <2>1, <2>2
<1> QED
  BY <1>2, <1>4, <1>5, <1>6 DEF PricesInv

\* The prices of the instrument are a series of it.
LEMMA PricesInstrument ==
    ASSUME PricesAssumption, PricesInv, Prices!PriceInstrument PROVE PricesInv'
<1>1. PICK provider \in Prices!Providers, published \in Prices!Published :
         claim' = [status |-> "priced", basis |-> claim.basis,
                   series |-> Prices!Ask("instrument", provider, published)]
  BY DEF Prices!PriceInstrument
<1>2. day' = day /\ bars' = bars /\ decision' = decision /\ basis' = basis /\ validation' = validation
      /\ claim.status = "claimed"
  BY DEF Prices!PriceInstrument
<1>3. /\ Market /\ PricesTyped
      /\ \A d \in DecisionDates : decision.date = d => BasisHolds(d) /\ ClaimHolds(d) /\ OutcomeHolds(d)
  BY DEF PricesInv
<1>4. Market' /\ Prices!Closed' = Prices!Closed /\ claim'.status = "priced" /\ claim'.basis = claim.basis
      /\ claim'.series = Prices!Ask("instrument", provider, published)
  BY <1>1, <1>2, <1>3, MarketStays
<1>5. PricesTyped'
  BY <1>2, <1>3, <1>4 DEF PricesTyped
<1>6. ASSUME NEW d \in DecisionDates, decision.date = d
      PROVE  BasisHolds(d)' /\ ClaimHolds(d)' /\ OutcomeHolds(d)'
  <2> DEFINE from == d - Background
             to == Prices!ExitSession(d)
  <2>1. from \in Int /\ to \in Int /\ "instrument" \in Prices!Tickers
    <3>1. d \in Int /\ Background \in Int /\ to \in Int
      BY CalendarIs DEF PricesAssumption
    <3> QED
      BY <3>1 DEF Prices!Tickers
  <2>2. claim'.series = Prices!Series("instrument", provider, published, from, to)
    BY <1>4, <1>6 DEF Prices!Ask
  <2> HIDE DEF from, to
  <2>3. SeriesIs(Prices!Series("instrument", provider, published, from, to), "instrument", from, to)
    BY <1>3, <2>1, SeriesHas
  <2>4. \A series : claim'.series = series => SeriesIs(series, "instrument", from, to)
    BY <2>2, <2>3
  <2>5. \A series : SeriesIs(series, "instrument", from, to) => SeriesIs(series, "instrument", from, to)'
    BY <1>2, <1>4 DEF SeriesIs, Prices!Tickers, Prices!Providers, Prices!AsTraded
  <2>6. ClaimHolds(d)'
    BY <1>2, <1>3, <1>4, <1>6, <2>4, <2>5 DEF ClaimHolds, from, to
  <2>7. BasisHolds(d)' /\ OutcomeHolds(d)'
    BY <1>2, <1>3, <1>6, BasisStays, OutcomeStays
  <2> QED
    BY <2>6, <2>7
<1> QED
  BY <1>2, <1>4, <1>5, <1>6 DEF PricesInv

\* A claim that is given up takes nothing along.
LEMMA PricesTryAgain ==
    ASSUME PricesAssumption, PricesInv, Prices!TryAgain \/ Prices!OutcomeIsInvalid PROVE PricesInv'
<1>1. claim' = Prices!Unset /\ day' = day /\ bars' = bars /\ decision' = decision /\ basis' = basis
      /\ claim # Prices!Unset
      /\ (validation' = validation \/ validation' = [status |-> "unavailable"])
  BY DEF Prices!TryAgain, Prices!OutcomeIsInvalid
<1>2. /\ Market /\ PricesTyped
      /\ \A d \in DecisionDates : decision.date = d => BasisHolds(d) /\ ClaimHolds(d) /\ OutcomeHolds(d)
  BY DEF PricesInv
<1>3. Market' /\ claim'.status = "none"
  BY <1>1, <1>2, MarketStays DEF Prices!Unset
<1>4. validation' = validation \/ validation'.status = "unavailable"
  BY <1>1
<1>5. PricesTyped'
  BY <1>1, <1>2, <1>3, <1>4 DEF PricesTyped
<1>6. ASSUME NEW d \in DecisionDates, decision.date = d
      PROVE  BasisHolds(d)' /\ ClaimHolds(d)' /\ OutcomeHolds(d)'
  <2>1. ClaimHolds(d)'
    BY <1>3 DEF ClaimHolds
  <2>2. BasisHolds(d)'
    BY <1>1, <1>2, <1>6, BasisStays
  <2>3. OutcomeHolds(d)'
    <3>1. CASE validation' = validation
      BY <1>1, <1>2, <1>6, <3>1, OutcomeStays
    <3>2. CASE validation'.status = "unavailable"
      BY <3>2 DEF OutcomeHolds
    <3> QED
      BY <1>4, <3>1, <3>2
  <2> QED
    BY <2>1, <2>2, <2>3
<1> QED
  BY <1>1, <1>3, <1>5, <1>6 DEF PricesInv

\* The outcome: both series cover entry and exit, and that of the instrument the
\* reference session.
LEMMA PricesBenchmark ==
    ASSUME PricesAssumption, PricesInv, Prices!PriceBenchmark PROVE PricesInv'
<1>1. PICK provider \in Prices!Providers, published \in Prices!Published :
         LET benchmark == Prices!Ask("benchmark", provider, published)
             entry == Prices!EntrySession(decision.date)
             exit == Prices!ExitSession(decision.date)
         IN  /\ Prices!Needed(claim.basis) \subseteq claim.series.sessions
             /\ {entry, exit} \subseteq benchmark.sessions
             /\ validation' = Prices!Calculated(claim.series, benchmark, entry, exit, claim.basis)
  BY DEF Prices!PriceBenchmark
<1>2. day' = day /\ bars' = bars /\ decision' = decision /\ basis' = basis
      /\ claim.status = "priced" /\ claim' = Prices!Unset
  BY DEF Prices!PriceBenchmark
<1>3. /\ Market /\ PricesTyped
      /\ \A d \in DecisionDates : decision.date = d => BasisHolds(d) /\ ClaimHolds(d) /\ OutcomeHolds(d)
  BY DEF PricesInv
<1>4. PICK d \in DecisionDates : decision.date = d
  BY <1>2, <1>3 DEF PricesTyped
<1> DEFINE entry == Prices!EntrySession(d)
           exit == Prices!ExitSession(d)
           from == d - Background
           series == claim.series
           taken == claim.basis
           benchmark == Prices!Series("benchmark", provider, published, from, exit)
<1>5. /\ entry \in Int /\ exit \in Int /\ d \in Int /\ d <= entry /\ entry <= exit /\ from \in Int
  BY CalendarIs DEF PricesAssumption
<1>6. BasisHolds(d) /\ ClaimHolds(d)
  BY <1>3, <1>4
<1>7. SeriesIs(series, "instrument", from, exit)
  BY <1>2, <1>6 DEF ClaimHolds
<1>8. SeriesIs(benchmark, "benchmark", from, exit)
  <2>1. "benchmark" \in Prices!Tickers
    BY DEF Prices!Tickers
  <2> QED
    BY <1>3, <1>5, <2>1, SeriesHas
<1>9. /\ entry \in series.sessions /\ exit \in series.sessions
      /\ taken.status = "completed" => taken.session \in series.sessions
      /\ entry \in benchmark.sessions /\ exit \in benchmark.sessions
      /\ validation' = Prices!Calculated(series, benchmark, entry, exit, taken)
  BY <1>1, <1>4 DEF Prices!Needed, Prices!Ask
<1>10. taken.status = "completed" => basis = taken
  BY <1>2, <1>6 DEF ClaimHolds
<1> HIDE DEF entry, exit, from, series, taken, benchmark
<1>11. PICK o : o = validation'
  OBVIOUS
<1>12. o = Prices!Calculated(series, benchmark, entry, exit, taken)
  BY <1>9, <1>11
<1>13. /\ o.status = "completed" /\ IsEarned(o, entry, exit)
       /\ o.target = "evaluated" => decision.target # 0 /\ taken.status = "completed"
       /\ (decision.target # 0 /\ taken.status = "completed") =>
             /\ "bullish" \in o.hit
                   <=> Prices!AtMost(Prices!RebasedTarget(series, taken),
                                     Prices!Highest(Values(series, "high", entry, exit)))
             /\ "bearish" \in o.hit
                   <=> Prices!AtMost(Prices!Lowest(Values(series, "low", entry, exit)),
                                     Prices!RebasedTarget(series, taken))
  BY <1>3, <1>5, <1>7, <1>8, <1>9, <1>12, CalculatedIs
<1>14. entry \in Prices!Closed /\ exit \in Prices!Closed
  BY <1>7, <1>9 DEF SeriesIs
<1>15. ASSUME NEW r \in Sessions, o.target = "evaluated", basis.session = r, Prices!BasisIsSound(basis)
       PROVE  IsReached(o, entry, exit, r)
  <2>1. basis = taken /\ decision.target # 0 /\ taken.status = "completed"
    BY <1>10, <1>13, <1>15
  <2>2. r \in series.sessions /\ basis.status = "completed" /\ basis.settled
    BY <1>9, <1>15, <2>1 DEF Prices!BasisIsSound
  <2>3. r <= d /\ r \in Int
    <3>1. basis.session <= d
      BY <1>6, <2>2 DEF BasisHolds
    <3>2. Sessions \subseteq Int
      BY DEF PricesAssumption, Pos
    <3> QED
      BY <1>15, <3>1, <3>2
  <2>4. r <= entry
    BY <1>5, <2>3
  <2>5. PICK p \in 0 .. day - 1 : FrozenAs(r, p)
    BY <1>6, <1>15, <2>2 DEF BasisHolds
  <2>6. decision.target \in Nat
    <3>1. Targets \subseteq Nat
      BY DEF PricesAssumption
    <3>2. decision.target \in Targets \cup {0}
      BY <1>3 DEF PricesTyped
    <3>3. 0 \in Nat
      OBVIOUS
    <3> QED
      BY <3>1, <3>2, <3>3, Zenon
  <2>7. /\ "bullish" \in o.hit
             <=> Prices!AtMost(Prices!RebasedTarget(series, basis),
                               Prices!Highest(Values(series, "high", entry, exit)))
        /\ "bearish" \in o.hit
             <=> Prices!AtMost(Prices!Lowest(Values(series, "low", entry, exit)),
                               Prices!RebasedTarget(series, basis))
    BY <1>13, <2>1
  <2> QED
    BY <1>3, <1>5, <1>7, <1>9, <1>15, <2>2, <2>4, <2>5, <2>6, <2>7, HitIs
<1>16. Market' /\ Prices!Closed' = Prices!Closed
  BY <1>2, <1>3, MarketStays
<1>17. claim'.status = "none" /\ validation'.status = "completed"
  BY <1>2, <1>11, <1>13 DEF Prices!Unset
<1>18. PricesTyped'
  BY <1>2, <1>3, <1>4, <1>17, NoDate DEF PricesTyped
<1>19. BasisHolds(d)'
  BY <1>2, <1>6, BasisStays
<1>20. ClaimHolds(d)'
  BY <1>17 DEF ClaimHolds
<1>21. OutcomeHolds(d)'
  <2>1. \A e, x : IsEarned(o, e, x) => IsEarned(o, e, x)'
    BY <1>2, MarketStays DEF IsEarned
  <2>2. \A e, x, r : IsReached(o, e, x, r) => IsReached(o, e, x, r)'
    BY <1>2, MarketStays DEF IsReached
  <2>3. Prices!BasisIsSound(basis)' => Prices!BasisIsSound(basis)
    BY <1>2, MarketStays DEF Prices!BasisIsSound, Prices!AsTraded
  <2>4. IsEarned(validation, entry, exit)'
    BY <1>11, <1>13, <2>1 DEF IsEarned
  <2>5. \A r \in Sessions :
           (o.target = "evaluated" /\ basis.session = r /\ Prices!BasisIsSound(basis)')
               => IsReached(validation, entry, exit, r)'
    BY <1>11, <1>15, <2>2, <2>3 DEF IsReached
  <2> QED
    BY <1>2, <1>10, <1>11, <1>13, <1>14, <1>16, <2>4, <2>5 DEF OutcomeHolds, entry, exit
<1> QED
  BY <1>2, <1>4, <1>16, <1>18, <1>19, <1>20, <1>21 DEF PricesInv

\* Every step keeps the invariant,
LEMMA PricesStep ==
    ASSUME PricesAssumption, PricesInv, [Prices!Next]_pricing PROVE PricesInv'
<1>1. CASE Prices!Next
  BY <1>1, PricesDayEnds, PricesDecide, PricesPrepareBasis, PricesPrepareBasisEarly,
     PricesBasisIsInvalid, PricesClaimMatured, PricesInstrument, PricesBenchmark, PricesTryAgain
     DEF Prices!Next
<1>2. CASE UNCHANGED pricing
  <2>1. day' = day /\ bars' = bars /\ decision' = decision /\ basis' = basis /\ claim' = claim
        /\ validation' = validation
    BY <1>2 DEF pricing
  <2>2. /\ Market /\ PricesTyped
        /\ \A d \in DecisionDates : decision.date = d => BasisHolds(d) /\ ClaimHolds(d) /\ OutcomeHolds(d)
    BY DEF PricesInv
  <2>3. Market' /\ PricesTyped'
    BY <2>1, <2>2, MarketStays DEF PricesTyped
  <2>4. ASSUME NEW d \in DecisionDates, decision.date = d
        PROVE  BasisHolds(d)' /\ ClaimHolds(d)' /\ OutcomeHolds(d)'
    BY <2>1, <2>2, <2>4, BasisStays, ClaimStays, OutcomeStays
  <2> QED
    BY <2>1, <2>3, <2>4 DEF PricesInv
<1> QED
  BY <1>1, <1>2

\* which says what is to be shown.
LEMMA PricesTrue ==
    ASSUME PricesAssumption, PricesInv PROVE Prices!OutcomeIsTrue
<1>1. /\ Market /\ PricesTyped
      /\ \A d \in DecisionDates : decision.date = d => BasisHolds(d) /\ ClaimHolds(d) /\ OutcomeHolds(d)
  BY DEF PricesInv
<1>2. Prices!TypeOK
  <2>1. DOMAIN bars = Prices!Tickers /\ day \in 1 .. EndOfTime
    BY <1>1 DEF Market
  <2>2. Prices!Closed = {s \in Sessions : s < day}
    BY <1>1, ClosedIs
  <2> QED
    BY <1>1, <2>1, <2>2 DEF Prices!TypeOK, PricesTyped
<1>3. ASSUME validation.status = "completed", NEW d \in DecisionDates, decision.date = d
      PROVE  Prices!ReturnsAreEarned /\ Prices!TargetIsKept
  <2>1. OutcomeHolds(d) /\ BasisHolds(d)
    BY <1>1, <1>3
  <2>2. IsEarned(validation, Prices!EntrySession(d), Prices!ExitSession(d))
    BY <1>3, <2>1 DEF OutcomeHolds
  <2>3. Prices!ReturnsAreEarned
    BY <1>3, <2>2 DEF Prices!ReturnsAreEarned, IsEarned
  <2>4. ASSUME validation.target = "evaluated", Prices!BasisIsSound(basis)
        PROVE  IsReached(validation, Prices!EntrySession(d), Prices!ExitSession(d), basis.session)
    <3>1. basis.session \in Sessions
      BY <1>3, <2>1, <2>4 DEF OutcomeHolds, BasisHolds
    <3> QED
      BY <1>3, <2>1, <2>4, <3>1 DEF OutcomeHolds
  <2>5. Prices!TargetIsKept
    BY <1>3, <2>4 DEF Prices!TargetIsKept, Prices!TargetIsJudged, Prices!Evaluated, IsReached
  <2> QED
    BY <2>3, <2>5
<1>4. CASE validation.status # "completed"
  BY <1>2, <1>4 DEF Prices!OutcomeIsTrue, Prices!ReturnsAreEarned, Prices!TargetIsKept,
                    Prices!Evaluated
<1>5. CASE validation.status = "completed"
  <2>1. decision.date \in DecisionDates
    BY <1>1, <1>5 DEF PricesTyped
  <2> QED
    BY <1>2, <1>3, <1>5, <2>1 DEF Prices!OutcomeIsTrue
<1> QED
  BY <1>4, <1>5

\* What calculate_outcome_v2 makes of the answers, without a condition: returns and
\* direction of a validation are those of the market and its excursions enclose the
\* return, whichever provider answered for either ticker, whenever, for every calendar
\* and every course of prices, dividends and splits.
THEOREM TrueReturns == OperationsSpec => [](focus = "prices" => Prices!ReturnsAreEarned)
<1>1. OperationsInit => PricesInv
  BY PricesInit, PricesAreSensible DEF OperationsInit
<1>2. PricesInv /\ [OperationsNext]_all => PricesInv'
  BY PricesStep, OperationsStep, PricesAreSensible
<1>3. PricesInv => (focus = "prices" => Prices!ReturnsAreEarned)
  BY PricesTrue, PricesAreSensible DEF Prices!OutcomeIsTrue
<1> QED
  BY <1>1, <1>2, <1>3, PTL DEF OperationsSpec

\* What it says of the target besides, on one condition: that prepare_target_basis froze
\* the multiple from a session that had closed, at a close that no later split had
\* divided (BasisIsSound).  Then, whatever splits came before the entry, in between or
\* after the exit, the target was reached if and only if a share of that session was
\* ever worth it.
THEOREM TrueOutcomes == OperationsSpec => []OutcomeIsTrue
<1>1. OperationsInit => PricesInv
  BY PricesInit, PricesAreSensible DEF OperationsInit
<1>2. PricesInv /\ [OperationsNext]_all => PricesInv'
  BY PricesStep, OperationsStep, PricesAreSensible
<1>3. PricesInv => OutcomeIsTrue
  BY PricesTrue, PricesAreSensible DEF OutcomeIsTrue
<1> QED
  BY <1>1, <1>2, <1>3, PTL DEF OperationsSpec
=============================================================================
