---------------------------- MODULE IdentityAdmin ----------------------------
(***************************************************************************)
(* The administration of users.  Keycloak is the authority on who is       *)
(* enabled and has which role; the platform keeps a row per user and       *)
(* brings it up to date when an administrator lists, opens or changes it.  *)
(* A change is a series of Keycloak calls in the middle of a transaction,  *)
(* which holds the row "identity-admin-guard" and the row of the user.     *)
(*                                                                         *)
(* Each step is one call, or one read or commit of the database.           *)
(***************************************************************************)
EXTENDS Naturals, FiniteSets, SequencesExt

CONSTANTS
    Users,
    Founders,      \* those who exist at first, enabled administrators
    Requests,      \* requests of administrators at a time
    MaxFaults,     \* bound: requests that fail in the middle
    Snapshots,     \* does a transaction read what was committed when it began?
    None

ASSUME IdentityAssumption ==
    Founders \subseteq Users /\ MaxFaults \in Nat /\ Snapshots \in BOOLEAN

VARIABLES
    keycloak,   \* the accounts of the realm
    local,      \* rows of users, with their formal role
    request,    \* what each request is doing
    faults      \* how many have failed

vars == <<keycloak, local, request, faults>>

FORMAL_ROLES == {"Admin", "User"}

\* An account whose role is being replaced has none.
Account == [role : FORMAL_ROLES \cup {"none", "absent"}, enabled : BOOLEAN]
Absent == [role |-> "absent", enabled |-> FALSE]

Idle == [kind |-> "idle"]
Calls == {"put", "delete", "post", "logout"}

\* A change or a creation carries the calls it has still to make, what it wants
\* the account to be, what it has read of it in the end, and whether the
\* administrators it has counted, or the row it has decided on, were not what
\* Keycloak had (history).
Working ==
    {Idle}
    \cup [kind : {"change", "create", "created"}, on : Users, want : Account, seen : Account \cup {None},
          calls : Seq(Calls), misled : BOOLEAN]
    \cup [kind : {"wait", "guarded"}, by : Users, snapshot : SUBSET Users]
    \cup [kind : {"get"}, on : Users, seen : Account]
    \cup (UNION {[kind : {"list"}, seen : [page -> Account]] : page \in SUBSET Users})
    \cup [kind : {"provision"}, on : Users, role : FORMAL_ROLES]

TypeOK ==
    /\ keycloak \in [Users -> Account]
    /\ local \in [Users -> Account]
    /\ request \in [Requests -> Working]
    /\ faults \in 0 .. MaxFaults
    /\ \A u \in Users : local[u].role \in FORMAL_ROLES \cup {"absent"}

Founder == [role |-> "Admin", enabled |-> TRUE]

Init ==
    /\ keycloak = [u \in Users |-> IF u \in Founders THEN Founder ELSE Absent]
    /\ local = keycloak
    /\ request = [q \in Requests |-> Idle]
    /\ faults = 0

Administrators(rows) == {u \in Users : rows[u].enabled /\ rows[u].role = "Admin"}

\* enforce takes the lesser role of the token and the row.  An access token
\* outlives the change of a role, and whoever is an administrator in the rows
\* has been one in Keycloak, so the token of that time is good enough.
ActsAsAdmin(u) == u \in Administrators(local)

Goes(q, work) == request' = [request EXCEPT ![q] = work]

\* Who holds the guard row, and who the row of a user.
GuardIsFree == \A q \in Requests : request[q].kind \notin {"guarded", "change", "created"}
RowIsFree(u) ==
    \A q \in Requests : request[q].kind \in {"change", "get"} => request[q].on # u

HasFormalRole(u) == keycloak[u].role \in FORMAL_ROLES

-----------------------------------------------------------------------------
(* The first access of a user without a row *)

\* enforce: get_human has found nothing, and the token says what Keycloak said.
FirstAccess(q, u) ==
    /\ request[q] = Idle
    /\ HasFormalRole(u) /\ keycloak[u].enabled /\ local[u] = Absent
    /\ Goes(q, [kind |-> "provision", on |-> u, role |-> keycloak[u].role])
    /\ UNCHANGED <<keycloak, local, faults>>

\* provision_from_principal: a row that has come meanwhile is overwritten with
\* the role of the token, unless it is disabled.
Provision(q) ==
    /\ request[q].kind = "provision"
    /\ LET u == request[q].on IN
       /\ RowIsFree(u)
       /\ local' = [local EXCEPT ![u] =
              IF @ = Absent \/ @.enabled
              THEN [role |-> request[q].role, enabled |-> TRUE] ELSE @]
    /\ Goes(q, Idle)
    /\ UNCHANGED <<keycloak, faults>>

-----------------------------------------------------------------------------
(* list_users and get_user *)

\* list_users reads all of Keycloak before its transaction; one account
\* without a formal role makes it fail.
ListUsers(q, by) ==
    /\ request[q] = Idle /\ ActsAsAdmin(by)
    /\ \A u \in Users : keycloak[u].role # "none"
    /\ \E page \in SUBSET {u \in Users : keycloak[u] # Absent} :
          Goes(q, [kind |-> "list", seen |-> [u \in page |-> keycloak[u]]])
    /\ UNCHANGED <<keycloak, local, faults>>

SyncPage(q) ==
    /\ request[q].kind = "list"
    /\ \A u \in DOMAIN request[q].seen : RowIsFree(u)
    /\ local' = [u \in Users |->
                     IF u \in DOMAIN request[q].seen THEN request[q].seen[u] ELSE local[u]]
    /\ Goes(q, Idle)
    /\ UNCHANGED <<keycloak, faults>>

GetUserUnlocked(q, by, u) ==
    /\ request[q] = Idle /\ ActsAsAdmin(by)
    /\ local[u] # Absent /\ HasFormalRole(u)
    /\ Goes(q, [kind |-> "get", on |-> u, seen |-> keycloak[u]])
    /\ UNCHANGED <<keycloak, local, faults>>

\* get_user locks the row before it asks Keycloak.
GetUser(q, by, u) ==
    /\ request[q] = Idle /\ ActsAsAdmin(by)
    /\ local[u] # Absent /\ HasFormalRole(u) /\ RowIsFree(u)
    /\ Goes(q, [kind |-> "get", on |-> u, seen |-> keycloak[u]])
    /\ UNCHANGED <<keycloak, local, faults>>

SyncUserUnderGuard(q) ==
    /\ request[q].kind = "get" /\ GuardIsFree
    /\ local' = [local EXCEPT ![request[q].on] = request[q].seen]
    /\ Goes(q, Idle)
    /\ UNCHANGED <<keycloak, faults>>

SyncUser(q) ==
    /\ request[q].kind = "get"
    /\ local' = [local EXCEPT ![request[q].on] = request[q].seen]
    /\ Goes(q, Idle)
    /\ UNCHANGED <<keycloak, faults>>

-----------------------------------------------------------------------------
(* update_user, reset_password and logout_user *)

\* The transaction begins by looking whether the guard row exists, and a
\* database with snapshots shows it from then on the rows of that moment.
OpenGuarded(q, by) ==
    /\ request[q] = Idle /\ ActsAsAdmin(by)
    /\ Goes(q, [kind |-> "wait", by |-> by, snapshot |-> Administrators(local)])
    /\ UNCHANGED <<keycloak, local, faults>>

TakeGuardAnyway(q) ==
    /\ \/ request[q].kind = "wait"
       \/ request[q].kind = "create" /\ request[q].seen # None
    /\ request' = [request EXCEPT ![q].kind = IF @ = "wait" THEN "guarded" ELSE "created"]
    /\ UNCHANGED <<keycloak, local, faults>>

\* acquire_transaction_lock; a creation comes to it at its end.
TakeGuard(q) ==
    /\ GuardIsFree
    /\ \/ request[q].kind = "wait"
       \/ request[q].kind = "create" /\ request[q].seen # None
    /\ request' = [request EXCEPT ![q].kind = IF @ = "wait" THEN "guarded" ELSE "created"]
    /\ UNCHANGED <<keycloak, local, faults>>

\* What an update asks for: of None it keeps what there is.
Commands == [role : FORMAL_ROLES \cup {None}, enabled : BOOLEAN \cup {None}]

\* _protect_admin_change: the row of the target, which is locked, is the
\* latest; the count of administrators is that of the snapshot.
Refused(by, u, command, admins) ==
    LET removes_admin == local[u].role = "Admin" /\ command.role = "User"
        disables_admin == /\ local[u].role = "Admin" /\ local[u].enabled
                          /\ command.enabled = FALSE
    IN (removes_admin \/ disables_admin) /\ (by = u \/ Cardinality(admins) <= 1)

Or(value, default) == IF value = None THEN default ELSE value

\* The calls an update makes: profile and status, role, sessions.  Changing the
\* profile alone puts the status that was read back.
CallsOf(current, want, profile) ==
    LET status == want.enabled # current.enabled
        role == want.role # current.role
    IN (IF status \/ profile THEN <<"put">> ELSE <<>>)
       \o (IF role THEN <<"delete", "post">> ELSE <<>>)
       \o (IF status \/ role THEN <<"logout">> ELSE <<>>)

\* The lock of the row, under the guard, and what is decided under both.  A password
\* reset and a logout are the update that changes nothing and ends the sessions.
UpdateUser(q, u) ==
    /\ request[q].kind = "guarded" /\ RowIsFree(u)
    /\ local[u] # Absent /\ HasFormalRole(u)
    /\ \E command \in Commands, profile \in BOOLEAN :
          LET admins == IF Snapshots THEN request[q].snapshot ELSE Administrators(local)
              want == [role |-> Or(command.role, keycloak[u].role),
                       enabled |-> Or(command.enabled, keycloak[u].enabled)]
          IN
          /\ ~Refused(request[q].by, u, command, admins)
          /\ Goes(q, [kind |-> "change", on |-> u, want |-> want, seen |-> None,
                      calls |-> CallsOf(keycloak[u], want, profile),
                      misled |-> \/ ~(admins \subseteq Administrators(keycloak))
                                \/ local[u] # keycloak[u]])
    /\ UNCHANGED <<keycloak, local, faults>>

\* The user is unknown, Keycloak does not answer, or the change is refused.
Refuse(q) ==
    /\ request[q].kind = "guarded"
    /\ Goes(q, Idle)
    /\ UNCHANGED <<keycloak, local, faults>>

-----------------------------------------------------------------------------
(* create_user *)

\* A disabled account without a role: the role, the password and the status
\* follow, and none of it is under the guard.
CreateUser(q, by, u) ==
    /\ request[q] = Idle /\ ActsAsAdmin(by)
    /\ keycloak[u] = Absent
    /\ keycloak' = [keycloak EXCEPT ![u] = [role |-> "none", enabled |-> FALSE]]
    /\ \E role \in FORMAL_ROLES :
          Goes(q, [kind |-> "create", on |-> u, seen |-> None, misled |-> FALSE,
                   want |-> [role |-> role, enabled |-> TRUE],
                   calls |-> <<"post", "put", "logout">>])
    /\ UNCHANGED <<local, faults>>

-----------------------------------------------------------------------------
(* The Keycloak calls of a change or a creation, and its end *)

Busy(q) == request[q].kind \in {"change", "create", "created"}

Called(account, call, want) ==
    [role |-> IF call = "delete" THEN "none" ELSE IF call = "post" THEN want.role
              ELSE account.role,
     enabled |-> IF call = "put" THEN want.enabled ELSE account.enabled]

CallKeycloak(q) ==
    /\ Busy(q) /\ request[q].calls # <<>>
    /\ keycloak' = [keycloak EXCEPT ![request[q].on] =
                        Called(@, Head(request[q].calls), request[q].want)]
    /\ request' = [request EXCEPT ![q].calls = Tail(@)]
    /\ UNCHANGED <<local, faults>>

ReadAnything(q) ==
    /\ Busy(q) /\ request[q].calls = <<>> /\ request[q].seen = None
    /\ request' = [request EXCEPT ![q].seen = keycloak[request[q].on]]
    /\ UNCHANGED <<keycloak, local, faults>>

\* The account is read again when it has been changed; without a formal role it
\* is refused, and the request ends like one that fails.
ReadAfterWrite(q) ==
    /\ Busy(q) /\ request[q].calls = <<>> /\ request[q].seen = None
    /\ \/ /\ HasFormalRole(request[q].on)
          /\ request' = [request EXCEPT ![q].seen = keycloak[request[q].on]]
       \/ /\ ~HasFormalRole(request[q].on)
          /\ Goes(q, Idle)
    /\ UNCHANGED <<keycloak, local, faults>>

\* The row follows and the transaction commits, which for a creation is one of
\* its own.
Commit(q) ==
    /\ request[q].kind \in {"change", "created"} /\ request[q].seen # None
    /\ request[q].kind = "created" => RowIsFree(request[q].on)
    /\ local' = [local EXCEPT ![request[q].on] = request[q].seen]
    /\ Goes(q, Idle)
    /\ UNCHANGED <<keycloak, faults>>

\* A call or the commit fails: the transaction is rolled back, what Keycloak
\* has done stays done.
Fail(q) ==
    /\ Busy(q) /\ faults < MaxFaults
    /\ faults' = faults + 1
    /\ Goes(q, Idle)
    /\ UNCHANGED <<keycloak, local>>

-----------------------------------------------------------------------------

\* What a request does by itself once it has begun.
Proceed(q) ==
    \/ Provision(q) \/ SyncPage(q) \/ SyncUser(q)
    \/ CallKeycloak(q) \/ ReadAfterWrite(q) \/ Commit(q)
    \/ TakeGuard(q) \/ Refuse(q) \/ \E u \in Users : UpdateUser(q, u)

Next ==
    \/ \E q \in Requests, by, u \in Users : GetUser(q, by, u) \/ CreateUser(q, by, u)
    \/ \E q \in Requests, u \in Users : FirstAccess(q, u) \/ ListUsers(q, u) \/ OpenGuarded(q, u)
    \/ \E q \in Requests : Proceed(q) \/ Fail(q)

Spec == Init /\ [][Next]_vars

-----------------------------------------------------------------------------
(* Properties *)

\* docs/superpowers/specs/2026-07-29-user-management-design.md:217: there is
\* always an enabled administrator.
AnAdminRemains == Administrators(keycloak) # {}

\* What the guard is worth: the last administrator can only be removed while a
\* request is at work that was decided on rows Keycloak did not agree with.
LastAdminIsMiscounted ==
    [][AnAdminRemains /\ ~AnAdminRemains'
       => \E q \in Requests : Busy(q) /\ request[q].misled]_vars

\* A row is locked while Keycloak is asked: opening a user or changing one
\* leaves the row as Keycloak has it, whatever other requests do meanwhile (for
\* the founders: the calls of a creation are not under that lock).
SyncIsCurrent ==
    [][\A q \in Requests :
          /\ request[q].kind \in {"change", "get"} /\ request'[q] = Idle
          /\ request[q].on \in Founders
          => local'[request[q].on] \in {local[request[q].on], keycloak[request[q].on]}]_vars

\* The guard and the rows, which are held while Keycloak is asked, never make
\* all requests wait for one another.
SomeRequestProceeds ==
    (\E q \in Requests : request[q] # Idle)
    => \E q \in Requests : request[q] # Idle /\ ENABLED Proceed(q)
=============================================================================
