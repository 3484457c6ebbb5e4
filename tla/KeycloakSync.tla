----------------------------- MODULE KeycloakSync -----------------------------
(***************************************************************************)
(* scripts/sync_keycloak_user_management.py: it reads the realm, plans     *)
(* what is missing, carries the plan out call by call, reads and plans     *)
(* again, which must leave nothing to do, and brings the platform's rows   *)
(* up to date.  It may stop at any call, and an operator runs it again.    *)
(***************************************************************************)
EXTENDS Naturals, FiniteSets, SequencesExt

CONSTANTS Members, Steward    \* the users of the realm, one of them an administrator

VARIABLES
    realm,     \* the roles and scopes that exist, the client and what it is granted
    roles,     \* the realm roles of each user
    script,    \* where the script is, and what it still has to do
    mirror     \* the role of each user in the platform's rows

vars == <<realm, roles, script, mirror>>

LEGACY_ROLES == {"Analyst", "Viewer"}
FORMAL_ROLES == {"Admin", "User"}

\* assessments:review stands for both required scopes.
Parts == {"role User", "role Analyst", "role Viewer", "scope", "client", "grants", "web scope"}
Actions == [kind : {"create", "remove"}, part : Parts]
           \cup [kind : {"migrate add", "migrate drop", "logout"}, user : Members,
                 role : FORMAL_ROLES]

TypeOK ==
    /\ realm \subseteq Parts
    /\ roles \in [Members -> SUBSET (LEGACY_ROLES \cup FORMAL_ROLES)]
    /\ script.pc \in {"stopped", "applying", "converged"}
    /\ script.todo \in Seq(Actions)
    /\ mirror \in [Members -> FORMAL_ROLES \cup {"none"}]

\* A realm from before user management, with users of every kind.
Init ==
    /\ realm = {"role Analyst", "role Viewer"}
    /\ roles \in {r \in [Members -> SUBSET (LEGACY_ROLES \cup {"Admin"})] : "Admin" \in r[Steward]}
    /\ script = [pc |-> "stopped", todo |-> <<>>]
    /\ mirror = [m \in Members |-> "none"]

-----------------------------------------------------------------------------
(* plan *)

Missing(part) ==
    IF part \in realm THEN <<>> ELSE <<[kind |-> "create", part |-> part]>>

TargetRole(m) == IF "Admin" \in roles[m] THEN "Admin" ELSE "User"

\* _migrate_user adds the formal role first and only then drops the legacy ones.
MigrateDroppingFirst == <<"migrate drop", "migrate add", "logout">>

Migrate == <<"migrate add", "migrate drop", "logout">>

\* One user after the other of those with a legacy role.
Legacy == {m \in Members : roles[m] \cap LEGACY_ROLES # {}}

Migrations ==
    LET users == SetToSeq(Legacy)
        user(i) == users[((i - 1) \div 3) + 1]
    IN [i \in 1 .. 3 * Len(users) |->
          [kind |-> Migrate[((i - 1) % 3) + 1], user |-> user(i), role |-> TargetRole(user(i))]]

Left(part) ==
    IF part \in realm THEN <<[kind |-> "remove", part |-> part]>> ELSE <<>>

Plan ==
    Missing("role User") \o Missing("scope") \o Missing("client") \o Missing("grants")
    \o Missing("web scope") \o Migrations \o Left("role Analyst") \o Left("role Viewer")

-----------------------------------------------------------------------------
(* main --apply *)

\* plan refuses a realm without an enabled administrator.
Start ==
    /\ script.pc # "applying"
    /\ \E m \in Members : "Admin" \in roles[m]
    /\ script' = [pc |-> "applying", todo |-> Plan]
    /\ UNCHANGED <<realm, roles, mirror>>

\* Deleting a realm role takes it from every user who has it.
RolesAfter(action) ==
    [m \in Members |->
       IF action.kind = "migrate add" /\ action.user = m THEN roles[m] \cup {action.role}
       ELSE IF action.kind = "migrate drop" /\ action.user = m THEN roles[m] \ LEGACY_ROLES
       ELSE IF action.kind = "remove"
       THEN roles[m] \ {IF action.part = "role Analyst" THEN "Analyst" ELSE "Viewer"}
       ELSE roles[m]]

RealmAfter(action) ==
    IF action.kind = "create" THEN realm \cup {action.part}
    ELSE IF action.kind = "remove" THEN realm \ {action.part}
    ELSE realm

Apply ==
    /\ script.pc = "applying" /\ script.todo # <<>>
    /\ roles' = RolesAfter(Head(script.todo))
    /\ realm' = RealmAfter(Head(script.todo))
    /\ script' = [script EXCEPT !.todo = Tail(@)]
    /\ UNCHANGED mirror

FormalRole(m) ==
    IF Cardinality(roles[m] \cap FORMAL_ROLES) = 1
    THEN CHOOSE r \in roles[m] : r \in FORMAL_ROLES ELSE mirror[m]

\* The second plan is empty, and the rows of the users with one formal role
\* follow; the others are passed over.
Converge ==
    /\ script.pc = "applying" /\ script.todo = <<>>
    /\ Plan = <<>>
    /\ mirror' = [m \in Members |-> FormalRole(m)]
    /\ script' = [script EXCEPT !.pc = "converged"]
    /\ UNCHANGED <<realm, roles>>

\* A call fails, or the process dies.
Interrupt ==
    /\ script.pc = "applying"
    /\ script' = [pc |-> "stopped", todo |-> <<>>]
    /\ UNCHANGED <<realm, roles, mirror>>

Next == Start \/ Apply \/ Converge \/ Interrupt

Spec == Init /\ [][Next]_vars

-----------------------------------------------------------------------------
(* Properties *)

\* Wherever the script is interrupted: nobody who had a role is without one, and
\* no administrator stops being one, so that it can always be run again.
NobodyLosesTheirRole ==
    [][\A m \in Members : /\ roles[m] # {} => roles'[m] # {}
                          /\ "Admin" \in roles[m] => "Admin" \in roles'[m]]_vars

\* One run that is not interrupted is enough.
OneRunConverges == script.pc = "applying" /\ script.todo = <<>> => Plan = <<>>
=============================================================================
