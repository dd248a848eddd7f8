------------------------------- MODULE Schema -------------------------------
(***************************************************************************)
(* The tables as the two migrations of app/alembic/versions leave them:    *)
(* what references what, what a DELETE does to the rows that refer to the  *)
(* deleted one, and what an upgrade or a downgrade does to all of them.    *)
(*                                                                         *)
(* A table is a set of records with the columns that refer to a row or     *)
(* that a decision reads.  No code under src deletes a row; an operator    *)
(* does, and the foreign keys answer for the rest.                         *)
(***************************************************************************)
EXTENDS Naturals, FiniteSets

CONSTANTS
    Orgs, NoOrg,
    Users, NoUser,
    Emails,
    Drones, Keys, Tokens,
    Entries      \* ids of audit_log

ASSUME NullAssumption == NoOrg \notin Orgs /\ NoUser \notin Users

VARIABLES
    version,     \* alembic_version
    orgs, users, roles, user_roles, sessions, drones, drone_api_keys, audit_log

rbacTables == <<users, roles, user_roles, sessions, audit_log>>
droneTables == <<orgs, drones, drone_api_keys>>
schemaVars == <<version, rbacTables, droneTables>>

\* The revisions, in the order of down_revision.
Revisions == {"none", "ad02ee5908dd", "c4a72f3b8d91"}
SeededRoles == {"viewer", "operator", "planner", "technician", "developer", "admin"}
Slugs == {"specter", "customer"}

OrgRow == [id: Orgs, slug: Slugs, parent: Orgs \cup {NoOrg}]
User == [id: Users, email: Emails, org: Orgs]
UserRole == [user: Users, org: Orgs, role: SeededRoles,
             revoked: BOOLEAN, revoked_by: Users \cup {NoUser}]
Session == [token: Tokens, user: Users]
Drone == [id: Drones, org: Orgs]
DroneApiKey == [id: Keys, drone: Drones]
AuditLog == [id: Entries, user: Users \cup {NoUser}, target: Orgs \cup {NoOrg},
             decision: {"allow", "deny"}]

SchemaInit ==
    /\ version = "none"
    /\ orgs = {} /\ users = {} /\ roles = {} /\ user_roles = {}
    /\ sessions = {} /\ drones = {} /\ drone_api_keys = {} /\ audit_log = {}

Ids(table) == {row.id : row \in table}

-----------------------------------------------------------------------------
(* Migrations.  alembic runs all of an upgrade in one transaction.         *)

UpgradeToHead ==
    /\ version # "c4a72f3b8d91"
    /\ version' = "c4a72f3b8d91"
    /\ roles' = SeededRoles
    /\ UNCHANGED <<users, user_roles, sessions, audit_log, droneTables>>

\* Drops the tables of human users and the column parent_org_id.
DowngradeRbac ==
    /\ version = "c4a72f3b8d91"
    /\ version' = "ad02ee5908dd"
    /\ users' = {} /\ roles' = {} /\ user_roles' = {} /\ sessions' = {} /\ audit_log' = {}
    /\ orgs' = {[o EXCEPT !.parent = NoOrg] : o \in orgs}
    /\ UNCHANGED <<drones, drone_api_keys>>

DowngradeInitial ==
    /\ version = "ad02ee5908dd"
    /\ version' = "none"
    /\ orgs' = {} /\ drones' = {} /\ drone_api_keys' = {}
    /\ UNCHANGED rbacTables

-----------------------------------------------------------------------------
(* Deletion of one row.                                                    *)

\* orgs.parent_org_id and users.org_id RESTRICT, drones.org_id has no action.
OrgIsReferenced(o) ==
    \/ \E child \in orgs : child.parent = o
    \/ \E user \in users : user.org = o
    \/ \E drone \in drones : drone.org = o

\* mutant: the audit rows of an org go with it
TargetGone_cascade(o) == {a \in audit_log : a.target # o}
TargetGone(o) == {IF a.target = o THEN [a EXCEPT !.target = NoOrg] ELSE a : a \in audit_log}

DeleteOrg(o) ==
    /\ o \in Ids(orgs)
    /\ ~OrgIsReferenced(o)
    /\ orgs' = {row \in orgs : row.id # o}
    /\ user_roles' = {g \in user_roles : g.org # o}
    /\ audit_log' = TargetGone(o)
    /\ UNCHANGED <<version, users, roles, sessions, drones, drone_api_keys>>

\* A user's own grants and sessions go; who revoked a grant becomes NULL.
\* mutant: revoked_by is left as it is
GrantsWithout_dangling(u) == {g \in user_roles : g.user # u}
GrantsWithout(u) ==
    {IF g.revoked_by = u THEN [g EXCEPT !.revoked_by = NoUser] ELSE g :
        g \in {h \in user_roles : h.user # u}}

ActorGone(u) == {IF a.user = u THEN [a EXCEPT !.user = NoUser] ELSE a : a \in audit_log}

DeleteUser(u) ==
    /\ u \in Ids(users)
    /\ users' = {row \in users : row.id # u}
    /\ user_roles' = GrantsWithout(u)
    /\ sessions' = {s \in sessions : s.user # u}
    /\ audit_log' = ActorGone(u)
    /\ UNCHANGED <<version, roles, droneTables>>

DeleteDrone(d) ==
    /\ d \in Ids(drones)
    /\ drones' = {row \in drones : row.id # d}
    /\ drone_api_keys' = {k \in drone_api_keys : k.drone # d}
    /\ UNCHANGED <<version, rbacTables, orgs>>

-----------------------------------------------------------------------------
(* What the handlers and the scripts of the other modules insert.          *)

AddOrg(o, parent) ==
    /\ version = "c4a72f3b8d91"
    /\ o \notin Ids(orgs)
    /\ parent \in Ids(orgs) \cup {NoOrg}
    /\ orgs' = orgs \cup {[id |-> o, slug |-> "customer", parent |-> parent]}
    /\ UNCHANGED <<version, rbacTables, drones, drone_api_keys>>

AddDrone(d, k, o) ==
    /\ version # "none"
    /\ d \notin Ids(drones) /\ k \notin Ids(drone_api_keys) /\ o \in Ids(orgs)
    /\ drones' = drones \cup {[id |-> d, org |-> o]}
    /\ drone_api_keys' = drone_api_keys \cup {[id |-> k, drone |-> d]}
    /\ UNCHANGED <<version, rbacTables, orgs>>

\* A session, and the audit row of the login.
LogIn(u, t, a, o) ==
    /\ u \in Ids(users) /\ o \in Ids(orgs)
    /\ t \notin {s.token : s \in sessions} /\ a \notin Ids(audit_log)
    /\ sessions' = sessions \cup {[token |-> t, user |-> u]}
    /\ audit_log' = audit_log \cup {[id |-> a, user |-> u, target |-> o, decision |-> "allow"]}
    /\ UNCHANGED <<version, users, roles, user_roles, droneTables>>

RevokeGrant(g, by) ==
    /\ g \in user_roles /\ ~g.revoked
    /\ by \in Ids(users)
    /\ user_roles' = (user_roles \ {g}) \cup {[g EXCEPT !.revoked = TRUE, !.revoked_by = by]}
    /\ UNCHANGED <<version, users, roles, sessions, audit_log, droneTables>>

-----------------------------------------------------------------------------
(* Properties.                                                             *)

\* No row refers to a row that is gone: for every order of deletions and
\* insertions the ON DELETE clauses of the foreign keys leave none (the
\* ForeignKeyConstraints of both migrations).
NoDanglingReference ==
    /\ \A o \in orgs : o.parent \in Ids(orgs) \cup {NoOrg}
    /\ \A u \in users : u.org \in Ids(orgs)
    /\ \A g \in user_roles : /\ g.user \in Ids(users)
                             /\ g.org \in Ids(orgs)
                             /\ g.role \in roles
                             /\ g.revoked_by \in Ids(users) \cup {NoUser}
    /\ \A s \in sessions : s.user \in Ids(users)
    /\ \A d \in drones : d.org \in Ids(orgs)
    /\ \A k \in drone_api_keys : k.drone \in Ids(drones)
    /\ \A a \in audit_log : /\ a.user \in Ids(users) \cup {NoUser}
                            /\ a.target \in Ids(orgs) \cup {NoOrg}

\* models/audit_log.py:33 "SET NULL on parent delete to preserve history":
\* an audit row keeps its place and its decision whatever is deleted, and no
\* later insertion puts another user or org in the place of one that is gone.
AuditKept ==
    [][version' = "c4a72f3b8d91" =>
        \A a \in audit_log : \E b \in audit_log' :
            /\ b.id = a.id /\ b.decision = a.decision
            /\ b.user \in {a.user, NoUser} /\ b.target \in {a.target, NoOrg}]_schemaVars
=============================================================================
