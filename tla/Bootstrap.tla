------------------------------ MODULE Bootstrap ------------------------------
(***************************************************************************)
(* scripts/bootstrap_specter_org.py, run by deploys that may overlap, over *)
(* the tables of module Schema.                                            *)
(*                                                                         *)
(* One run is one transaction at READ COMMITTED.  Its INSERTs are seen by  *)
(* nobody before its COMMIT, but the unique keys they take make the INSERT *)
(* of another run wait until this one ends.                                *)
(***************************************************************************)
EXTENDS Schema

CONSTANTS
    Runs,
    REVOCABLE    \* bound: the roles whose grants are ever revoked

VARIABLES
    pc,      \* where a run stands
    org,     \* SPECTER_ORG_ID of a run
    email,   \* SPECTER_BOOTSTRAP_EMAIL of a run
    newOrg,  \* runs that have inserted the org and not committed
    newUser, \* the user a run has inserted and not committed
    staffed  \* history: runs since whose start their org has had an active admin

runVars == <<pc, org, email, newOrg, newUser, staffed>>
vars == <<schemaVars, runVars>>

Ended == {"idle", "True", "False", "ValueError", "failed"}
States == Ended \cup {"grant", "org", "insert_org", "user", "insert_user", "commit"}
Open == {b \in Runs : pc[b] \notin Ended}

Init ==
    /\ SchemaInit
    /\ pc = [b \in Runs |-> "idle"]
    /\ org \in [Runs -> Orgs]
    /\ email \in [Runs -> Emails]
    /\ newOrg = {}
    /\ newUser = [b \in Runs |-> NoUser]
    /\ staffed = {}

ActiveAdmins(o) == {g \in user_roles : g.org = o /\ g.role = "admin" /\ ~g.revoked}

\* The transaction of a run ends: its keys are free.
\* mutant: an exception leaves the transaction open
EndTransaction_open(b) == UNCHANGED <<newOrg, newUser>>
EndTransaction(b) ==
    /\ newOrg' = newOrg \ {b}
    /\ newUser' = [newUser EXCEPT ![b] = NoUser]

Go(b, place) == pc' = [pc EXCEPT ![b] = place]
Fail(b, how) == Go(b, how) /\ EndTransaction(b)
Continue(b, place) == Go(b, place) /\ UNCHANGED <<newOrg, newUser>>

-----------------------------------------------------------------------------
(* bootstrap.                                                              *)

\* Before the migration there is no table roles.
SelectAdminRole(b) ==
    /\ pc[b] \in Ended
    /\ IF version # "c4a72f3b8d91" THEN Continue(b, "failed")
       ELSE IF "admin" \notin roles THEN Continue(b, "ValueError")
       ELSE Continue(b, "grant")
    /\ staffed' = IF ActiveAdmins(org[b]) = {} THEN staffed \ {b} ELSE staffed \cup {b}
    /\ UNCHANGED <<schemaVars, org, email>>

\* mutant: only a grant to the email of the configuration counts
HasAdmin_own(b) ==
    \E g \in ActiveAdmins(org[b]), u \in users : u.id = g.user /\ u.email = email[b]
HasAdmin(b) == ActiveAdmins(org[b]) # {}
SelectGrant(b) ==
    /\ pc[b] = "grant"
    /\ IF HasAdmin(b) THEN Fail(b, "False") ELSE Continue(b, "org")
    /\ UNCHANGED <<schemaVars, org, email, staffed>>

GetOrg(b) ==
    /\ pc[b] = "org"
    /\ Continue(b, IF org[b] \in Ids(orgs) THEN "user" ELSE "insert_org")
    /\ UNCHANGED <<schemaVars, org, email, staffed>>

\* Every bootstrapped org takes the slug "specter", whatever its id.
OrgPending(b) == newOrg \ {b} # {}
InsertOrg(b) ==
    /\ pc[b] = "insert_org"
    /\ ~OrgPending(b)
    /\ IF org[b] \in Ids(orgs) \/ \E o \in orgs : o.slug = "specter"
       THEN Fail(b, "failed")
       ELSE /\ Go(b, "user")
            /\ newOrg' = newOrg \cup {b}
            /\ UNCHANGED newUser
    /\ UNCHANGED <<schemaVars, org, email, staffed>>

SelectUser(b) ==
    /\ pc[b] = "user"
    /\ IF \E u \in users : u.email = email[b] THEN Fail(b, "ValueError")
       ELSE Continue(b, "insert_user")
    /\ UNCHANGED <<schemaVars, org, email, staffed>>

\* The unique key of users.email: committed rows conflict, and rows of open
\* transactions are waited for.
\* mutant: users.email is not unique
EmailTaken_never(b) == FALSE
EmailTaken(b) == \E u \in users : u.email = email[b]
EmailPending(b) ==
    \E other \in Runs \ {b} : newUser[other] # NoUser /\ email[other] = email[b]

InsertUser(b, u) ==
    /\ pc[b] = "insert_user"
    /\ u \notin Ids(users) \cup {newUser[other] : other \in Runs}
    /\ ~EmailPending(b)
    /\ IF EmailTaken(b) \/ ~(b \in newOrg \/ org[b] \in Ids(orgs))
       THEN Fail(b, "failed")
       ELSE /\ Go(b, "commit")
            /\ newUser' = [newUser EXCEPT ![b] = u]
            /\ UNCHANGED newOrg
    /\ UNCHANGED <<schemaVars, org, email, staffed>>

\* The developer role, both grants and the COMMIT.  The reply to the COMMIT may
\* be lost: then it raises, although the rows are there.
\* mutant: the org is inserted without a slug
SpecterOrg_slugless(b) ==
    IF b \in newOrg THEN {[id |-> org[b], slug |-> "", parent |-> NoOrg]} ELSE {}
SpecterOrg(b) ==
    IF b \in newOrg THEN {[id |-> org[b], slug |-> "specter", parent |-> NoOrg]} ELSE {}
Granted(b) == {[user |-> newUser[b], org |-> org[b], role |-> role,
                revoked |-> FALSE, revoked_by |-> NoUser] : role \in {"admin", "developer"}}

\* mutant: the developer role is granted after the commit
GrantedAtCommit_admin(b) == {g \in Granted(b) : g.role = "admin"}
GrantedAtCommit(b) == Granted(b)

Commit(b) ==
    /\ pc[b] = "commit"
    /\ IF "developer" \notin roles
       THEN Fail(b, "ValueError") /\ UNCHANGED schemaVars
       ELSE /\ \E answer \in {"True", "failed"} : Fail(b, answer)
            /\ orgs' = orgs \cup SpecterOrg(b)
            /\ users' = users \cup {[id |-> newUser[b], email |-> email[b], org |-> org[b]]}
            /\ user_roles' = user_roles \cup GrantedAtCommit(b)
            /\ UNCHANGED <<version, roles, sessions, drones, drone_api_keys, audit_log>>
    /\ UNCHANGED <<org, email, staffed>>

\* A statement fails or the process dies, and the transaction is rolled back.
Error(b) ==
    /\ b \in Open
    /\ Fail(b, "failed")
    /\ UNCHANGED <<schemaVars, org, email, staffed>>

Waits(b) ==
    \/ pc[b] = "insert_org" /\ OrgPending(b)
    \/ pc[b] = "insert_user" /\ EmailPending(b)

Step(b) ==
    \/ SelectGrant(b)
    \/ GetOrg(b)
    \/ InsertOrg(b)
    \/ SelectUser(b)
    \/ \E u \in Users : InsertUser(b, u)
    \/ Commit(b)

-----------------------------------------------------------------------------
(* The tables around the runs.                                             *)

\* A deleted or revoked grant ends the history of having an admin.
KeepHistory ==
    /\ staffed' = {b \in staffed : \E g \in user_roles' :
                      g.org = org[b] /\ g.role = "admin" /\ ~g.revoked}
    /\ UNCHANGED <<pc, org, email, newOrg, newUser>>

\* DROP TABLE waits for every transaction that has read the table.
Migrate ==
    /\ \/ UpgradeToHead
       \/ Open = {} /\ (DowngradeRbac \/ DowngradeInitial)
    /\ KeepHistory

\* The INSERT of a user holds its org: a DELETE waits for it.
Operate ==
    /\ \/ \E o \in Orgs : /\ DeleteOrg(o)
                          /\ \A b \in Runs : newUser[b] # NoUser => org[b] # o
       \/ \E u \in Users : DeleteUser(u)
       \/ \E d \in Drones : DeleteDrone(d)
       \/ \E o \in Orgs, parent \in Orgs \cup {NoOrg} :
             AddOrg(o, parent) /\ \A b \in newOrg : org[b] # o
       \/ \E d \in Drones, k \in Keys, o \in Orgs : AddDrone(d, k, o)
       \/ \E u \in Users, t \in Tokens, a \in Entries, o \in Orgs : LogIn(u, t, a, o)
       \/ \E g \in user_roles, by \in Users : g.role \in REVOCABLE /\ RevokeGrant(g, by)
    /\ KeepHistory

Next ==
    \/ \E b \in Runs : SelectAdminRole(b) \/ Step(b) \/ Error(b)
    \/ Migrate
    \/ Operate

Spec == Init /\ [][Next]_vars

-----------------------------------------------------------------------------
(* Properties.                                                             *)

\* Each variable keeps the shape of its table or of its process state.
TypeOK ==
    /\ version \in Revisions
    /\ orgs \subseteq OrgRow
    /\ users \subseteq User
    /\ roles \subseteq SeededRoles
    /\ user_roles \subseteq UserRole
    /\ sessions \subseteq Session
    /\ drones \subseteq Drone
    /\ drone_api_keys \subseteq DroneApiKey
    /\ audit_log \subseteq AuditLog
    /\ pc \in [Runs -> States]
    /\ org \in [Runs -> Orgs]
    /\ email \in [Runs -> Emails]
    /\ newOrg \subseteq Runs
    /\ newUser \in [Runs -> Users \cup {NoUser}]
    /\ staffed \subseteq Runs

\* A run is all or nothing (bootstrap_specter_org.py:103-144): when it ends it
\* leaves a new user with both grants at an org that exists, or no trace.  True
\* means the first, False and ValueError the second; a run that fails leaves
\* something only if it had come to its COMMIT.
AllOrNothing ==
    [][\A b \in Runs : pc'[b] \in Ended /\ pc[b] \notin Ended =>
        \/ /\ pc[b] = "commit" /\ pc'[b] \in {"True", "failed"}
           /\ \E u \in users' \ users :
                /\ u.email = email[b] /\ u.org = org[b] /\ u.org \in Ids(orgs')
                /\ \A role \in {"admin", "developer"} : \E g \in user_roles' :
                      g.user = u.id /\ g.org = org[b] /\ g.role = role /\ ~g.revoked
        \/ pc'[b] # "True" /\ UNCHANGED schemaVars]_vars

\* Deploys that overlap with the same configuration leave one administrator: a
\* run whose COMMIT takes effect finds the org without an active admin even
\* then, not only when it looked, whether or not it learns that it committed
\* (bootstrap_specter_org.py:85-93 and the unique email).
OneBootstrap ==
    [][\A b \in Runs : pc[b] = "commit" /\ newUser[b] \in Ids(users')
                           /\ (\A c \in Runs : email[c] = email[b])
          => ActiveAdmins(org[b]) = {}]_vars

\* "Idempotent", "no-op if the org already has at least one active admin grant"
\* (bootstrap_specter_org.py:62-68): a run that starts when the org has an
\* active admin, and as long as it keeps one, goes no further than the check.
NoOpWhenStaffed ==
    \A b \in staffed : pc[b] \in Ended \cup {"grant"} /\ newUser[b] = NoUser

\* Runs that wait for one another's keys never wait in a circle, nor for the
\* keys of a run that has ended: while a run is open, one can go on.
SomeRunProceeds ==
    Open # {} => \E b \in Open : ~Waits(b)

(***************************************************************************)
(* The one step that a run implements, whatever it overlaps with.          *)
(***************************************************************************)
Outcome == [b \in Runs |-> IF pc[b] \in Ended THEN pc[b] ELSE "running"]
OrgKeys == {[id |-> o.id, slug |-> o.slug] : o \in orgs}
ActiveGrants == {[user |-> g.user, org |-> g.org, role |-> g.role] :
                    g \in {h \in user_roles : ~h.revoked}}

Atomic == INSTANCE AtomicBootstrap WITH
    outcome <- Outcome, orgs <- OrgKeys, grants <- ActiveGrants

\* A run is all or nothing and has its effect at its commit, as if what it read
\* had been read then: the email is free, the org is there or nobody has its
\* slug, and the user appears with both grants; nothing else makes a user or a
\* grant.  True means that this happened; after a failure it happened as a whole
\* or not at all, the reply to the COMMIT may be lost; False, only answered where
\* there is an active admin, and ValueError, where the email is taken, leave no
\* trace, however deploys, migrations and deletions overlap
\* (bootstrap_specter_org.py:63-144).
AtomicSpec == Atomic!Spec
=============================================================================
