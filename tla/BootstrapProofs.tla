-------------------------- MODULE BootstrapProofs --------------------------
(***************************************************************************)
(* Proofs about Bootstrap and the tables of Schema, for every set of orgs, *)
(* users, emails, drones, keys, tokens and audit entries and any number of *)
(* deploys that overlap.  The inductive invariant says what an open        *)
(* transaction holds: the keys nobody else can take before it ends.        *)
(***************************************************************************)
EXTENDS Bootstrap, TLAPS

Head == "c4a72f3b8d91"

\* What a revision has no tables for is empty, and the roles are seeded.
Versioned ==
    /\ version = Head => roles = SeededRoles
    /\ version # Head => users = {} /\ user_roles = {} /\ sessions = {} /\ audit_log = {}
    /\ version = "none" => orgs = {} /\ drones = {} /\ drone_api_keys = {}

\* Users come from bootstraps only.
Origin == \A u \in users : \E b \in Runs : u.email = email[b]

\* A run about to commit: its org and the keys of its user are its own.
Holds(b) ==
    /\ newUser[b] \in Users \ Ids(users)
    /\ b \in newOrg \/ org[b] \in Ids(orgs)
    /\ \A u \in users : u.email # email[b]
    /\ \A c \in Runs \ {b} : pc[c] = "commit" => newUser[c] # newUser[b] /\ email[c] # email[b]

\* Where a run stands tells what it holds.
Local(b) ==
    /\ pc[b] \notin {"user", "insert_user", "commit"} => b \notin newOrg
    /\ pc[b] # "commit" => newUser[b] = NoUser
    /\ pc[b] = "commit" => Holds(b)
    /\ pc[b] \notin Ended => version = Head
    /\ b \in staffed => pc[b] \in Ended \cup {"grant"} /\ ActiveAdmins(org[b]) # {}

SchemaInv == Versioned /\ Origin /\ NoDanglingReference

IInv ==
    /\ TypeOK
    /\ SchemaInv
    /\ \A b \in Runs : Local(b)

\* The initial state satisfies the invariant.
THEOREM InitIInv == Init => IInv
<1> SUFFICES ASSUME Init
             PROVE  IInv
  OBVIOUS
<1>1. TypeOK
  BY DEF Init, SchemaInit, TypeOK, Revisions, States, Ended
<1>2. SchemaInv
  BY DEF Init, SchemaInit, SchemaInv, Versioned, Origin, NoDanglingReference, Head
<1>3. \A b \in Runs : Local(b)
  BY DEF Init, Local, Ended
<1> QED
  BY <1>1, <1>2, <1>3 DEF IInv

-----------------------------------------------------------------------------
(* The steps of a run before its commit leave the tables alone.            *)

LEMMA QuietRun ==
    ASSUME SchemaInv, UNCHANGED schemaVars, UNCHANGED email
    PROVE  SchemaInv'
BY DEF schemaVars, rbacTables, droneTables, SchemaInv, Versioned, Origin, NoDanglingReference, Ids

\* A run that ends, or goes on without a new key, takes nothing from the others.
LEMMA RunEnds ==
    ASSUME IInv, UNCHANGED <<schemaVars, org, email, staffed>>, NEW b \in Runs, pc[b] \notin Ended,
           NEW how \in {"True", "False", "ValueError", "failed"}, Fail(b, how)
    PROVE  IInv'
<1> USE DEF Fail, EndTransaction, Go
<1>1. TypeOK'
  BY DEF IInv, TypeOK, schemaVars, rbacTables, droneTables, States, Ended
<1>2. SchemaInv'
  BY QuietRun DEF IInv
<1>3. \A c \in Runs : Local(c)'
  BY DEF IInv, TypeOK, Local, Holds, ActiveAdmins, Ended, Ids, schemaVars, rbacTables, droneTables
<1> QED
  BY <1>1, <1>2, <1>3 DEF IInv

LEMMA RunGoesOn ==
    ASSUME IInv, UNCHANGED <<schemaVars, org, email, staffed>>, NEW b \in Runs,
           b \notin staffed \/ pc[b] # "grant", pc[b] \notin Ended \cup {"commit"},
           NEW place \in {"org", "insert_org", "user", "insert_user"}, Continue(b, place),
           pc[b] \in {"user", "insert_user"} => place \in {"user", "insert_user"}
    PROVE  IInv'
<1> USE DEF Continue, Go
<1>1. TypeOK'
  BY DEF IInv, TypeOK, schemaVars, rbacTables, droneTables, States, Ended
<1>2. SchemaInv'
  BY QuietRun DEF IInv
<1>3. \A c \in Runs : Local(c)'
  BY DEF IInv, TypeOK, Local, Holds, ActiveAdmins, Ended, Ids, schemaVars, rbacTables, droneTables
<1> QED
  BY <1>1, <1>2, <1>3 DEF IInv

LEMMA SelectAdminRoleKeeps ==
    ASSUME IInv, NEW b \in Runs, SelectAdminRole(b)
    PROVE  IInv'
<1> USE DEF SelectAdminRole, Continue, Go
<1>1. TypeOK'
  BY DEF IInv, TypeOK, schemaVars, rbacTables, droneTables, States, Ended
<1>2. SchemaInv'
  BY QuietRun DEF IInv
<1>3. \A c \in Runs : Local(c)'
  BY DEF IInv, TypeOK, Local, Holds, ActiveAdmins, Ended, Ids, schemaVars, rbacTables,
     droneTables, Head
<1> QED
  BY <1>1, <1>2, <1>3 DEF IInv

LEMMA SelectGrantKeeps ==
    ASSUME IInv, NEW b \in Runs, SelectGrant(b)
    PROVE  IInv'
<1>1. CASE HasAdmin(b)
  BY <1>1, RunEnds DEF SelectGrant, Ended
<1>2. CASE ~HasAdmin(b)
  <2>1. b \notin staffed
    BY <1>2 DEF IInv, Local, HasAdmin
  <2> QED
    BY <1>2, <2>1, RunGoesOn DEF SelectGrant, Ended
<1> QED
  BY <1>1, <1>2

LEMMA GetOrgKeeps ==
    ASSUME IInv, NEW b \in Runs, GetOrg(b)
    PROVE  IInv'
BY RunGoesOn DEF GetOrg, Ended

LEMMA InsertOrgKeeps ==
    ASSUME IInv, NEW b \in Runs, InsertOrg(b)
    PROVE  IInv'
<1>1. CASE Fail(b, "failed")
  BY <1>1, RunEnds DEF InsertOrg, Ended
<1>2. CASE Go(b, "user") /\ newOrg' = newOrg \cup {b} /\ UNCHANGED newUser
  <2> USE <1>2 DEF InsertOrg, Go
  <2>1. TypeOK'
    BY DEF IInv, TypeOK, schemaVars, rbacTables, droneTables, States, Ended
  <2>2. SchemaInv'
    BY QuietRun DEF IInv
  <2>3. \A c \in Runs : Local(c)'
    BY DEF IInv, TypeOK, Local, Holds, ActiveAdmins, Ended, Ids, schemaVars, rbacTables,
       droneTables
  <2> QED
    BY <2>1, <2>2, <2>3 DEF IInv
<1> QED
  BY <1>1, <1>2 DEF InsertOrg

LEMMA SelectUserKeeps ==
    ASSUME IInv, NEW b \in Runs, SelectUser(b)
    PROVE  IInv'
<1>1. CASE Fail(b, "ValueError")
  BY <1>1, RunEnds DEF SelectUser, Ended
<1>2. CASE Continue(b, "insert_user")
  BY <1>2, RunGoesOn DEF SelectUser, Ended
<1> QED
  BY <1>1, <1>2 DEF SelectUser

\* The INSERT takes the keys that no committed row and no open run has.
LEMMA InsertUserKeeps ==
    ASSUME IInv, NEW b \in Runs, NEW u \in Users, InsertUser(b, u)
    PROVE  IInv'
<1>1. CASE Fail(b, "failed")
  BY <1>1, RunEnds DEF InsertUser, Ended
<1>2. CASE ~Fail(b, "failed")
  <2>1. /\ pc[b] = "insert_user"
        /\ u \notin Ids(users) /\ \A c \in Runs : newUser[c] # u
        /\ ~EmailPending(b) /\ ~EmailTaken(b)
        /\ b \in newOrg \/ org[b] \in Ids(orgs)
        /\ pc' = [pc EXCEPT ![b] = "commit"]
        /\ newUser' = [newUser EXCEPT ![b] = u]
        /\ UNCHANGED <<newOrg, schemaVars, org, email, staffed>>
    BY <1>2 DEF InsertUser, Go
  <2>2. TypeOK'
    BY <2>1 DEF IInv, TypeOK, schemaVars, rbacTables, droneTables, States, Ended
  <2>3. SchemaInv'
    BY <2>1, QuietRun DEF IInv
  <2>4. \A c \in Runs \ {b} : pc[c] = "commit" => newUser[c] # NoUser /\ email[c] # email[b]
    BY <2>1, NullAssumption DEF IInv, Local, Holds, EmailPending
  <2>5. Ids(users)' = Ids(users) /\ Ids(orgs)' = Ids(orgs)
    BY <2>1 DEF Ids, schemaVars, rbacTables, droneTables
  <2>6. Local(b)'
    <3>1. Holds(b)'
      BY <2>1, <2>4, <2>5 DEF IInv, TypeOK, Holds, EmailTaken, schemaVars, rbacTables
    <3> QED
      BY <2>1, <3>1 DEF IInv, TypeOK, Local, Ended, schemaVars
  <2>7. ASSUME NEW c \in Runs \ {b}
        PROVE  Local(c)'
    <3>1. pc[c] = "commit" => Holds(c)'
      BY <2>1, <2>4, <2>5 DEF IInv, TypeOK, Local, Holds, schemaVars, rbacTables
    <3>2. ActiveAdmins(org[c])' = ActiveAdmins(org[c])
      BY <2>1 DEF ActiveAdmins, schemaVars, rbacTables
    <3> QED
      BY <2>1, <3>1, <3>2 DEF IInv, TypeOK, Local, Ended, schemaVars
  <2> QED
    BY <2>2, <2>3, <2>6, <2>7 DEF IInv
<1> QED
  BY <1>1, <1>2

LEMMA ErrorKeeps ==
    ASSUME IInv, NEW b \in Runs, Error(b)
    PROVE  IInv'
BY RunEnds DEF Error, Open

\* The ids of a table with more rows.
LEMMA IdsUnion == \A S, T : Ids(S \cup T) = Ids(S) \cup Ids(T)
BY DEF Ids

LEMMA IdsOne == \A row : Ids({row}) = {row.id}
BY DEF Ids

LEMMA IdsAdd ==
    ASSUME NEW S, NEW T, NEW row, NEW id, T = S \cup {row}, row.id = id
    PROVE  Ids(T) = Ids(S) \cup {id}
BY DEF Ids

\* The rows of a commit, with everything they refer to.
LEMMA CommitRows ==
    ASSUME IInv, NEW b \in Runs, pc[b] = "commit", newUser[b] \in Users,
           b \in newOrg \/ org[b] \in Ids(orgs)
    PROVE  /\ SpecterOrg(b) \subseteq OrgRow
           /\ [id |-> newUser[b], email |-> email[b], org |-> org[b]] \in User
           /\ Granted(b) \subseteq UserRole
           /\ org[b] \in Ids(orgs \cup SpecterOrg(b))
<1>1. org[b] \in Orgs /\ email[b] \in Emails
  BY DEF IInv, TypeOK
<1>2. SpecterOrg(b) \subseteq OrgRow
  BY <1>1 DEF SpecterOrg, OrgRow, Slugs
<1> DEFINE grant(role) == [user |-> newUser[b], org |-> org[b], role |-> role,
                           revoked |-> FALSE, revoked_by |-> NoUser]
<1>3. Granted(b) \subseteq UserRole
  <2>1. \A role \in {"admin", "developer"} : grant(role) \in UserRole
    BY <1>1 DEF UserRole, SeededRoles
  <2>2. Granted(b) = {grant(role) : role \in {"admin", "developer"}}
    BY DEF Granted
  <2> HIDE DEF grant
  <2> QED
    BY <2>1, <2>2
<1>4. org[b] \in Ids(orgs \cup SpecterOrg(b))
  <2>1. CASE b \in newOrg
    <3>1. SpecterOrg(b) = {[id |-> org[b], slug |-> "specter", parent |-> NoOrg]}
      BY <2>1 DEF SpecterOrg
    <3>2. Ids(SpecterOrg(b)) = {org[b]}
      BY <3>1, IdsOne
    <3> QED
      BY <3>2, IdsUnion
  <2>2. CASE org[b] \in Ids(orgs)
    BY <2>2, IdsUnion
  <2> QED
    BY <2>1, <2>2
<1> QED
  BY <1>1, <1>2, <1>3, <1>4 DEF User

LEMMA CommitKeeps ==
    ASSUME IInv, NEW b \in Runs, Commit(b)
    PROVE  IInv'
<1>1. CASE Fail(b, "ValueError") /\ UNCHANGED schemaVars
  BY <1>1, RunEnds DEF Commit, Ended
<1>2. CASE ~(Fail(b, "ValueError") /\ UNCHANGED schemaVars)
  <2>1. /\ pc[b] = "commit"
        /\ \E answer \in {"True", "failed"} : pc' = [pc EXCEPT ![b] = answer]
        /\ newOrg' = newOrg \ {b}
        /\ newUser' = [newUser EXCEPT ![b] = NoUser]
        /\ orgs' = orgs \cup SpecterOrg(b)
        /\ users' = users \cup {[id |-> newUser[b], email |-> email[b], org |-> org[b]]}
        /\ user_roles' = user_roles \cup Granted(b)
        /\ UNCHANGED <<version, roles, sessions, drones, drone_api_keys, audit_log, org, email, staffed>>
    BY <1>2 DEF Commit, Fail, EndTransaction, Go, GrantedAtCommit
  <2>2. Local(b) /\ Holds(b) /\ version = Head
    BY <2>1 DEF IInv, Local, Ended
  <2>3. /\ newUser[b] \in Users
        /\ newUser[b] \notin Ids(users)
        /\ b \in newOrg \/ org[b] \in Ids(orgs)
    BY <2>2 DEF Holds
  <2>4. /\ SpecterOrg(b) \subseteq OrgRow
        /\ [id |-> newUser[b], email |-> email[b], org |-> org[b]] \in User
        /\ Granted(b) \subseteq UserRole
        /\ org[b] \in Ids(orgs')
    BY <2>1, <2>3, CommitRows
  <2>5. TypeOK'
    BY <2>1, <2>4, NullAssumption DEF IInv, TypeOK, States, Ended
  <2> DEFINE row == [id |-> newUser[b], email |-> email[b], org |-> org[b]]
  <2>6. /\ Ids(users') = Ids(users) \cup {newUser[b]}
        /\ Ids(orgs) \subseteq Ids(orgs')
        /\ Ids(drones') = Ids(drones)
    <3>1. users' = users \cup {row} /\ row.id = newUser[b]
      BY <2>1
    <3>2. Ids(users') = Ids(users) \cup {newUser[b]}
      <4> HIDE DEF row
      <4> QED
        BY <3>1, IdsAdd
    <3>3. Ids(orgs') = Ids(orgs) \cup Ids(SpecterOrg(b))
      BY <2>1, IdsUnion
    <3>4. Ids(drones') = Ids(drones)
      BY <2>1
    <3> QED
      BY <3>2, <3>3, <3>4
  <2>7. NoDanglingReference'
    <3>1. \A o \in orgs' : o.parent \in Ids(orgs') \cup {NoOrg}
      <4>1. \A o \in SpecterOrg(b) : o.parent = NoOrg
        BY DEF SpecterOrg
      <4> QED
        BY <2>1, <2>6, <4>1 DEF IInv, SchemaInv, NoDanglingReference
    <3>2. \A u \in users' : u.org \in Ids(orgs')
      <4>1. \A u \in users : u.org \in Ids(orgs')
        BY <2>6 DEF IInv, SchemaInv, NoDanglingReference
      <4>2. row.org = org[b] /\ users' = users \cup {row}
        BY <2>1
      <4> HIDE DEF row
      <4> QED
        BY <2>4, <4>1, <4>2
    <3>3. \A g \in user_roles' : /\ g.user \in Ids(users')
                                 /\ g.org \in Ids(orgs')
                                 /\ g.role \in roles'
                                 /\ g.revoked_by \in Ids(users') \cup {NoUser}
      <4>1. roles = SeededRoles
        BY <2>2 DEF IInv, SchemaInv, Versioned
      <4>2. ASSUME NEW g \in Granted(b)
            PROVE  /\ g.user = newUser[b] /\ g.org = org[b]
                   /\ g.role \in SeededRoles /\ g.revoked_by = NoUser
        BY <4>2 DEF Granted, SeededRoles
      <4> QED
        BY <2>1, <2>4, <2>6, <4>1, <4>2 DEF IInv, SchemaInv, NoDanglingReference
    <3>4. /\ \A s \in sessions' : s.user \in Ids(users')
          /\ \A d \in drones' : d.org \in Ids(orgs')
          /\ \A k \in drone_api_keys' : k.drone \in Ids(drones')
          /\ \A a \in audit_log' : /\ a.user \in Ids(users') \cup {NoUser}
                                   /\ a.target \in Ids(orgs') \cup {NoOrg}
      BY <2>1, <2>6 DEF IInv, SchemaInv, NoDanglingReference
    <3> QED
      BY <3>1, <3>2, <3>3, <3>4 DEF NoDanglingReference
  <2>8. SchemaInv'
    BY <2>1, <2>2, <2>7 DEF IInv, SchemaInv, Versioned, Origin, Head
  <2>9. Local(b)'
    BY <2>1, <2>2 DEF IInv, TypeOK, Local, Ended, ActiveAdmins
  <2>10. ASSUME NEW c \in Runs \ {b}
         PROVE  Local(c)'
    <3>1. pc[c] = "commit" => newUser[c] # newUser[b] /\ email[c] # email[b]
      BY <2>2 DEF Holds
    <3>2. ASSUME pc[c] = "commit"
          PROVE  Holds(c)'
      <4>1. /\ newUser'[c] = newUser[c] /\ org' = org /\ email' = email
            /\ c \in newOrg => c \in newOrg'
            /\ \A d \in Runs \ {c} : pc'[d] = "commit" =>
                  pc[d] = "commit" /\ newUser'[d] = newUser[d]
        BY <2>1 DEF IInv, TypeOK
      <4>2. Holds(c)
        BY <3>2 DEF IInv, Local
      <4>3. row.email = email[b] /\ users' = users \cup {row}
        BY <2>1
      <4> HIDE DEF row
      <4> QED
        BY <2>6, <3>1, <3>2, <4>1, <4>2, <4>3 DEF Holds
    <3>3. ActiveAdmins(org[c]) \subseteq ActiveAdmins(org[c])'
      BY <2>1 DEF ActiveAdmins
    <3> QED
      BY <2>1, <3>2, <3>3 DEF IInv, TypeOK, Local, Ended
  <2> QED
    BY <2>5, <2>8, <2>9, <2>10 DEF IInv
<1> QED
  BY <1>1, <1>2

-----------------------------------------------------------------------------
(* Migrations and operators leave the runs where they are.                 *)

\* What a change of the tables must leave as it is for the open runs.
LEMMA TablesMove ==
    ASSUME IInv, KeepHistory, SchemaInv',
           version \in Revisions, version' \in Revisions,
           orgs' \subseteq OrgRow, users' \subseteq User, roles' \subseteq SeededRoles,
           user_roles' \subseteq UserRole, sessions' \subseteq Session, drones' \subseteq Drone,
           drone_api_keys' \subseteq DroneApiKey, audit_log' \subseteq AuditLog,
           users' \subseteq users,
           Open # {} => version' = Head,
           \A b \in Runs : newUser[b] # NoUser /\ org[b] \in Ids(orgs) => org[b] \in Ids(orgs')
    PROVE  IInv'
<1> USE DEF KeepHistory
<1>1. TypeOK'
  BY DEF IInv, TypeOK
<1>2. ASSUME NEW b \in Runs
      PROVE  Local(b)'
  <2>1. pc[b] = "commit" => Holds(b)'
    <3>1. Ids(users') \subseteq Ids(users)
      BY DEF Ids
    <3>2. pc[b] = "commit" => newUser[b] # NoUser
      BY NullAssumption DEF IInv, Local, Holds
    <3> QED
      BY <3>1, <3>2 DEF IInv, Local, Holds, Ids
  <2>2. b \in staffed' => b \in staffed /\ ActiveAdmins(org[b])' # {}
    BY DEF ActiveAdmins
  <2>3. pc[b] \notin Ended => version' = Head
    BY DEF Open
  <2> QED
    BY <2>1, <2>2, <2>3 DEF IInv, Local
<1> QED
  BY <1>1, <1>2 DEF IInv

LEMMA MigrateKeeps ==
    ASSUME IInv, Migrate
    PROVE  IInv'
<1> USE DEF Head
<1>1. KeepHistory /\ TypeOK /\ SchemaInv
  BY DEF Migrate, IInv
<1>2. CASE UpgradeToHead
  <2>1. SchemaInv'
    BY <1>1, <1>2 DEF UpgradeToHead, KeepHistory, SchemaInv, Versioned, Origin,
       NoDanglingReference, Ids, droneTables
  <2> QED
    BY <1>1, <1>2, <2>1, TablesMove DEF UpgradeToHead, TypeOK, Revisions, droneTables
<1>3. CASE Open = {} /\ DowngradeRbac
  <2> DEFINE bare(o) == [o EXCEPT !.parent = NoOrg]
  <2>1. orgs' = {bare(o) : o \in orgs}
    BY <1>3 DEF DowngradeRbac
  <2>2. \A o \in orgs : bare(o) \in OrgRow /\ bare(o).id = o.id /\ bare(o).parent = NoOrg
    BY <1>1 DEF TypeOK, OrgRow
  <2>3. Ids(orgs') = Ids(orgs)
    BY <2>1, <2>2 DEF Ids
  <2>4. orgs' \subseteq OrgRow /\ \A o \in orgs' : o.parent = NoOrg
    BY <2>1, <2>2
  <2>5. SchemaInv'
    BY <1>1, <1>3, <2>3, <2>4 DEF DowngradeRbac, KeepHistory, SchemaInv, Versioned, Origin,
       NoDanglingReference, Ids
  <2> QED
    BY <1>1, <1>3, <2>3, <2>4, <2>5, TablesMove DEF DowngradeRbac, TypeOK, Revisions
<1>4. CASE Open = {} /\ DowngradeInitial
  <2>1. SchemaInv'
    BY <1>1, <1>4 DEF DowngradeInitial, KeepHistory, SchemaInv, Versioned, Origin,
       NoDanglingReference, Ids, rbacTables
  <2>2. \A b \in Runs : newUser[b] = NoUser
    BY <1>4 DEF IInv, Local, Open, Ended
  <2> QED
    BY <1>1, <1>4, <2>1, <2>2, TablesMove DEF DowngradeInitial, TypeOK, Revisions, rbacTables
<1> QED
  BY <1>2, <1>3, <1>4 DEF Migrate

LEMMA DeleteOrgKeeps ==
    ASSUME IInv, KeepHistory, NEW o \in Orgs, DeleteOrg(o),
           \A b \in Runs : newUser[b] # NoUser => org[b] # o
    PROVE  IInv'
<1> USE DEF DeleteOrg
<1>1. TypeOK /\ SchemaInv
  BY DEF IInv
<1> DEFINE null(a) == IF a.target = o THEN [a EXCEPT !.target = NoOrg] ELSE a
<1>2. audit_log' = {null(a) : a \in audit_log}
  BY DEF TargetGone
<1>3. \A a \in audit_log : /\ null(a) \in AuditLog /\ null(a).user = a.user
                           /\ null(a).target \in {a.target, NoOrg} \ {o}
  BY <1>1, NullAssumption DEF TypeOK, AuditLog
<1>4. audit_log' \subseteq AuditLog
  BY <1>2, <1>3
<1>5. \A a \in audit_log' : /\ a.user \in Ids(users) \cup {NoUser}
                            /\ a.target \in (Ids(orgs) \cup {NoOrg}) \ {o}
  BY <1>1, <1>2, <1>3 DEF SchemaInv, NoDanglingReference
<1>6. Ids(orgs') = Ids(orgs) \ {o}
  BY DEF Ids
<1>7. SchemaInv'
  <2>1. NoDanglingReference'
    BY <1>1, <1>5, <1>6, NullAssumption DEF SchemaInv, NoDanglingReference, OrgIsReferenced, Ids
  <2> QED
    BY <1>1, <1>2, <2>1 DEF SchemaInv, Versioned, Origin, KeepHistory
<1>8. \A b \in Runs : newUser[b] # NoUser /\ org[b] \in Ids(orgs) => org[b] \in Ids(orgs')
  BY <1>6
<1>9. Open # {} => version' = Head
  BY DEF IInv, Local, Open
<1> QED
  BY <1>1, <1>4, <1>7, <1>8, <1>9, TablesMove DEF TypeOK

LEMMA DeleteUserKeeps ==
    ASSUME IInv, KeepHistory, NEW u \in Users, DeleteUser(u)
    PROVE  IInv'
<1> USE DEF DeleteUser, droneTables
<1>1. TypeOK /\ SchemaInv
  BY DEF IInv
<1> DEFINE null(a) == IF a.user = u THEN [a EXCEPT !.user = NoUser] ELSE a
           keep(g) == IF g.revoked_by = u THEN [g EXCEPT !.revoked_by = NoUser] ELSE g
           Others == {h \in user_roles : h.user # u}
<1>2. audit_log' = {null(a) : a \in audit_log} /\ user_roles' = {keep(g) : g \in Others}
  BY DEF ActorGone, GrantsWithout
<1>3. \A a \in audit_log : /\ null(a) \in AuditLog /\ null(a).target = a.target
                           /\ null(a).user \in {a.user, NoUser} \ {u}
  BY <1>1, NullAssumption DEF TypeOK, AuditLog
<1>4. \A g \in Others : /\ keep(g) \in UserRole
                        /\ keep(g).user = g.user /\ keep(g).org = g.org /\ keep(g).role = g.role
                        /\ keep(g).revoked_by \in {g.revoked_by, NoUser} \ {u}
  BY <1>1, NullAssumption DEF TypeOK, UserRole
<1>5. audit_log' \subseteq AuditLog /\ user_roles' \subseteq UserRole
  BY <1>2, <1>3, <1>4
<1>6. Ids(users') = Ids(users) \ {u} /\ Ids(orgs') = Ids(orgs) /\ Ids(drones') = Ids(drones)
  BY DEF Ids
<1>7. \A a \in audit_log' : a.user \in Ids(users') \cup {NoUser} /\ a.target \in Ids(orgs) \cup {NoOrg}
  BY <1>1, <1>2, <1>3, <1>6 DEF SchemaInv, NoDanglingReference
<1>8. \A g \in user_roles' : /\ g.user \in Ids(users')
                             /\ g.org \in Ids(orgs)
                             /\ g.role \in roles
                             /\ g.revoked_by \in Ids(users') \cup {NoUser}
  BY <1>1, <1>2, <1>4, <1>6 DEF SchemaInv, NoDanglingReference
<1>9. NoDanglingReference'
  <2>1. \A s \in sessions' : s.user \in Ids(users')
    BY <1>1, <1>6 DEF SchemaInv, NoDanglingReference
  <2> QED
    BY <1>1, <1>6, <1>7, <1>8, <2>1 DEF SchemaInv, NoDanglingReference
<1>10. SchemaInv'
  <2>1. version # Head => user_roles' = {} /\ audit_log' = {}
    BY <1>1, <1>2 DEF SchemaInv, Versioned
  <2> QED
    BY <1>1, <1>9, <2>1 DEF SchemaInv, Versioned, Origin, KeepHistory
<1>11. Open # {} => version' = Head
  BY DEF IInv, Local, Open
<1> QED
  BY <1>1, <1>5, <1>6, <1>10, <1>11, TablesMove DEF TypeOK

LEMMA OtherTablesKeep ==
    ASSUME IInv, KeepHistory,
           \/ \E d \in Drones : DeleteDrone(d)
           \/ \E o \in Orgs, parent \in Orgs \cup {NoOrg} : AddOrg(o, parent)
           \/ \E d \in Drones, k \in Keys, o \in Orgs : AddDrone(d, k, o)
           \/ \E u \in Users, t \in Tokens, a \in Entries, o \in Orgs : LogIn(u, t, a, o)
           \/ \E g \in user_roles, by \in Users : RevokeGrant(g, by)
    PROVE  IInv'
<1> USE DEF Head
<1>1. TypeOK /\ SchemaInv
  BY DEF IInv
<1>2. Open # {} => version = Head
  BY DEF IInv, Local, Open
<1>3. ASSUME NEW d \in Drones, DeleteDrone(d)
      PROVE  IInv'
  <2> USE <1>3 DEF DeleteDrone, rbacTables
  <2>1. SchemaInv'
    BY <1>1 DEF SchemaInv, Versioned, Origin, NoDanglingReference, Ids, KeepHistory
  <2> QED
    BY <1>1, <1>2, <2>1, TablesMove DEF TypeOK
<1>4. ASSUME NEW o \in Orgs, NEW parent \in Orgs \cup {NoOrg}, AddOrg(o, parent)
      PROVE  IInv'
  <2> USE <1>4 DEF AddOrg, rbacTables
  <2> DEFINE row == [id |-> o, slug |-> "customer", parent |-> parent]
  <2>1. Ids(orgs') = Ids(orgs) \cup {o} /\ orgs' = orgs \cup {row} /\ row.parent = parent
    <3>1. orgs' = orgs \cup {row} /\ row.id = o /\ row.parent = parent
      OBVIOUS
    <3> HIDE DEF row
    <3>2. Ids(orgs') = Ids(orgs) \cup {o}
      BY <3>1, IdsAdd
    <3> QED
      BY <3>1, <3>2
  <2>2. row \in OrgRow
    BY DEF OrgRow, Slugs
  <2>3. NoDanglingReference'
    <3> HIDE DEF row
    <3>1. /\ \A r \in orgs' : r.parent \in Ids(orgs') \cup {NoOrg}
          /\ \A d \in drones' : d.org \in Ids(orgs')
      BY <1>1, <2>1 DEF SchemaInv, NoDanglingReference
    <3>2. \A k \in drone_api_keys' : k.drone \in Ids(drones')
      BY <1>1 DEF SchemaInv, NoDanglingReference
    <3> QED
      BY <1>1, <2>1, <3>1, <3>2 DEF SchemaInv, NoDanglingReference
  <2>4. SchemaInv'
    BY <1>1, <2>3 DEF SchemaInv, Versioned, Origin, KeepHistory
  <2> QED
    BY <1>1, <1>2, <2>1, <2>2, <2>4, TablesMove DEF TypeOK
<1>5. ASSUME NEW d \in Drones, NEW k \in Keys, NEW o \in Orgs, AddDrone(d, k, o)
      PROVE  IInv'
  <2> USE <1>5 DEF AddDrone, rbacTables
  <2> DEFINE row == [id |-> d, org |-> o]
             key == [id |-> k, drone |-> d]
  <2>1. /\ drones' = drones \cup {row} /\ row.id = d /\ row.org = o
        /\ drone_api_keys' = drone_api_keys \cup {key} /\ key.drone = d
    OBVIOUS
  <2>2. NoDanglingReference'
    <3> HIDE DEF row, key
    <3>1. Ids(drones') = Ids(drones) \cup {d}
      BY <2>1, IdsAdd
    <3>2. \A x \in drone_api_keys' : x.drone \in Ids(drones')
      BY <1>1, <2>1, <3>1 DEF SchemaInv, NoDanglingReference
    <3>3. \A x \in drones' : x.org \in Ids(orgs)
      BY <1>1, <2>1 DEF SchemaInv, NoDanglingReference
    <3> QED
      BY <1>1, <3>2, <3>3 DEF SchemaInv, NoDanglingReference
  <2>3. SchemaInv'
    BY <1>1, <2>2 DEF SchemaInv, Versioned, Origin, KeepHistory
  <2> QED
    BY <1>1, <1>2, <2>3, TablesMove DEF TypeOK, Drone, DroneApiKey
<1>6. ASSUME NEW u \in Users, NEW t \in Tokens, NEW a \in Entries, NEW o \in Orgs, LogIn(u, t, a, o)
      PROVE  IInv'
  <2> USE <1>6 DEF LogIn, droneTables
  <2>1. NoDanglingReference'
    BY <1>1 DEF SchemaInv, NoDanglingReference, Ids
  <2>2. users # {}
    BY DEF Ids
  <2>3. SchemaInv'
    BY <1>1, <2>1, <2>2 DEF SchemaInv, Versioned, Origin, KeepHistory
  <2> QED
    BY <1>1, <1>2, <2>3, TablesMove DEF TypeOK, Session, AuditLog
<1>7. ASSUME NEW g \in user_roles, NEW by \in Users, RevokeGrant(g, by)
      PROVE  IInv'
  <2> USE <1>7 DEF RevokeGrant, droneTables
  <2> DEFINE new == [g EXCEPT !.revoked = TRUE, !.revoked_by = by]
  <2>1. /\ new \in UserRole
        /\ new.user = g.user /\ new.org = g.org /\ new.role = g.role /\ new.revoked_by = by
    BY <1>1 DEF TypeOK, UserRole
  <2>2. user_roles' = (user_roles \ {g}) \cup {new}
    OBVIOUS
  <2> HIDE DEF new
  <2>3. NoDanglingReference'
    BY <1>1, <2>1, <2>2 DEF SchemaInv, NoDanglingReference, Ids
  <2>4. SchemaInv'
    BY <1>1, <2>3 DEF SchemaInv, Versioned, Origin, KeepHistory
  <2> QED
    BY <1>1, <1>2, <2>1, <2>2, <2>4, TablesMove DEF TypeOK
<1> QED
  BY <1>3, <1>4, <1>5, <1>6, <1>7

LEMMA OperateKeeps ==
    ASSUME IInv, Operate
    PROVE  IInv'
BY DeleteOrgKeeps, DeleteUserKeeps, OtherTablesKeep DEF Operate

\* Every step preserves the invariant.
THEOREM NextKeeps == IInv /\ [Next]_vars => IInv'
<1>1. ASSUME IInv, UNCHANGED vars
      PROVE  IInv'
  <2>1. SchemaInv'
    BY <1>1, QuietRun DEF IInv, vars, runVars
  <2> QED
    BY <1>1, <2>1 DEF vars, runVars, schemaVars, rbacTables, droneTables, IInv, TypeOK, Local,
       Holds, ActiveAdmins, Ids
<1> QED
  BY <1>1, SelectAdminRoleKeeps, SelectGrantKeeps, GetOrgKeeps, InsertOrgKeeps, SelectUserKeeps,
     InsertUserKeeps, CommitKeeps, ErrorKeeps, MigrateKeeps, OperateKeeps DEF Next, Step

THEOREM Invariance == Spec => []IInv
BY InitIInv, NextKeeps, PTL DEF Spec

-----------------------------------------------------------------------------
(* The theorems.                                                           *)

THEOREM TypeCorrect == Spec => []TypeOK
BY Invariance, PTL DEF IInv

\* No order of deletions, migrations and bootstraps leaves a dangling reference.
THEOREM ReferencesHold == Spec => []NoDanglingReference
BY Invariance, PTL DEF IInv, SchemaInv

\* A run that finds an active admin does nothing.
THEOREM NoOp == Spec => []NoOpWhenStaffed
<1>1. IInv => NoOpWhenStaffed
  BY DEF IInv, TypeOK, Local, NoOpWhenStaffed, Ended
<1> QED
  BY Invariance, <1>1, PTL

\* Open runs never all wait for one another.
THEOREM NoCircle == Spec => []SomeRunProceeds
<1>1. ASSUME IInv, Open # {}
      PROVE  \E b \in Open : ~Waits(b)
  <2>1. \A b \in Runs : pc[b] = "commit" => b \in Open /\ ~Waits(b)
    BY DEF Open, Ended, Waits
  <2>2. ASSUME NEW b \in Open, pc[b] = "insert_user", Waits(b)
        PROVE  \E c \in Runs : pc[c] = "commit"
    BY <1>1, <2>2 DEF Waits, EmailPending, IInv, Local
  <2>3. ASSUME NEW b \in Open, pc[b] = "insert_org", Waits(b)
        PROVE  \E c \in Open : ~Waits(c)
    <3>1. PICK c \in newOrg : TRUE
      BY <2>3 DEF Waits, OrgPending
    <3>2. c \in Runs /\ pc[c] \in {"user", "insert_user", "commit"}
      BY <1>1 DEF IInv, TypeOK, Local
    <3>3. c \in Open
      BY <3>2 DEF Open, Ended
    <3> QED
      BY <2>1, <2>2, <3>2, <3>3 DEF Waits
  <2> QED
    BY <1>1, <2>1, <2>2, <2>3 DEF Waits
<1>2. IInv => SomeRunProceeds
  BY <1>1 DEF SomeRunProceeds
<1> QED
  BY Invariance, <1>2, PTL

\* Only a step of the run itself ends it.
LEMMA RunEndsItself ==
    ASSUME IInv, [Next]_vars, NEW b \in Runs, pc[b] \notin Ended, pc'[b] \in Ended
    PROVE  Step(b) \/ Error(b)
<1>1. pc' # pc
  OBVIOUS
<1>2. PICK c \in Runs : SelectAdminRole(c) \/ Step(c) \/ Error(c)
  BY <1>1 DEF Next, vars, runVars, Migrate, Operate, KeepHistory
<1>3. c = b
  BY <1>2 DEF IInv, TypeOK, SelectAdminRole, Step, SelectGrant, GetOrg, InsertOrg, SelectUser,
     InsertUser, Commit, Error, Fail, Continue, Go
<1> QED
  BY <1>2, <1>3 DEF SelectAdminRole

\* A run that ends has left both grants of its user, or nothing.
LEMMA EndsWhole ==
    ASSUME IInv, NEW b \in Runs, Step(b) \/ Error(b), pc'[b] \in Ended
    PROVE  \/ /\ pc[b] = "commit" /\ pc'[b] \in {"True", "failed"}
              /\ \E u \in users' \ users :
                   /\ u.email = email[b] /\ u.org = org[b] /\ u.org \in Ids(orgs')
                   /\ \A role \in {"admin", "developer"} : \E g \in user_roles' :
                         g.user = u.id /\ g.org = org[b] /\ g.role = role /\ ~g.revoked
           \/ pc'[b] # "True" /\ UNCHANGED schemaVars
<1> USE DEF Fail, Continue, Go
<1>0. pc \in [Runs -> States]
  BY DEF IInv, TypeOK
<1>1. CASE ~Commit(b)
  BY <1>0, <1>1 DEF Step, SelectGrant, GetOrg, InsertOrg, SelectUser, InsertUser, Error, Ended
<1>2. CASE Commit(b) /\ UNCHANGED schemaVars /\ pc'[b] # "True"
  BY <1>2
<1>3. CASE Commit(b) /\ ~(UNCHANGED schemaVars /\ pc'[b] # "True")
  <2>1. /\ pc[b] = "commit" /\ pc'[b] \in {"True", "failed"}
        /\ orgs' = orgs \cup SpecterOrg(b)
        /\ users' = users \cup {[id |-> newUser[b], email |-> email[b], org |-> org[b]]}
        /\ user_roles' = user_roles \cup Granted(b)
    BY <1>0, <1>3 DEF Commit, GrantedAtCommit
  <2>2. Holds(b)
    BY <2>1 DEF IInv, Local
  <2> DEFINE row == [id |-> newUser[b], email |-> email[b], org |-> org[b]]
  <2>3. row.id = newUser[b] /\ row.email = email[b] /\ row.org = org[b] /\ row \in users'
    BY <2>1
  <2>4. row \notin users
    BY <2>2, <2>3 DEF Holds, Ids
  <2>5. org[b] \in Ids(orgs')
    BY <2>1, <2>2, CommitRows DEF Holds
  <2>6. ASSUME NEW role \in {"admin", "developer"}
        PROVE  \E g \in user_roles' :
                  g.user = newUser[b] /\ g.org = org[b] /\ g.role = role /\ ~g.revoked
    <3> DEFINE grant == [user |-> newUser[b], org |-> org[b], role |-> role,
                         revoked |-> FALSE, revoked_by |-> NoUser]
    <3>1. grant \in user_roles'
      BY <2>1 DEF Granted
    <3>2. grant.user = newUser[b] /\ grant.org = org[b] /\ grant.role = role /\ ~grant.revoked
      OBVIOUS
    <3> HIDE DEF grant
    <3> QED
      BY <3>1, <3>2
  <2> HIDE DEF row
  <2> QED
    BY <2>1, <2>3, <2>4, <2>5, <2>6
<1> QED
  BY <1>1, <1>2, <1>3

THEOREM BootstrapAtomic == Spec => AllOrNothing
<1>1. IInv /\ [Next]_vars =>
        [\A b \in Runs : pc'[b] \in Ended /\ pc[b] \notin Ended =>
          \/ /\ pc[b] = "commit" /\ pc'[b] \in {"True", "failed"}
             /\ \E u \in users' \ users :
                  /\ u.email = email[b] /\ u.org = org[b] /\ u.org \in Ids(orgs')
                  /\ \A role \in {"admin", "developer"} : \E g \in user_roles' :
                        g.user = u.id /\ g.org = org[b] /\ g.role = role /\ ~g.revoked
          \/ pc'[b] # "True" /\ UNCHANGED schemaVars]_vars
  BY RunEndsItself, EndsWhole
<1> QED
  BY Invariance, <1>1, PTL DEF Spec, AllOrNothing

\* With one configuration for all deploys the org has no admin when one commits.
THEOREM OneAdministrator == Spec => OneBootstrap
<1>1. ASSUME IInv, NEW b \in Runs, pc[b] = "commit", \A c \in Runs : email[c] = email[b]
      PROVE  ActiveAdmins(org[b]) = {}
  <2>1. users = {}
    BY <1>1 DEF IInv, SchemaInv, Origin, Local, Holds
  <2>2. user_roles = {}
    BY <1>1, <2>1 DEF IInv, SchemaInv, NoDanglingReference, Ids
  <2> QED
    BY <2>2 DEF ActiveAdmins
<1>2. IInv /\ [Next]_vars =>
        [\A b \in Runs : pc[b] = "commit" /\ newUser[b] \in Ids(users')
                             /\ (\A c \in Runs : email[c] = email[b])
          => ActiveAdmins(org[b]) = {}]_vars
  BY <1>1
<1> QED
  BY Invariance, <1>2, PTL DEF Spec, OneBootstrap

\* Rows of audit_log outlive the users and orgs they name.
THEOREM AuditOutlives == Spec => AuditKept
<1>1. ASSUME TypeOK, [Next]_vars, version' = Head, NEW a \in audit_log
      PROVE  \E b \in audit_log' : /\ b.id = a.id /\ b.decision = a.decision
                                   /\ b.user \in {a.user, NoUser}
                                   /\ b.target \in {a.target, NoOrg}
  <2>0. a \in AuditLog
    BY <1>1 DEF TypeOK
  <2>1. ASSUME NEW o \in Orgs, DeleteOrg(o)
        PROVE  \E b \in audit_log' : /\ b.id = a.id /\ b.decision = a.decision
                                     /\ b.user \in {a.user, NoUser}
                                     /\ b.target \in {a.target, NoOrg}
    <3> DEFINE null == IF a.target = o THEN [a EXCEPT !.target = NoOrg] ELSE a
    <3>1. null \in audit_log'
      BY <2>1 DEF DeleteOrg, TargetGone
    <3>2. /\ null.id = a.id /\ null.decision = a.decision
          /\ null.user = a.user /\ null.target \in {a.target, NoOrg}
      BY <2>0 DEF AuditLog
    <3> HIDE DEF null
    <3> QED
      BY <3>1, <3>2
  <2>2. ASSUME NEW u \in Users, DeleteUser(u)
        PROVE  \E b \in audit_log' : /\ b.id = a.id /\ b.decision = a.decision
                                     /\ b.user \in {a.user, NoUser}
                                     /\ b.target \in {a.target, NoOrg}
    <3> DEFINE null == IF a.user = u THEN [a EXCEPT !.user = NoUser] ELSE a
    <3>1. null \in audit_log'
      BY <2>2 DEF DeleteUser, ActorGone
    <3>2. /\ null.id = a.id /\ null.decision = a.decision
          /\ null.user \in {a.user, NoUser} /\ null.target = a.target
      BY <2>0 DEF AuditLog
    <3> HIDE DEF null
    <3> QED
      BY <3>1, <3>2
  <2>3. a \in audit_log' \/ (\E o \in Orgs : DeleteOrg(o)) \/ (\E u \in Users : DeleteUser(u))
    <3>1. CASE UNCHANGED vars
      BY <3>1 DEF vars, schemaVars, rbacTables
    <3>2. CASE \E b \in Runs : SelectAdminRole(b) \/ Step(b) \/ Error(b)
      BY <3>2 DEF SelectAdminRole, Step, SelectGrant, GetOrg, InsertOrg, SelectUser, InsertUser,
         Commit, Error, schemaVars, rbacTables
    <3>3. CASE Migrate
      BY <1>1, <3>3 DEF Migrate, UpgradeToHead, DowngradeRbac, DowngradeInitial, rbacTables, Head
    <3>4. CASE Operate
      BY <3>4 DEF Operate, DeleteDrone, AddOrg, AddDrone, LogIn, RevokeGrant, rbacTables
    <3> QED
      BY <1>1, <3>1, <3>2, <3>3, <3>4 DEF Next
  <2> QED
    BY <2>1, <2>2, <2>3
<1>2. TypeOK /\ [Next]_vars =>
        [version' = "c4a72f3b8d91" =>
          \A a \in audit_log : \E b \in audit_log' :
              /\ b.id = a.id /\ b.decision = a.decision
              /\ b.user \in {a.user, NoUser} /\ b.target \in {a.target, NoOrg}]_schemaVars
  BY <1>1 DEF Head
<1> QED
  BY TypeCorrect, <1>2, PTL DEF Spec, AuditKept
-----------------------------------------------------------------------------
(* Refinement: Bootstrap implements AtomicBootstrap.  What is new is that  *)
(* an uncommitted org is the only one, and neither it nor its slug is      *)
(* committed by anybody else.                                              *)

OrgHeld ==
    \A b \in newOrg : /\ newOrg = {b}
                      /\ org[b] \notin Ids(orgs)
                      /\ \A o \in orgs : o.slug # "specter"

\* A change of the tables that leaves no new key of an org.
LEMMA OrgKept ==
    ASSUME OrgHeld, newOrg' \subseteq newOrg, UNCHANGED org,
           \A o \in orgs' : \A b \in newOrg :
              \/ \E old \in orgs : o.id = old.id /\ o.slug = old.slug
              \/ o.id # org[b] /\ o.slug # "specter"
    PROVE  OrgHeld'
BY DEF OrgHeld, Ids

LEMMA NextKeepsOrgHeld ==
    ASSUME IInv, OrgHeld, [Next]_vars
    PROVE  OrgHeld'
<1>1. ASSUME newOrg' \subseteq newOrg, UNCHANGED <<org, orgs>>
      PROVE  OrgHeld'
  BY <1>1, OrgKept
<1>2. ASSUME NEW b \in Runs, SelectAdminRole(b) \/ SelectGrant(b) \/ GetOrg(b) \/ SelectUser(b)
                                \/ (\E u \in Users : InsertUser(b, u)) \/ Error(b)
      PROVE  OrgHeld'
  BY <1>1, <1>2 DEF SelectAdminRole, SelectGrant, GetOrg, SelectUser, InsertUser, Error, Fail,
     Continue, EndTransaction, schemaVars, droneTables
<1>3. ASSUME NEW b \in Runs, InsertOrg(b)
      PROVE  OrgHeld'
  <2>1. CASE Fail(b, "failed")
    BY <1>1, <1>3, <2>1 DEF InsertOrg, Fail, EndTransaction, schemaVars, droneTables
  <2>2. CASE ~Fail(b, "failed")
    BY <1>3, <2>2 DEF InsertOrg, OrgPending, OrgHeld, Ids, schemaVars, droneTables
  <2> QED
    BY <2>1, <2>2
<1>4. ASSUME NEW b \in Runs, Commit(b)
      PROVE  OrgHeld'
  <2>1. newOrg' = newOrg \ {b} /\ UNCHANGED org
    BY <1>4 DEF Commit, Fail, EndTransaction
  <2>2. CASE b \in newOrg
    BY <2>1, <2>2 DEF OrgHeld
  <2>3. CASE b \notin newOrg
    BY <1>1, <1>4, <2>1, <2>3 DEF Commit, SpecterOrg, schemaVars, droneTables
  <2> QED
    BY <2>2, <2>3
<1>5. CASE Migrate
  <2>1. CASE UpgradeToHead
    BY <1>1, <1>5, <2>1 DEF Migrate, UpgradeToHead, KeepHistory, droneTables
  <2>2. CASE Open = {}
    <3>1. newOrg = {}
      BY <2>2 DEF IInv, TypeOK, Local, Open, Ended
    <3> QED
      BY <1>5, <3>1 DEF Migrate, KeepHistory, OrgHeld
  <2> QED
    BY <1>5, <2>1, <2>2 DEF Migrate
<1>6. CASE Operate
  <2>1. newOrg' = newOrg /\ UNCHANGED org
    BY <1>6 DEF Operate, KeepHistory
  <2>2. ASSUME NEW o \in Orgs, DeleteOrg(o)
        PROVE  OrgHeld'
    BY <2>1, <2>2, OrgKept DEF DeleteOrg
  <2>3. ASSUME NEW o \in Orgs, NEW parent \in Orgs \cup {NoOrg}, AddOrg(o, parent),
               \A b \in newOrg : org[b] # o
        PROVE  OrgHeld'
    BY <2>1, <2>3, OrgKept DEF AddOrg
  <2>4. CASE UNCHANGED orgs
    BY <1>1, <2>1, <2>4
  <2> QED
    BY <1>6, <2>2, <2>3, <2>4 DEF Operate, DeleteUser, DeleteDrone, AddDrone, LogIn, RevokeGrant,
       droneTables
<1>7. CASE UNCHANGED vars
  BY <1>1, <1>7 DEF vars, runVars, schemaVars, droneTables
<1> QED
  BY <1>2, <1>3, <1>4, <1>5, <1>6, <1>7 DEF Next, Step

LEMMA OutcomeMoves ==
    ASSUME IInv, NEW b \in Runs, NEW place, pc' = [pc EXCEPT ![b] = place]
    PROVE  Outcome' = [Outcome EXCEPT ![b] = IF place \in Ended THEN place ELSE "running"]
BY DEF IInv, TypeOK, Outcome, Ended

LEMMA SameTables ==
    ASSUME UNCHANGED schemaVars
    PROVE  UNCHANGED <<OrgKeys, users, ActiveGrants>>
BY DEF schemaVars, rbacTables, droneTables, OrgKeys, ActiveGrants

\* A statement in the middle of a run changes nothing.
LEMMA MiddleRefines ==
    ASSUME IInv, NEW b \in Runs, pc[b] \notin Ended, NEW place, place \notin Ended, Go(b, place),
           UNCHANGED <<schemaVars, org, email>>
    PROVE  UNCHANGED Atomic!vars
<1>1. Outcome' = Outcome
  BY OutcomeMoves DEF Go, IInv, TypeOK, Outcome, Ended
<1> QED
  BY <1>1, SameTables DEF Atomic!vars

LEMMA EndRefines ==
    ASSUME IInv, NEW b \in Runs, NEW how \in {"False", "ValueError", "failed"}, Go(b, how),
           UNCHANGED <<schemaVars, org, email>>,
           how = "False" => pc[b] \notin Ended /\ HasAdmin(b),
           how = "ValueError" => pc[b] \notin Ended /\ \E u \in users : u.email = email[b]
    PROVE  Atomic!Refuse(b, how)
<1>1. Outcome' = [Outcome EXCEPT ![b] = how]
  BY OutcomeMoves DEF Go, Ended
<1>2. pc[b] \notin Ended => Outcome[b] = "running"
  BY DEF Outcome
<1>3. HasAdmin(b) => \E g \in ActiveGrants : g.org = org[b] /\ g.role = "admin"
  <2> DEFINE key(g) == [user |-> g.user, org |-> g.org, role |-> g.role]
  <2>1. \A g : key(g).org = g.org /\ key(g).role = g.role
    OBVIOUS
  <2>2. ActiveGrants = {key(g) : g \in {h \in user_roles : ~h.revoked}}
    BY DEF ActiveGrants
  <2> HIDE DEF key
  <2> QED
    BY <2>1, <2>2 DEF HasAdmin, ActiveAdmins
<1> QED
  BY <1>1, <1>2, <1>3, SameTables DEF Atomic!Refuse, Atomic!EmailTaken

\* The keys and the grants of a larger table.
LEMMA CommitRefines ==
    ASSUME IInv, OrgHeld, NEW b \in Runs, Commit(b)
    PROVE  Atomic!Next
<1>1. pc[b] = "commit" /\ Holds(b) /\ roles = SeededRoles
  BY DEF Commit, IInv, Local, SchemaInv, Versioned, Ended
<1>2. PICK answer \in {"True", "failed"} :
      /\ Go(b, answer)
      /\ orgs' = orgs \cup SpecterOrg(b)
      /\ users' = users \cup {[id |-> newUser[b], email |-> email[b], org |-> org[b]]}
      /\ user_roles' = user_roles \cup Granted(b)
      /\ UNCHANGED <<org, email>>
  BY <1>1 DEF Commit, Fail, GrantedAtCommit, SeededRoles
<1>3. Outcome' = [Outcome EXCEPT ![b] = answer] /\ Outcome[b] = "running"
  <2>1. Outcome[b] = "running"
    BY <1>1 DEF Outcome, Ended
  <2> QED
    BY <1>2, <2>1, OutcomeMoves DEF Go, Ended
<1>4. ActiveGrants' = ActiveGrants \cup
        {[user |-> newUser[b], org |-> org[b], role |-> role] : role \in {"admin", "developer"}}
  <2> DEFINE key(g) == [user |-> g.user, org |-> g.org, role |-> g.role]
             grant(role) == [user |-> newUser[b], org |-> org[b], role |-> role,
                             revoked |-> FALSE, revoked_by |-> NoUser]
             new(role) == [user |-> newUser[b], org |-> org[b], role |-> role]
  <2>1. \A role : key(grant(role)) = new(role) /\ ~grant(role).revoked
    OBVIOUS
  <2>2. Granted(b) = {grant(role) : role \in {"admin", "developer"}}
    BY DEF Granted
  <2>3. ActiveGrants = {key(g) : g \in {h \in user_roles : ~h.revoked}}
        /\ ActiveGrants' = {key(g) : g \in {h \in user_roles' : ~h.revoked}}
    BY DEF ActiveGrants
  <2> HIDE DEF key, grant, new
  <2>4. ActiveGrants' = ActiveGrants \cup {new(role) : role \in {"admin", "developer"}}
    BY <1>2, <2>1, <2>2, <2>3
  <2> QED
    BY <2>4 DEF new
<1>5. OrgKeys' = OrgKeys \cup
        (IF b \in newOrg THEN {[id |-> org[b], slug |-> "specter"]} ELSE {})
  <2> DEFINE key(o) == [id |-> o.id, slug |-> o.slug]
             row == [id |-> org[b], slug |-> "specter", parent |-> NoOrg]
  <2>1. key(row) = [id |-> org[b], slug |-> "specter"]
    OBVIOUS
  <2>2. SpecterOrg(b) = IF b \in newOrg THEN {row} ELSE {}
    BY DEF SpecterOrg
  <2>3. OrgKeys = {key(o) : o \in orgs} /\ OrgKeys' = {key(o) : o \in orgs'}
    BY DEF OrgKeys
  <2> HIDE DEF key, row
  <2>4. OrgKeys' = OrgKeys \cup (IF b \in newOrg THEN {key(row)} ELSE {})
    BY <1>2, <2>2, <2>3
  <2> QED
    BY <2>1, <2>4
<1>6. Atomic!OrgThere(b) <=> org[b] \in Ids(orgs)
  <2> DEFINE key(o) == [id |-> o.id, slug |-> o.slug]
  <2>1. \A o : key(o).id = o.id
    OBVIOUS
  <2>2. OrgKeys = {key(o) : o \in orgs}
    BY DEF OrgKeys
  <2> HIDE DEF key
  <2> QED
    BY <2>1, <2>2 DEF Atomic!OrgThere, Ids
<1>7. b \in newOrg => ~Atomic!OrgThere(b) /\ \A o \in OrgKeys : o.slug # "specter"
  BY <1>6 DEF OrgHeld, OrgKeys
<1>8. b \notin newOrg => Atomic!OrgThere(b)
  BY <1>1, <1>6 DEF Holds
<1>9. /\ newUser[b] \in Users
      /\ \A other \in users : other.id # newUser[b]
      /\ ~Atomic!EmailTaken(b)
  BY <1>1 DEF Holds, Ids, Atomic!EmailTaken
<1> QED
  <2>1. Atomic!Perform(b, newUser[b], answer)
    BY <1>2, <1>3, <1>4, <1>5, <1>7, <1>8, <1>9 DEF Atomic!Perform, Atomic!Roles
  <2> QED
    BY <1>9, <2>1 DEF Atomic!Next

\* Whatever else happens to the tables brings no user, no active grant and no
\* org with the slug of the bootstrap.
LEMMA AroundRefines ==
    ASSUME IInv, Migrate \/ Operate
    PROVE  Atomic!Around
<1>1. UNCHANGED <<org, email, Outcome>>
  BY DEF Migrate, Operate, KeepHistory, Outcome
<1>2. users' \subseteq users
  BY DEF Migrate, Operate, UpgradeToHead, DowngradeRbac, DowngradeInitial, DeleteOrg, DeleteUser,
     DeleteDrone, AddOrg, AddDrone, LogIn, RevokeGrant, rbacTables
<1>3. \A o \in orgs' : \/ \E old \in orgs : o.id = old.id /\ o.slug = old.slug
                       \/ o.slug # "specter"
  <2>1. CASE DowngradeRbac
    <3>1. \A old \in orgs : /\ [old EXCEPT !.parent = NoOrg].id = old.id
                            /\ [old EXCEPT !.parent = NoOrg].slug = old.slug
      BY DEF IInv, TypeOK, OrgRow
    <3> QED
      BY <2>1, <3>1 DEF DowngradeRbac
  <2>2. ASSUME NEW o \in Orgs, NEW parent, AddOrg(o, parent)
        PROVE  \A new \in orgs' : new \in orgs \/ new.slug # "specter"
    BY <2>2 DEF AddOrg
  <2>3. orgs' \subseteq orgs \/ DowngradeRbac
           \/ \E o \in Orgs, parent \in Orgs \cup {NoOrg} : AddOrg(o, parent)
    BY DEF Migrate, Operate, UpgradeToHead, DowngradeInitial, DeleteOrg, DeleteUser, DeleteDrone,
       AddDrone, LogIn, RevokeGrant, droneTables
  <2> QED
    BY <2>1, <2>2, <2>3
<1>4. \A g \in user_roles' : ~g.revoked => \E old \in user_roles :
          ~old.revoked /\ g.user = old.user /\ g.org = old.org /\ g.role = old.role
  <2>1. ASSUME NEW u \in Users, DeleteUser(u)
        PROVE  \A g \in user_roles' : \E old \in user_roles :
                  g.revoked = old.revoked /\ g.user = old.user /\ g.org = old.org /\ g.role = old.role
    <3> DEFINE keep(g) == IF g.revoked_by = u THEN [g EXCEPT !.revoked_by = NoUser] ELSE g
    <3>1. \A g \in user_roles : /\ keep(g).revoked = g.revoked /\ keep(g).user = g.user
                                /\ keep(g).org = g.org /\ keep(g).role = g.role
      BY DEF IInv, TypeOK, UserRole
    <3>2. user_roles' = {keep(g) : g \in {h \in user_roles : h.user # u}}
      BY <2>1 DEF DeleteUser, GrantsWithout
    <3> HIDE DEF keep
    <3> QED
      BY <3>1, <3>2
  <2>2. ASSUME NEW g \in user_roles, NEW by \in Users, RevokeGrant(g, by)
        PROVE  \A new \in user_roles' : new.revoked \/ new \in user_roles
    <3>1. g \in UserRole
      BY DEF IInv, TypeOK
    <3>2. [g EXCEPT !.revoked = TRUE, !.revoked_by = by].revoked = TRUE
      BY <3>1 DEF UserRole
    <3> QED
      BY <2>2, <3>2 DEF RevokeGrant
  <2>3. user_roles' \subseteq user_roles \/ (\E u \in Users : DeleteUser(u))
           \/ \E g \in user_roles, by \in Users : RevokeGrant(g, by)
    BY DEF Migrate, Operate, UpgradeToHead, DowngradeRbac, DowngradeInitial, DeleteOrg, DeleteDrone,
       AddOrg, AddDrone, LogIn, rbacTables
  <2> QED
    BY <2>1, <2>2, <2>3
<1>5. ActiveGrants' \subseteq ActiveGrants
  <2> DEFINE key(g) == [user |-> g.user, org |-> g.org, role |-> g.role]
  <2>1. ActiveGrants = {key(g) : g \in {h \in user_roles : ~h.revoked}}
        /\ ActiveGrants' = {key(g) : g \in {h \in user_roles' : ~h.revoked}}
    BY DEF ActiveGrants
  <2>2. \A g, h : g.user = h.user /\ g.org = h.org /\ g.role = h.role => key(g) = key(h)
    OBVIOUS
  <2> HIDE DEF key
  <2> QED
    BY <1>4, <2>1, <2>2
<1>6. \A o \in OrgKeys' \ OrgKeys : o.slug # "specter"
  BY <1>3 DEF OrgKeys
<1> QED
  BY <1>1, <1>2, <1>5, <1>6 DEF Atomic!Around

LEMMA RunRefines ==
    ASSUME IInv, OrgHeld, NEW b \in Runs, SelectAdminRole(b) \/ Step(b) \/ Error(b)
    PROVE  Atomic!Next \/ UNCHANGED Atomic!vars
<1> DEFINE Refused == \E how \in {"False", "ValueError", "failed"} : Atomic!Refuse(b, how)
<1>1. CASE SelectAdminRole(b)
  <2>1. CASE Go(b, "grant")
    <3>1. Outcome' = [Outcome EXCEPT ![b] = IF "grant" \in Ended THEN "grant" ELSE "running"]
      BY <2>1, OutcomeMoves DEF Go
    <3>2. "grant" \notin Ended
      BY DEF Ended
    <3>3. Atomic!Start(b)
      BY <1>1, <3>1, <3>2, SameTables DEF SelectAdminRole, Atomic!Start
    <3> QED
      BY <3>3 DEF Atomic!Next
  <2>2. Go(b, "grant") \/ Go(b, "failed")
    BY <1>1 DEF SelectAdminRole, Continue, IInv, SchemaInv, Versioned, SeededRoles, Head
  <2>3. CASE Go(b, "failed")
    BY <1>1, <2>3, EndRefines DEF SelectAdminRole, Atomic!Next
  <2> QED
    BY <2>1, <2>2, <2>3
<1>2. CASE SelectGrant(b)
  BY <1>2, MiddleRefines, EndRefines DEF SelectGrant, Fail, Continue, Ended, Atomic!Next
<1>3. CASE GetOrg(b)
  BY <1>3, MiddleRefines DEF GetOrg, Continue, Ended
<1>4. CASE InsertOrg(b)
  BY <1>4, MiddleRefines, EndRefines DEF InsertOrg, Fail, Ended, Atomic!Next
<1>5. CASE SelectUser(b)
  BY <1>5, MiddleRefines, EndRefines DEF SelectUser, Fail, Continue, Ended, Atomic!Next
<1>6. ASSUME NEW u \in Users, InsertUser(b, u)
      PROVE  Atomic!Next \/ UNCHANGED Atomic!vars
  BY <1>6, MiddleRefines, EndRefines DEF InsertUser, Fail, Ended, Atomic!Next
<1>7. CASE Commit(b)
  BY <1>7, CommitRefines
<1>8. CASE Error(b)
  BY <1>8, EndRefines DEF Error, Fail, Atomic!Next
<1> QED
  BY <1>1, <1>2, <1>3, <1>4, <1>5, <1>6, <1>7, <1>8 DEF Step

LEMMA StepRefines ==
    ASSUME IInv, OrgHeld, [Next]_vars
    PROVE  [Atomic!Next]_Atomic!vars
<1>1. CASE Migrate \/ Operate
  BY <1>1, AroundRefines DEF Atomic!Next
<1>2. CASE UNCHANGED vars
  BY <1>2, SameTables DEF vars, runVars, Atomic!vars, Outcome
<1> QED
  BY <1>1, <1>2, RunRefines DEF Next

\* A run, whatever it overlaps with, is one step that leaves the whole
\* bootstrap or nothing.
THEOREM BootstrapRefinement == Spec => AtomicSpec
<1>1. Init => Atomic!Init /\ OrgHeld
  BY DEF Init, SchemaInit, Atomic!Init, Outcome, Ended, OrgKeys, ActiveGrants, OrgHeld
<1>2. OrgHeld /\ IInv /\ [Next]_vars => OrgHeld'
  BY NextKeepsOrgHeld
<1>3. OrgHeld /\ IInv /\ [Next]_vars => [Atomic!Next]_Atomic!vars
  BY StepRefines
<1> QED
  BY <1>1, <1>2, <1>3, Invariance, PTL DEF Spec, AtomicSpec, Atomic!Spec
=============================================================================
