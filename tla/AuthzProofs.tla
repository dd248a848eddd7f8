---------------------------- MODULE AuthzProofs ----------------------------
(***************************************************************************)
(* Proofs about Authz for every hierarchy of orgs, deep or cyclic, every   *)
(* depth of the walk, every set of users, requests and required            *)
(* permissions, and any number of grants.                                  *)
(***************************************************************************)
EXTENDS Authz, RbacProofs

-----------------------------------------------------------------------------
(* The inductive invariant.                                                *)

\* What the steps of a request have left in its state.
Local(r) ==
    /\ pc[r] = "idle" => r \notin powerless
    /\ pc[r] # "idle" => req[r] \in Request
    /\ pc[r] \in {"check", "deny", "route", "403", "200"} => target[r] \in Orgs
    /\ pc[r] \in {"deny", "403"} =>
          ~result[r].allowed /\ result[r].role = "none" /\ result[r].org = NoOrg
    /\ pc[r] \in {"route", "200"} => result[r].allowed
    /\ r \in effects => pc[r] \in {"200", "500"}

\* A target that was resolved is where the resource is, unless it moved.
Resolved ==
    \A r \in Requests : pc[r] = "check" /\ r \notin moved => target[r] = org_id[req[r].on]

\* No grant of a user of a powerless request is active.
Powerless ==
    \A r \in powerless : \A g \in Active : g.user # req[r].user

IInv ==
    /\ TypeOK
    /\ \A r \in Requests : Local(r)
    /\ Resolved
    /\ Powerless
    /\ RevocationImmediate
    /\ DenialOnRecord

\* The initial state satisfies the invariant.
THEOREM InitIInv == Init => IInv
<1> SUFFICES ASSUME Init
             PROVE  IInv
  OBVIOUS
<1>1. TypeOK
  BY DEF Init, TypeOK, Undecided, Results, States, Answers
<1>2. \A r \in Requests : Local(r)
  BY DEF Init, Local
<1> QED
  BY <1>1, <1>2 DEF Init, IInv, Resolved, Powerless, RevocationImmediate, DenialOnRecord

-----------------------------------------------------------------------------
(* One lemma per action.                                                   *)

LEMMA ArriveKeeps ==
    ASSUME IInv, NEW r \in Requests, NEW request \in Request, Arrive(r, request)
    PROVE  IInv'
<1> USE DEF IInv, Arrive, Go, tables
<1>1. TypeOK'
  BY DEF TypeOK, States, Answers
<1>2. \A q \in Requests : Local(q)'
  BY <1>1 DEF TypeOK, Local
<1>3. Resolved'
  BY DEF TypeOK, Resolved
<1>4. Powerless'
  BY DEF TypeOK, Powerless, Active, Local
<1>5. RevocationImmediate'
  BY DEF TypeOK, RevocationImmediate, Local
<1>6. DenialOnRecord'
  BY DEF TypeOK, DenialOnRecord
<1> QED
  BY <1>1, <1>2, <1>3, <1>4, <1>5, <1>6

LEMMA AuthenticateKeeps ==
    ASSUME IInv, NEW r \in Requests, Authenticate(r)
    PROVE  IInv'
<1> USE DEF IInv, Authenticate, Go, tables
<1>0. req[r] \in Request
  BY DEF Local
<1>1. TypeOK'
  BY <1>0 DEF TypeOK, States, Answers, Request
<1>2. \A q \in Requests : Local(q)'
  BY <1>0, <1>1 DEF TypeOK, Local, Request
<1>3. Resolved'
  BY DEF TypeOK, Resolved
<1>4. Powerless'
  BY DEF Powerless, Active
<1>5. RevocationImmediate'
  BY DEF TypeOK, RevocationImmediate
<1>6. DenialOnRecord'
  BY DEF TypeOK, DenialOnRecord
<1> QED
  BY <1>1, <1>2, <1>3, <1>4, <1>5, <1>6

LEMMA ResolveKeeps ==
    ASSUME IInv, NEW r \in Requests, Resolve(r)
    PROVE  IInv'
<1> USE DEF IInv, Resolve, ResolvedOrg, Go, tables
<1>0. req[r] \in Request
  BY DEF Local
<1>1. TypeOK'
  BY <1>0 DEF TypeOK, States, Answers, Request
<1>2. \A q \in Requests : Local(q)'
  BY <1>0, <1>1 DEF TypeOK, Local, Request
<1>3. Resolved'
  BY DEF TypeOK, Resolved
<1>4. Powerless'
  BY DEF Powerless, Active
<1>5. RevocationImmediate'
  BY DEF TypeOK, RevocationImmediate
<1>6. DenialOnRecord'
  BY DEF TypeOK, DenialOnRecord
<1> QED
  BY <1>1, <1>2, <1>3, <1>4, <1>5, <1>6

LEMMA CheckKeeps ==
    ASSUME IInv, NEW r \in Requests, Check(r)
    PROVE  IInv'
<1> USE DEF IInv, Go, tables
<1>0. /\ req[r] \in Request
      /\ target[r] \in Orgs
      /\ pc[r] = "check"
  BY DEF Local, Check
<1>1. PICK found \in CheckPermission(parent, Grants, req[r].user, req[r].permission, target[r]) :
        /\ result' = [result EXCEPT ![r] = found]
        /\ pc' = [pc EXCEPT ![r] = IF found.allowed THEN "route" ELSE "deny"]
  BY DEF Check
<1>2. UNCHANGED <<parent, user_roles, revoked, org_id, req, target, audit, effects, moved, powerless>>
  BY DEF Check
<1>3. /\ parent \in Parents
      /\ req[r].user \in Users
      /\ req[r].permission \in Permissions
  BY <1>0, AskedAssumption DEF TypeOK, Request
<1>4. /\ found \in Results
      /\ ~found.allowed => found.role = "none" /\ found.org = NoOrg
  BY <1>0, <1>3, ResultFacts
<1>5. found.allowed => \E g \in Active : g.user = req[r].user
  BY <1>0, <1>3, AllowedFacts DEF Grants
<1>6. TypeOK'
  BY <1>1, <1>2, <1>4 DEF TypeOK, States, Answers
<1>7. \A q \in Requests : Local(q)'
  BY <1>0, <1>1, <1>2, <1>4 DEF TypeOK, Local
<1>8. Resolved' /\ Powerless'
  BY <1>1, <1>2 DEF TypeOK, Resolved, Powerless, Active
<1>9. RevocationImmediate'
  BY <1>1, <1>2, <1>5 DEF TypeOK, RevocationImmediate, Powerless
<1>10. DenialOnRecord'
  BY <1>1, <1>2 DEF TypeOK, DenialOnRecord
<1> QED
  BY <1>6, <1>7, <1>8, <1>9, <1>10

\* The row of a decision is a row of the table.
LEMMA EntryType ==
    ASSUME TypeOK, NEW r \in Requests, req[r] \in Request, target[r] \in Orgs
    PROVE  Entry(r) \in AuditRow
BY DEF TypeOK, Request, Results, Entry, AuditRow

LEMMA DenyKeeps ==
    ASSUME IInv, NEW r \in Requests, Deny(r)
    PROVE  IInv'
<1> USE DEF IInv, Deny, RecordDenial, Go, tables
<1>0. /\ req[r] \in Request /\ target[r] \in Orgs
      /\ ~result[r].allowed /\ result[r].role = "none" /\ result[r].org = NoOrg
  BY DEF Local
<1>1. TypeOK'
  BY <1>0, EntryType DEF TypeOK, States, Answers
<1>2. \A q \in Requests : Local(q)'
  BY <1>0, <1>1 DEF TypeOK, Local
<1>3. Resolved' /\ Powerless' /\ RevocationImmediate'
  BY DEF TypeOK, Resolved, Powerless, Active, RevocationImmediate
<1>4. DenialOnRecord'
  BY <1>0 DEF TypeOK, DenialOnRecord, Entry
<1> QED
  BY <1>1, <1>2, <1>3, <1>4

LEMMA RouteKeeps ==
    ASSUME IInv, NEW r \in Requests, RouteReads(r) \/ RouteCommits(r)
    PROVE  IInv'
<1> USE DEF IInv, RouteReads, RouteCommits, Go, tables
<1>0. pc[r] = "route" /\ req[r] \in Request /\ target[r] \in Orgs /\ result[r].allowed
  BY DEF Local
<1>1. TypeOK'
  BY <1>0, EntryType DEF TypeOK, States, Answers
<1>2. \A q \in Requests : Local(q)'
  BY <1>0, <1>1 DEF TypeOK, Local
<1>3. Resolved' /\ Powerless'
  BY DEF TypeOK, Resolved, Powerless, Active
<1>4. RevocationImmediate'
  BY DEF TypeOK, RevocationImmediate
<1>5. DenialOnRecord'
  BY DEF TypeOK, DenialOnRecord
<1> QED
  BY <1>1, <1>2, <1>3, <1>4, <1>5

LEMMA ErrorKeeps ==
    ASSUME IInv, NEW r \in Requests, Error(r)
    PROVE  IInv'
<1> USE DEF IInv, Error, Go, tables
<1>1. TypeOK'
  BY DEF TypeOK, States, Answers
<1>2. \A q \in Requests : Local(q)'
  BY <1>1 DEF TypeOK, Local
<1>3. Resolved' /\ Powerless' /\ RevocationImmediate'
  BY DEF TypeOK, Resolved, Powerless, Active, RevocationImmediate
<1>4. DenialOnRecord'
  BY DEF TypeOK, DenialOnRecord
<1> QED
  BY <1>1, <1>2, <1>3, <1>4

LEMMA GrantsKeep ==
    ASSUME IInv, NEW g \in [user: Users, org: Orgs, role: Held], GrantRole(g) \/ RevokeGrant(g)
    PROVE  IInv'
<1> USE DEF IInv, GrantRole, RevokeGrant
<1>1. g \in Grant
  BY HeldAssumption DEF Grant
<1>2. TypeOK'
  BY <1>1 DEF TypeOK, Active
<1>3. \A q \in Requests : Local(q)'
  BY DEF Local
<1>4. Resolved' /\ RevocationImmediate' /\ DenialOnRecord'
  BY DEF Resolved, RevocationImmediate, DenialOnRecord
<1>5. Powerless'
  BY DEF Powerless, Active
<1> QED
  BY <1>2, <1>3, <1>4, <1>5

LEMMA MoveKeeps ==
    ASSUME IInv, NEW x \in Drones \cup Users, NEW o \in Orgs, Move(x, o)
    PROVE  IInv'
<1> USE DEF IInv, Move
<1>1. TypeOK'
  BY DEF TypeOK
<1>2. \A q \in Requests : Local(q)'
  BY DEF Local
<1>3. Resolved'
  BY DEF TypeOK, Resolved
<1> QED
  BY <1>1, <1>2, <1>3 DEF Powerless, Active, RevocationImmediate, DenialOnRecord

LEMMA ReparentKeeps ==
    ASSUME IInv, NEW o \in Orgs, NEW p \in Orgs \cup {NoOrg}, Reparent(o, p)
    PROVE  IInv'
<1> USE DEF IInv, Reparent
<1>1. TypeOK'
  BY DEF TypeOK, Parents
<1>2. \A q \in Requests : Local(q)'
  BY DEF Local
<1> QED
  BY <1>1, <1>2 DEF Resolved, Powerless, Active, RevocationImmediate, DenialOnRecord

\* Every step preserves the invariant.
THEOREM NextKeeps == IInv /\ [Next]_vars => IInv'
<1>1. ASSUME IInv, UNCHANGED vars
      PROVE  IInv'
  BY <1>1 DEF vars, tables, IInv, TypeOK, Local, Resolved, Powerless, Active,
     RevocationImmediate, DenialOnRecord
<1> QED
  BY <1>1, ArriveKeeps, AuthenticateKeeps, ResolveKeeps, CheckKeeps, DenyKeeps, RouteKeeps,
     ErrorKeeps, GrantsKeep, MoveKeeps, ReparentKeeps DEF Next

THEOREM Invariance == Spec => []IInv
BY InitIInv, NextKeeps, PTL DEF Spec

-----------------------------------------------------------------------------
(* The theorems.                                                           *)

THEOREM TypeCorrect == Spec => []TypeOK
BY Invariance, PTL DEF IInv

THEOREM RevokedAtOnce == Spec => []RevocationImmediate
BY Invariance, PTL DEF IInv

THEOREM DenialsRecorded == Spec => []DenialOnRecord
BY Invariance, PTL DEF IInv

-----------------------------------------------------------------------------
(* The decision of a request is the one of check_permission.               *)

LEMMA Decides ==
    ASSUME IInv, [Next]_vars, NEW r \in Requests, pc[r] = "check", pc'[r] \in {"route", "deny"}
    PROVE  /\ result'[r] \in CheckPermission(parent, Active, req[r].user, req[r].permission,
                                             target[r])
           /\ pc'[r] = IF result'[r].allowed THEN "route" ELSE "deny"
           /\ parent \in Parents /\ req[r] \in Request /\ target[r] \in Orgs
           /\ req[r].user \in Users /\ req[r].permission \in Permissions
<1>1. TypeOK /\ Local(r)
  BY DEF IInv
<1>2. parent \in Parents /\ req[r] \in Request /\ target[r] \in Orgs
  BY <1>1 DEF TypeOK, Local
<1>3. req[r].user \in Users /\ req[r].permission \in Permissions
  BY <1>2, AskedAssumption DEF Request
<1>4. Check(r)
  <2>1. \E q \in Requests :
           \/ \E request \in Request : Arrive(q, request)
           \/ Authenticate(q)
           \/ Resolve(q)
           \/ Check(q)
           \/ Deny(q)
           \/ RouteReads(q)
           \/ RouteCommits(q)
           \/ Error(q)
    BY DEF Next, vars, GrantRole, RevokeGrant, Move, Reparent
  <2> QED
    BY <1>1, <2>1 DEF TypeOK, Arrive, Authenticate, Resolve, Check, Deny, RouteReads,
       RouteCommits, Error, Go
<1>5. PICK found \in CheckPermission(parent, Grants, req[r].user, req[r].permission, target[r]) :
        /\ result' = [result EXCEPT ![r] = found]
        /\ pc' = [pc EXCEPT ![r] = IF found.allowed THEN "route" ELSE "deny"]
  BY <1>4 DEF Check, Go
<1>6. result'[r] = found /\ pc'[r] = IF found.allowed THEN "route" ELSE "deny"
  BY <1>1, <1>5 DEF TypeOK
<1> QED
  BY <1>2, <1>3, <1>5, <1>6 DEF Grants

\* Every request that is allowed is allowed by an active grant of a role that
\* bundles the permission, at the org of the resource or above it.
THEOREM OnlyFromAbove == Spec => AllowedFromAbove
<1>1. ASSUME IInv, [Next]_vars, NEW r \in Requests, pc[r] = "check", pc'[r] = "route"
      PROVE  LET given == [user |-> req[r].user, org |-> result'[r].org, role |-> result'[r].role]
             IN  /\ given \in Active
                 /\ req[r].permission \in ROLE_PERMISSIONS[given.role]
                 /\ given.org \in Lineage(parent, target[r])
                 /\ r \notin moved => target[r] = org_id[req[r].on]
  <2>1. result'[r] \in CheckPermission(parent, Active, req[r].user, req[r].permission, target[r])
        /\ result'[r].allowed
    BY <1>1, Decides
  <2>2. parent \in Parents /\ target[r] \in Orgs /\ req[r].user \in Users
        /\ req[r].permission \in Permissions
    BY <1>1, Decides
  <2>3. r \notin moved => target[r] = org_id[req[r].on]
    BY <1>1 DEF IInv, Resolved
  <2> QED
    BY <2>1, <2>2, <2>3, AllowedFacts
<1>2. IInv /\ [Next]_vars =>
        [\A r \in Requests : pc[r] = "check" /\ pc'[r] = "route" =>
          LET given == [user |-> req[r].user, org |-> result'[r].org, role |-> result'[r].role]
          IN  /\ given \in Active
              /\ req[r].permission \in ROLE_PERMISSIONS[given.role]
              /\ given.org \in Lineage(parent, target[r])
              /\ r \notin moved => target[r] = org_id[req[r].on]]_vars
  BY <1>1
<1> QED
  BY Invariance, <1>2, PTL DEF Spec, AllowedFromAbove

\* Every decision is the one check_permission promises: the closest entitling
\* grant, and a denial has none within the depth.
THEOREM ClosestDecides == Spec => ClosestGrantWins
<1>1. ASSUME IInv, [Next]_vars, NEW r \in Requests,
             pc[r] = "check", pc'[r] \in {"route", "deny"}
      PROVE  /\ result'[r] \in Decision(parent, Active, req[r].user, req[r].permission, target[r])
             /\ pc'[r] = IF result'[r].allowed THEN "route" ELSE "deny"
  <2>1. /\ result'[r] \in CheckPermission(parent, Active, req[r].user, req[r].permission,
                                          target[r])
        /\ pc'[r] = IF result'[r].allowed THEN "route" ELSE "deny"
        /\ parent \in Parents /\ target[r] \in Orgs
        /\ req[r].user \in Users /\ req[r].permission \in Permissions
    BY <1>1, Decides
  <2> QED
    BY <2>1, CheckIsDecision
<1>2. IInv /\ [Next]_vars =>
        [\A r \in Requests : pc[r] = "check" /\ pc'[r] \in {"route", "deny"} =>
          /\ result'[r] \in Decision(parent, Active, req[r].user, req[r].permission, target[r])
          /\ pc'[r] = IF result'[r].allowed THEN "route" ELSE "deny"]_vars
  BY <1>1
<1> QED
  BY Invariance, <1>2, PTL DEF Spec, ClosestGrantWins
=============================================================================
