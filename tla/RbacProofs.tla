---------------------------- MODULE RbacProofs ----------------------------
(***************************************************************************)
(* What check_permission decides, proved for every hierarchy of orgs --    *)
(* deep, cyclic or infinite --, every depth of the walk and every set of   *)
(* grants.                                                                 *)
(***************************************************************************)
EXTENDS Rbac, FiniteSetTheorems, TLAPS

\* A finite set of naturals with a member has a least one.
LEMMA LeastNatural ==
    ASSUME NEW T, T \subseteq Nat, T # {}
    PROVE  \E n \in T : \A m \in T : n <= m
<1> DEFINE F == {0..n : n \in T}
<1>1. F \subseteq FiniteSubsetsOf(Nat) /\ F # {}
  <2>1. \A n \in T : 0..n \in SUBSET Nat /\ IsFiniteSet(0..n)
    BY FS_Interval
  <2> QED
    BY <2>1 DEF FiniteSubsetsOf
<1>2. IsWellFoundedOn(StrictSubsetOrdering(Nat), FiniteSubsetsOf(Nat))
  BY FS_StrictSubsetOrderingWellFounded
<1>3. PICK X \in F : \A Y \in F : ~(<<Y, X>> \in StrictSubsetOrdering(Nat))
  <2> HIDE DEF F
  <2> QED
    BY <1>1, <1>2, WFMin
<1>4. PICK n \in T : X = 0..n
  BY DEF F
<1>5. ASSUME NEW m \in T
      PROVE  n <= m
  <2>1. 0..m \in F
    BY DEF F
  <2>2. ~(<<0..m, 0..n>> \in StrictSubsetOrdering(Nat))
    BY <1>3, <1>4, <2>1
  <2>3. SUFFICES ASSUME m < n
                 PROVE  FALSE
    BY <1>5
  <2>4. 0..m \subseteq 0..n /\ n \in 0..n /\ n \notin 0..m
    BY <2>3, <1>5
  <2>5. 0..m # 0..n /\ 0..m \subseteq Nat /\ 0..n \subseteq Nat
    BY <2>4, <1>5
  <2> QED
    BY <2>2, <2>4, <2>5 DEF StrictSubsetOrdering
<1> QED
  BY <1>5

\* A walk never leaves a set of orgs that is closed under parent.
LEMMA WalkStays ==
    ASSUME NEW up \in Parents, NEW t \in Orgs, NEW d \in Nat, NEW path \in [0..d -> Orgs],
           IsWalk(up, t, path, d), NEW S, t \in S, S \subseteq Orgs, ClosedUpwards(up, S)
    PROVE  path[d] \in S
<1> DEFINE Out == {i \in 0..d : path[i] \notin S}
<1>1. SUFFICES ASSUME Out # {}
               PROVE  FALSE
  BY DEF Out
<1>2. PICK n \in Out : \A m \in Out : n <= m
  <2>1. Out \subseteq Nat
    OBVIOUS
  <2> HIDE DEF Out
  <2> QED
    BY <1>1, <2>1, LeastNatural
<1>3. n # 0
  BY DEF IsWalk
<1>4. n - 1 \in 0..d /\ n \in 1..d
  BY <1>3
<1>5. path[n - 1] \in S
  BY <1>2, <1>4
<1>6. path[n] = up[path[n - 1]]
  BY <1>4 DEF IsWalk
<1>7. path[n] \in S \cup {NoOrg}
  BY <1>5, <1>6 DEF ClosedUpwards
<1>8. path[n] \in Orgs
  BY <1>4
<1> QED
  BY <1>7, <1>8, OrgAssumption

\* The recursive query yields ancestors only.
LEMMA ChainIsLineage ==
    ASSUME NEW up \in Parents, NEW t \in Orgs, NEW row \in OrgChain(up, t)
    PROVE  row.id \in Lineage(up, t)
<1>1. row \in [id: Orgs, depth: 0..MAX_HIERARCHY_DEPTH]
  BY DEF OrgChain
<1>2. PICK path \in [0..row.depth -> Orgs] :
        IsWalk(up, t, path, row.depth) /\ path[row.depth] = row.id
  BY DEF OrgChain
<1>3. row.depth \in Nat
  BY <1>1, DepthAssumption
<1>4. ASSUME NEW S \in SUBSET Orgs, t \in S, ClosedUpwards(up, S)
      PROVE  row.id \in S
  BY <1>2, <1>3, <1>4, WalkStays
<1> QED
  BY <1>1, <1>4 DEF Lineage

\* What check_permission returns: a grant that was looked up, or a denial.
LEMMA CheckFacts ==
    ASSUME NEW up \in Parents, NEW given, NEW u \in Users,
           NEW permission \in Permissions, NEW t \in Orgs,
           NEW found \in CheckPermission(up, given, u, permission, t)
    PROVE  /\ found \in Results
           /\ found.allowed =>
                \E row \in Closest(Candidates(up, given, u, RolesWithPermission(permission), t)) :
                    found = Allowed(row)
           /\ ~found.allowed =>
                /\ found.role = "none" /\ found.org = NoOrg
                /\ Candidates(up, given, u, RolesWithPermission(permission), t) = {}
<1> DEFINE eligible == RolesWithPermission(permission)
           rows == Candidates(up, given, u, eligible, t)
<1>1. rows \subseteq [role: Roles, org: Orgs, depth: 0..MAX_HIERARCHY_DEPTH]
  BY DEF Candidates
<1>2. CASE eligible = {}
  <2>1. rows = {}
    BY <1>2 DEF Candidates
  <2>2. found = Denied("permission_not_in_any_role")
    BY <1>2 DEF CheckPermission
  <2> QED
    BY <2>1, <2>2 DEF Denied, Results
<1>3. CASE eligible # {} /\ rows = {}
  <2>1. found = Denied("no_matching_role_grant")
    BY <1>3 DEF CheckPermission
  <2> QED
    BY <1>3, <2>1 DEF Denied, Results
<1>4. CASE eligible # {} /\ rows # {}
  <2>1. PICK row \in Closest(rows) : found = Allowed(row)
    <3>1. found \in {Allowed(row) : row \in Closest(rows)}
      BY <1>4 DEF CheckPermission
    <3> QED
      BY <3>1
  <2>2. row \in rows
    BY DEF Closest
  <2>3. found \in Results /\ found.allowed
    BY <1>1, <2>1, <2>2 DEF Allowed, Results
  <2> QED
    BY <2>1, <2>3
<1> QED
  BY <1>2, <1>3, <1>4

LEMMA ResultFacts ==
    ASSUME NEW up \in Parents, NEW given, NEW u \in Users,
           NEW permission \in Permissions, NEW t \in Orgs,
           NEW found \in CheckPermission(up, given, u, permission, t)
    PROVE  /\ found \in Results
           /\ ~found.allowed => found.role = "none" /\ found.org = NoOrg
BY CheckFacts

\* The grant that allows a request was looked up, entitles, and sits above.
LEMMA AllowedFacts ==
    ASSUME NEW up \in Parents, NEW given, NEW u \in Users,
           NEW permission \in Permissions, NEW t \in Orgs,
           NEW found \in CheckPermission(up, given, u, permission, t), found.allowed
    PROVE  /\ [user |-> u, org |-> found.org, role |-> found.role] \in given
           /\ permission \in ROLE_PERMISSIONS[found.role]
           /\ found.org \in Lineage(up, t)
<1>1. PICK row \in Candidates(up, given, u, RolesWithPermission(permission), t) :
        found = Allowed(row)
  BY CheckFacts DEF Closest
<1>2. /\ [id |-> row.org, depth |-> row.depth] \in OrgChain(up, t)
      /\ [user |-> u, org |-> row.org, role |-> row.role] \in given
      /\ row.role \in RolesWithPermission(permission)
  BY DEF Candidates
<1>3. row.org \in Lineage(up, t)
  BY <1>2, ChainIsLineage
<1> QED
  BY <1>1, <1>2, <1>3 DEF Allowed, RolesWithPermission

-----------------------------------------------------------------------------
(* The walk against the reference: what it reaches, and at which depth.    *)

Walk(up, t, path, d, o) == path \in [0..d -> Orgs] /\ IsWalk(up, t, path, d) /\ path[d] = o
Reached(up, t, o, d) == \E path \in [0..d -> Orgs] : Walk(up, t, path, d, o)

\* An org below the end of a walk is reached by its first part.
LEMMA WalkPrefix ==
    ASSUME NEW up \in Parents, NEW t \in Orgs, NEW d \in Nat, NEW path, NEW o,
           Walk(up, t, path, d, o), NEW i \in 0..d
    PROVE  Walk(up, t, [k \in 0..i |-> path[k]], i, path[i])
BY DEF Walk, IsWalk

\* A walk ends at an ancestor.
LEMMA WalkInLineage ==
    ASSUME NEW up \in Parents, NEW t \in Orgs, NEW d \in Nat, NEW path, NEW o,
           Walk(up, t, path, d, o)
    PROVE  o \in Lineage(up, t)
<1>1. path \in [0..d -> Orgs] /\ IsWalk(up, t, path, d) /\ path[d] = o
  BY DEF Walk
<1>2. ASSUME NEW S \in SUBSET Orgs, t \in S, ClosedUpwards(up, S)
      PROVE  o \in S
  BY <1>1, <1>2, WalkStays
<1> QED
  BY <1>1, <1>2 DEF Lineage

\* Every ancestor is the end of a walk, of which one is the shortest.
LEMMA ShortestWalk ==
    ASSUME NEW up \in Parents, NEW t \in Orgs, NEW o \in Lineage(up, t)
    PROVE  \E d \in Nat : /\ Reached(up, t, o, d)
                          /\ \A e \in Nat : Reached(up, t, o, e) => d <= e
<1> DEFINE S == {x \in Orgs : \E d \in Nat : Reached(up, t, x, d)}
<1>1. t \in S
  <2>1. Walk(up, t, [k \in 0..0 |-> t], 0, t)
    BY DEF Walk, IsWalk
  <2> QED
    BY <2>1 DEF Reached, Walk
<1>2. ASSUME NEW x \in S, up[x] # NoOrg
      PROVE  up[x] \in S
  <2>0. PICK d \in Nat : Reached(up, t, x, d)
    OBVIOUS
  <2>1. PICK path \in [0..d -> Orgs] : Walk(up, t, path, d, x)
    BY <2>0 DEF Reached
  <2>2. up[x] \in Orgs
    BY <1>2 DEF Parents
  <2> DEFINE longer == [k \in 0..(d + 1) |-> IF k <= d THEN path[k] ELSE up[x]]
  <2>3. longer \in [0..(d + 1) -> Orgs]
    BY <2>2
  <2>4. longer[0] = t
    BY <2>1 DEF Walk, IsWalk
  <2>5. ASSUME NEW i \in 1..(d + 1)
        PROVE  longer[i] = up[longer[i - 1]]
    <3>1. CASE i <= d
      BY <2>1, <3>1 DEF Walk, IsWalk
    <3>2. CASE i = d + 1
      BY <2>1, <3>2 DEF Walk
    <3> QED
      BY <3>1, <3>2
  <2>5a. longer[d + 1] = up[x]
    OBVIOUS
  <2>6. Walk(up, t, longer, d + 1, up[x])
    <3> HIDE DEF longer
    <3> QED
      BY <2>3, <2>4, <2>5, <2>5a DEF Walk, IsWalk
  <2>7. Reached(up, t, up[x], d + 1) /\ d + 1 \in Nat
    BY <2>3, <2>6 DEF Reached
  <2> QED
    BY <2>2, <2>7
<1>3. o \in S
  <2>1. ClosedUpwards(up, S) /\ S \in SUBSET Orgs
    BY <1>2 DEF ClosedUpwards
  <2> QED
    BY <1>1, <2>1 DEF Lineage
<1> DEFINE Lengths == {d \in Nat : Reached(up, t, o, d)}
<1>4. Lengths \subseteq Nat /\ Lengths # {}
  BY <1>3
<1>5. PICK d \in Lengths : \A e \in Lengths : d <= e
  <2> HIDE DEF Lengths
  <2> QED
    BY <1>4, LeastNatural
<1> QED
  BY <1>5

\* What is met before an org is on every walk to it.
LEMMA BeforeOnWalk ==
    ASSUME NEW up \in Parents, NEW t \in Orgs, NEW d \in Nat, NEW path, NEW o,
           Walk(up, t, path, d, o), NEW p, Before(up, t, p, o)
    PROVE  \E i \in 0..(d - 1) : path[i] = p
<1>1. SUFFICES ASSUME \A i \in 0..(d - 1) : path[i] # p
               PROVE  FALSE
  OBVIOUS
<1>2. p \in Orgs
  BY DEF Before, Lineage
<1> DEFINE cut == [up EXCEPT ![p] = NoOrg]
<1>3. cut \in Parents
  BY <1>2 DEF Parents
<1>4. ASSUME NEW i \in 1..d
      PROVE  path[i] = cut[path[i - 1]]
  <2>1. i - 1 \in 0..(d - 1) /\ i - 1 \in 0..d
    OBVIOUS
  <2>2. path[i - 1] # p /\ path[i - 1] \in Orgs
    BY <1>1, <2>1 DEF Walk
  <2>3. path[i] = up[path[i - 1]]
    BY DEF Walk, IsWalk
  <2> QED
    BY <2>2, <2>3 DEF Parents
<1>5. Walk(cut, t, path, d, o)
  BY <1>4 DEF Walk, IsWalk
<1>6. o \in Lineage(cut, t)
  <2> HIDE DEF cut
  <2> QED
    BY <1>3, <1>5, WalkInLineage
<1> QED
  BY <1>6 DEF Before

\* What is on a shortest walk is met before its end, and only once.
LEMMA ShortestIsBefore ==
    ASSUME NEW up \in Parents, NEW t \in Orgs, NEW d \in Nat, NEW path, NEW o,
           Walk(up, t, path, d, o), \A e \in Nat : Reached(up, t, o, e) => d <= e,
           NEW i \in 0..(d - 1)
    PROVE  Before(up, t, path[i], o)
<1>0. path \in [0..d -> Orgs] /\ IsWalk(up, t, path, d) /\ i \in 0..d
  BY DEF Walk
<1>1. ASSUME NEW j \in 0..i
      PROVE  path[j] # o
  <2>1. j \in 0..d /\ j \in Nat /\ j < d
    OBVIOUS
  <2>2. Walk(up, t, [k \in 0..j |-> path[k]], j, path[j])
    BY <2>1, WalkPrefix
  <2>3. path[j] = o => Reached(up, t, o, j)
    BY <2>2 DEF Reached, Walk
  <2> QED
    BY <2>1, <2>3
<1>2. path[i] \in Lineage(up, t)
  <2>1. Walk(up, t, [k \in 0..i |-> path[k]], i, path[i])
    BY <1>0, WalkPrefix
  <2>2. i \in Nat
    OBVIOUS
  <2> QED
    BY <2>1, <2>2, WalkInLineage
<1> DEFINE cut == [up EXCEPT ![path[i]] = NoOrg]
           S == {path[j] : j \in 0..i}
<1>3. path[i] \in Orgs
  BY <1>0
<1>4. t \in S /\ o \notin S /\ S \subseteq Orgs
  <2>1. path[0] = t /\ 0 \in 0..i
    BY <1>0 DEF IsWalk
  <2>2. \A j \in 0..i : j \in 0..d
    OBVIOUS
  <2> QED
    BY <1>0, <1>1, <2>1, <2>2
<1>5. ASSUME NEW x \in S
      PROVE  cut[x] \in S \cup {NoOrg}
  <2>1. PICK j \in 0..i : x = path[j]
    OBVIOUS
  <2>2. CASE x = path[i]
    BY <1>3, <2>2 DEF Parents
  <2>3. CASE x # path[i]
    <3>1. j + 1 \in 0..i /\ j + 1 \in 1..d
      BY <2>1, <2>3
    <3>2. path[j + 1] = up[path[j]]
      BY <1>0, <3>1 DEF IsWalk
    <3>3. cut[x] = up[x]
      BY <1>4, <2>3 DEF Parents
    <3> QED
      BY <2>1, <3>1, <3>2, <3>3
  <2> QED
    BY <2>2, <2>3
<1>6. o \notin Lineage(cut, t)
  BY <1>4, <1>5 DEF Lineage, ClosedUpwards
<1>7. path[i] # o
  BY <1>1
<1> QED
  BY <1>2, <1>6, <1>7 DEF Before

LEMMA ShortestIsSimple ==
    ASSUME NEW up \in Parents, NEW t \in Orgs, NEW d \in Nat, NEW path, NEW o,
           Walk(up, t, path, d, o), \A e \in Nat : Reached(up, t, o, e) => d <= e,
           NEW i \in 0..(d - 1), NEW j \in 0..(d - 1), i < j
    PROVE  path[i] # path[j]
<1>1. SUFFICES ASSUME path[i] = path[j]
               PROVE  FALSE
  OBVIOUS
<1>0. path \in [0..d -> Orgs] /\ IsWalk(up, t, path, d) /\ path[d] = o
  BY DEF Walk
<1> DEFINE e == d - (j - i)
           short == [k \in 0..e |-> IF k <= i THEN path[k] ELSE path[k + (j - i)]]
<1>2. e \in Nat /\ e < d /\ i < e
  OBVIOUS
<1>3. short \in [0..e -> Orgs]
  <2>1. ASSUME NEW k \in 0..e
        PROVE  short[k] \in Orgs
    BY <1>0, <1>2
  <2> QED
    BY <2>1
<1>4. short[0] = t /\ short[e] = o
  BY <1>0, <1>2 DEF IsWalk
<1>5. ASSUME NEW k \in 1..e
      PROVE  short[k] = up[short[k - 1]]
  <2>0. k \in 0..e /\ k - 1 \in 0..e
    OBVIOUS
  <2>1. CASE k <= i
    BY <1>0, <2>0, <2>1 DEF IsWalk
  <2>2. CASE k = i + 1
    <3>1. short[k] = path[j + 1] /\ short[k - 1] = path[j]
      BY <1>1, <2>0, <2>2
    <3>2. path[j + 1] = up[path[(j + 1) - 1]] /\ (j + 1) - 1 = j
      BY <1>0 DEF IsWalk
    <3> QED
      BY <3>1, <3>2
  <2>3. CASE k > i + 1
    <3>1. short[k] = path[k + (j - i)] /\ short[k - 1] = path[(k + (j - i)) - 1]
      BY <2>0, <2>3
    <3>2. k + (j - i) \in 1..d
      BY <2>3
    <3> QED
      BY <1>0, <3>1, <3>2 DEF IsWalk
  <2> QED
    BY <2>1, <2>2, <2>3
<1>6. Reached(up, t, o, e)
  BY <1>3, <1>4, <1>5 DEF Reached, Walk, IsWalk
<1> QED
  BY <1>2, <1>6

\* The number of orgs met before one is the depth of the walk to it.
LEMMA DistanceAtMost ==
    ASSUME NEW up \in Parents, NEW t \in Orgs, NEW d \in Nat, NEW path, NEW o,
           Walk(up, t, path, d, o)
    PROVE  /\ IsFiniteSet({p \in Orgs : Before(up, t, p, o)})
           /\ Distance(up, t, o) \in Nat
           /\ Distance(up, t, o) <= d
<1> DEFINE I == 0..(d - 1)
           On == {path[i] : i \in I}
           B == {p \in Orgs : Before(up, t, p, o)}
           f == [i \in I |-> path[i]]
<1>1. IsFiniteSet(I) /\ Cardinality(I) = d
  BY FS_Interval
<1>2. f \in Surjection(I, On)
  BY DEF Surjection
<1>3. IsFiniteSet(On) /\ Cardinality(On) <= Cardinality(I)
  <2> HIDE DEF I, On, f
  <2> QED
    BY <1>1, <1>2, FS_Surjection
<1>4. B \in SUBSET On
  BY BeforeOnWalk
<1>5. IsFiniteSet(B) /\ Cardinality(B) <= Cardinality(On)
  <2> HIDE DEF On, B
  <2> QED
    BY <1>3, <1>4, FS_Subset
<1>6. Cardinality(B) \in Nat /\ Cardinality(On) \in Nat
  BY <1>3, <1>5, FS_CardinalityType
<1> HIDE DEF I, On
<1> QED
  BY <1>1, <1>3, <1>5, <1>6 DEF Distance

LEMMA DistanceAtLeast ==
    ASSUME NEW up \in Parents, NEW t \in Orgs, NEW d \in Nat, NEW path, NEW o,
           Walk(up, t, path, d, o), \A e \in Nat : Reached(up, t, o, e) => d <= e
    PROVE  d <= Distance(up, t, o)
<1> DEFINE I == 0..(d - 1)
           B == {p \in Orgs : Before(up, t, p, o)}
           f == [i \in I |-> path[i]]
<1>1. IsFiniteSet(I) /\ Cardinality(I) = d
  BY FS_Interval
<1>2. \A i \in I : f[i] \in B
  <2> TAKE i \in I
  <2>1. path[i] \in Orgs
    BY DEF Walk
  <2> QED
    BY <2>1, ShortestIsBefore
<1>3. \A i, j \in I : i # j => f[i] # f[j]
  <2> TAKE i, j \in I
  <2>1. CASE i < j
    BY <2>1, ShortestIsSimple
  <2>2. CASE j < i
    BY <2>2, ShortestIsSimple
  <2> QED
    BY <2>1, <2>2
<1>4. f \in Injection(I, B)
  <2>1. f \in [I -> B]
    BY <1>2
  <2> QED
    BY <1>3, <2>1 DEF Injection, IsInjective
<1>5. IsFiniteSet(B) /\ Distance(up, t, o) = Cardinality(B)
  BY DistanceAtMost DEF Distance
<1>6. Cardinality(I) <= Cardinality(B)
  <2> HIDE DEF I, B, f
  <2> QED
    BY <1>4, <1>5, FS_Injection
<1> QED
  BY <1>1, <1>5, <1>6

\* A row of the recursive query is a walk to its org.
LEMMA ChainIsWalk ==
    ASSUME NEW up \in Parents, NEW t \in Orgs, NEW o, NEW d
    PROVE  [id |-> o, depth |-> d] \in OrgChain(up, t) <=>
             /\ o \in Orgs
             /\ d \in Nat /\ d <= MAX_HIERARCHY_DEPTH
             /\ Reached(up, t, o, d)
<1> DEFINE row == [id |-> o, depth |-> d]
<1>1. row \in [id: Orgs, depth: 0..MAX_HIERARCHY_DEPTH] <=>
        o \in Orgs /\ d \in Nat /\ d <= MAX_HIERARCHY_DEPTH
  BY DepthAssumption
<1>2. row.id = o /\ row.depth = d
  OBVIOUS
<1>3. Reached(up, t, o, d) <=>
        \E path \in [0..row.depth -> Orgs] :
           IsWalk(up, t, path, row.depth) /\ path[row.depth] = row.id
  BY <1>2 DEF Reached, Walk
<1> HIDE DEF row
<1>4. row \in OrgChain(up, t) <=>
        /\ row \in [id: Orgs, depth: 0..MAX_HIERARCHY_DEPTH]
        /\ Reached(up, t, o, d)
  BY <1>3 DEF OrgChain
<1> QED
  BY <1>1, <1>4 DEF row

\* An entitling org on a walk within the bound is a candidate of the query.
LEMMA EntitledIsCandidate ==
    ASSUME NEW up \in Parents, NEW given, NEW u, NEW permission, NEW t \in Orgs,
           NEW o \in EntitlingOrgs(up, given, u, permission, t),
           NEW d \in Nat, d <= MAX_HIERARCHY_DEPTH, Reached(up, t, o, d)
    PROVE  \E role \in Roles : [role |-> role, org |-> o, depth |-> d] \in
               Candidates(up, given, u, RolesWithPermission(permission), t)
<1>1. o \in Orgs
  BY DEF EntitlingOrgs, Lineage
<1>2. PICK role \in Roles : /\ permission \in ROLE_PERMISSIONS[role]
                            /\ [user |-> u, org |-> o, role |-> role] \in given
  BY DEF EntitlingOrgs, GrantsPermission
<1>3. [id |-> o, depth |-> d] \in OrgChain(up, t)
  BY <1>1, ChainIsWalk
<1>4. d \in 0..MAX_HIERARCHY_DEPTH
  BY DepthAssumption
<1>5. role \in RolesWithPermission(permission)
  BY <1>2 DEF RolesWithPermission
<1> DEFINE row == [role |-> role, org |-> o, depth |-> d]
<1>6. row \in [role: Roles, org: Orgs, depth: 0..MAX_HIERARCHY_DEPTH]
  BY <1>1, <1>4
<1>7. row.role = role /\ row.org = o /\ row.depth = d
  OBVIOUS
<1> HIDE DEF row
<1>8. row \in Candidates(up, given, u, RolesWithPermission(permission), t)
  BY <1>2, <1>3, <1>5, <1>6, <1>7 DEF Candidates
<1> QED
  BY <1>8 DEF row

\* check_permission denies only where no org entitles within the bound, and
\* allows by one that no other entitling org comes before.
LEMMA ClosestWins ==
    ASSUME NEW up \in Parents, NEW given, NEW u \in Users,
           NEW permission \in Permissions, NEW t \in Orgs,
           NEW found \in CheckPermission(up, given, u, permission, t)
    PROVE  LET entitling == EntitlingOrgs(up, given, u, permission, t)
           IN  /\ ~found.allowed => entitling = {}
               /\ found.allowed =>
                     /\ found.org \in entitling
                     /\ \A o \in entitling : ~Before(up, t, o, found.org)
<1> DEFINE entitling == EntitlingOrgs(up, given, u, permission, t)
           rows == Candidates(up, given, u, RolesWithPermission(permission), t)
<1>1. ASSUME ~found.allowed, NEW o \in entitling
      PROVE  FALSE
  <2>1. rows = {}
    BY <1>1, CheckFacts
  <2>2. o \in Lineage(up, t) /\ Distance(up, t, o) <= MAX_HIERARCHY_DEPTH
    BY DEF EntitlingOrgs
  <2>3. PICK d \in Nat : /\ Reached(up, t, o, d)
                         /\ \A e \in Nat : Reached(up, t, o, e) => d <= e
    BY <2>2, ShortestWalk
  <2>4. PICK path \in [0..d -> Orgs] : Walk(up, t, path, d, o)
    BY <2>3 DEF Reached
  <2>5. d <= Distance(up, t, o) /\ Distance(up, t, o) \in Nat
    BY <2>3, <2>4, DistanceAtLeast, DistanceAtMost
  <2>6. d <= MAX_HIERARCHY_DEPTH
    BY <2>2, <2>5, DepthAssumption
  <2> QED
    BY <2>1, <2>3, <2>6, EntitledIsCandidate
<1>2. ASSUME found.allowed
      PROVE  found.org \in entitling /\ \A o \in entitling : ~Before(up, t, o, found.org)
  <2>1. PICK row \in Closest(rows) : found = Allowed(row)
    BY <1>2, CheckFacts
  <2>2. /\ row.org \in Orgs
        /\ row.role \in Roles
        /\ [id |-> row.org, depth |-> row.depth] \in OrgChain(up, t)
        /\ [user |-> u, org |-> row.org, role |-> row.role] \in given
        /\ permission \in ROLE_PERMISSIONS[row.role]
    BY DEF Closest, Candidates, RolesWithPermission
  <2>3. row.depth \in Nat /\ row.depth <= MAX_HIERARCHY_DEPTH /\ Reached(up, t, row.org, row.depth)
    BY <2>2, ChainIsWalk
  <2>4. PICK path \in [0..row.depth -> Orgs] : Walk(up, t, path, row.depth, row.org)
    BY <2>3 DEF Reached
  <2>5. row.org \in Lineage(up, t)
    BY <2>3, <2>4, WalkInLineage
  <2>6. Distance(up, t, row.org) <= MAX_HIERARCHY_DEPTH
    <3>1. Distance(up, t, row.org) \in Nat /\ Distance(up, t, row.org) <= row.depth
      BY <2>3, <2>4, DistanceAtMost
    <3> QED
      BY <2>3, <3>1, DepthAssumption
  <2>7. row.org \in entitling
    BY <2>2, <2>5, <2>6 DEF EntitlingOrgs, GrantsPermission
  <2>8. ASSUME NEW o \in entitling, Before(up, t, o, row.org)
        PROVE  FALSE
    <3>1. PICK i \in 0..(row.depth - 1) : path[i] = o
      BY <2>3, <2>4, <2>8, BeforeOnWalk
    <3>2. i \in Nat /\ i < row.depth /\ i \in 0..row.depth /\ i <= MAX_HIERARCHY_DEPTH
      BY <2>3, <3>1, DepthAssumption
    <3>3. Walk(up, t, [k \in 0..i |-> path[k]], i, o)
      BY <2>3, <2>4, <3>1, <3>2, WalkPrefix
    <3>4. Reached(up, t, o, i)
      BY <3>3 DEF Reached, Walk
    <3>5. PICK role \in Roles : [role |-> role, org |-> o, depth |-> i] \in rows
      BY <3>2, <3>4, EntitledIsCandidate
    <3>6. row.depth <= [role |-> role, org |-> o, depth |-> i].depth
      BY <3>5 DEF Closest
    <3> QED
      BY <2>3, <3>2, <3>6
  <2> QED
    BY <2>1, <2>7, <2>8 DEF Allowed
<1> QED
  BY <1>1, <1>2

-----------------------------------------------------------------------------
(* Walks have no choice: parent_org_id is one column.                      *)

\* Two walks from an org agree as far as both go.
LEMMA WalksAgree ==
    ASSUME NEW up \in Parents, NEW t \in Orgs,
           NEW d \in Nat, NEW path, NEW o, Walk(up, t, path, d, o),
           NEW e \in Nat, NEW way, NEW p, Walk(up, t, way, e, p),
           NEW i \in 0..d, i <= e
    PROVE  path[i] = way[i]
<1> DEFINE Differ == {k \in 0..i : path[k] # way[k]}
<1>1. SUFFICES ASSUME Differ # {}
               PROVE  FALSE
  OBVIOUS
<1>2. PICK n \in Differ : \A m \in Differ : n <= m
  <2>1. Differ \subseteq Nat
    OBVIOUS
  <2> HIDE DEF Differ
  <2> QED
    BY <1>1, <2>1, LeastNatural
<1>3. n # 0
  BY DEF Walk, IsWalk
<1>4. n - 1 \in 0..i /\ n \in 1..d /\ n \in 1..e
  BY <1>3
<1>5. path[n - 1] = way[n - 1]
  BY <1>2, <1>4
<1>6. path[n] = up[path[n - 1]] /\ way[n] = up[way[n - 1]]
  BY <1>4 DEF Walk, IsWalk
<1> QED
  BY <1>5, <1>6

\* What a walk reaches sooner than another org comes before that org, if the
\* walk to it is the shortest.
LEMMA SoonerIsBefore ==
    ASSUME NEW up \in Parents, NEW t \in Orgs,
           NEW p, NEW i \in Nat, Reached(up, t, p, i),
           NEW o, NEW d \in Nat, Reached(up, t, o, d), i < d,
           \A e \in Nat : Reached(up, t, o, e) => d <= e
    PROVE  Before(up, t, p, o)
<1>1. PICK way : Walk(up, t, way, i, p)
  BY DEF Reached
<1>2. PICK path : Walk(up, t, path, d, o)
  BY DEF Reached
<1>3. i \in 0..i /\ i \in 0..d /\ i \in 0..(d - 1)
  OBVIOUS
<1>4. way[i] = path[i]
  BY <1>1, <1>2, <1>3, WalksAgree
<1>5. way[i] = p
  BY <1>1 DEF Walk
<1> QED
  BY <1>2, <1>3, <1>4, <1>5, ShortestIsBefore

\* Two ancestors of an org are never level: one of them comes before the other,
\* also where the orgs above form a cycle.
THEOREM AncestorsInLine ==
    ASSUME NEW up \in Parents, NEW t \in Orgs,
           NEW o \in Lineage(up, t), NEW p \in Lineage(up, t), o # p
    PROVE  Before(up, t, o, p) <=> ~Before(up, t, p, o)
<1>1. PICK d \in Nat : Reached(up, t, o, d) /\ \A e \in Nat : Reached(up, t, o, e) => d <= e
  BY ShortestWalk
<1>2. PICK c \in Nat : Reached(up, t, p, c) /\ \A e \in Nat : Reached(up, t, p, e) => c <= e
  BY ShortestWalk
<1>3. PICK path : Walk(up, t, path, d, o)
  BY <1>1 DEF Reached
<1>4. PICK way : Walk(up, t, way, c, p)
  BY <1>2 DEF Reached
<1>5. d # c
  <2>1. SUFFICES ASSUME d = c
                 PROVE  FALSE
    OBVIOUS
  <2>2. path[d] = way[d]
    BY <1>3, <1>4, <2>1, WalksAgree
  <2> QED
    BY <1>3, <1>4, <2>1, <2>2 DEF Walk
<1>6. d < c => Before(up, t, o, p)
  BY <1>1, <1>2, SoonerIsBefore
<1>7. c < d => Before(up, t, p, o)
  BY <1>1, <1>2, SoonerIsBefore
<1>8. Before(up, t, o, p) => d < c
  <2>1. SUFFICES ASSUME Before(up, t, o, p)
                 PROVE  d < c
    OBVIOUS
  <2>2. PICK i \in 0..(c - 1) : way[i] = o
    BY <1>4, <2>1, BeforeOnWalk
  <2>3. i \in Nat /\ i < c /\ i \in 0..c
    OBVIOUS
  <2>4. Walk(up, t, [k \in 0..i |-> way[k]], i, o)
    BY <1>4, <2>2, <2>3, WalkPrefix
  <2>5. Reached(up, t, o, i)
    BY <2>4 DEF Reached, Walk
  <2> QED
    BY <1>1, <2>3, <2>5
<1>9. Before(up, t, p, o) => c < d
  <2>1. SUFFICES ASSUME Before(up, t, p, o)
                 PROVE  c < d
    OBVIOUS
  <2>2. PICK i \in 0..(d - 1) : path[i] = p
    BY <1>3, <2>1, BeforeOnWalk
  <2>3. i \in Nat /\ i < d /\ i \in 0..d
    OBVIOUS
  <2>4. Walk(up, t, [k \in 0..i |-> path[k]], i, p)
    BY <1>3, <2>2, <2>3, WalkPrefix
  <2>5. Reached(up, t, p, i)
    BY <2>4 DEF Reached, Walk
  <2> QED
    BY <1>2, <2>3, <2>5
<1> QED
  BY <1>5, <1>6, <1>7, <1>8, <1>9

-----------------------------------------------------------------------------
(* check_permission against its docstring.                                 *)

\* Every permission is in the bundle of some role: the first early return of
\* check_permission, permission_not_in_any_role, is never taken.
THEOREM EveryPermissionHeld ==
    ASSUME NEW permission \in Permissions
    PROVE  RolesWithPermission(permission) # {}
<1>1. CASE permission \in OperationalReads
  <2>1. permission \in ROLE_PERMISSIONS["viewer"] /\ "viewer" \in Roles
    BY <1>1 DEF ROLE_PERMISSIONS, Roles
  <2> QED
    BY <2>1 DEF RolesWithPermission
<1>2. CASE permission = "mission:write"
  <2>1. permission \in ROLE_PERMISSIONS["operator"] /\ "operator" \in Roles
    BY <1>2 DEF ROLE_PERMISSIONS, Roles
  <2> QED
    BY <2>1 DEF RolesWithPermission
<1>3. CASE permission \in OrgAdmin
  <2>1. permission \in ROLE_PERMISSIONS["admin"] /\ "admin" \in Roles
    BY <1>3 DEF ROLE_PERMISSIONS, Roles
  <2> QED
    BY <2>1 DEF RolesWithPermission
<1>4. CASE permission \in {"drone:configure"} \cup Platform
  <2>1. permission \in ROLE_PERMISSIONS["developer"] /\ "developer" \in Roles
    BY <1>4 DEF ROLE_PERMISSIONS, Roles
  <2> QED
    BY <2>1 DEF RolesWithPermission
<1> QED
  BY <1>1, <1>2, <1>3, <1>4 DEF Permissions

\* The closest row of the query decides as promised: at an entitling org that
\* no other one comes before.
LEMMA ClosestIsNearest ==
    ASSUME NEW up \in Parents, NEW given, NEW u \in Users,
           NEW permission \in Permissions, NEW t \in Orgs,
           NEW found \in CheckPermission(up, given, u, permission, t), found.allowed
    PROVE  \E g \in Grant \cap given :
              /\ g.user = u
              /\ g.org \in Nearest(up, t, EntitlingOrgs(up, given, u, permission, t))
              /\ permission \in ROLE_PERMISSIONS[g.role]
              /\ found = Allowed(g)
<1> DEFINE rows == Candidates(up, given, u, RolesWithPermission(permission), t)
<1>1. PICK row \in Closest(rows) : found = Allowed(row)
  BY CheckFacts
<1>2. /\ row.org \in Orgs /\ row.role \in Roles
      /\ [user |-> u, org |-> row.org, role |-> row.role] \in given
      /\ permission \in ROLE_PERMISSIONS[row.role]
  BY DEF Closest, Candidates, RolesWithPermission
<1> DEFINE g == [user |-> u, org |-> row.org, role |-> row.role]
<1>3. g \in Grant \cap given /\ g.user = u /\ g.org = row.org /\ g.role = row.role
  BY <1>2 DEF Grant
<1>4. found.org = row.org
  BY <1>1 DEF Allowed
<1>5. row.org \in Nearest(up, t, EntitlingOrgs(up, given, u, permission, t))
  BY <1>4, ClosestWins DEF Nearest
<1>6. found = Allowed(g)
  BY <1>1, <1>3 DEF Allowed
<1> QED
  BY <1>2, <1>3, <1>5, <1>6

\* A grant that entitles at a nearest org is a row the query may return first.
LEMMA NearestIsClosest ==
    ASSUME NEW up \in Parents, NEW given, NEW u \in Users,
           NEW permission \in Permissions, NEW t \in Orgs,
           NEW g \in Grant \cap given, g.user = u, permission \in ROLE_PERMISSIONS[g.role],
           g.org \in Nearest(up, t, EntitlingOrgs(up, given, u, permission, t))
    PROVE  \E row \in Closest(Candidates(up, given, u, RolesWithPermission(permission), t)) :
              Allowed(row) = Allowed(g)
<1> DEFINE entitling == EntitlingOrgs(up, given, u, permission, t)
           rows == Candidates(up, given, u, RolesWithPermission(permission), t)
<1>1. /\ g.org \in entitling /\ g.org \in Orgs /\ g.role \in Roles
      /\ g = [user |-> u, org |-> g.org, role |-> g.role]
  BY DEF Nearest, Grant
<1>2. g.org \in Lineage(up, t) /\ Distance(up, t, g.org) <= MAX_HIERARCHY_DEPTH
  BY <1>1 DEF EntitlingOrgs
<1>3. PICK d \in Nat : Reached(up, t, g.org, d) /\ \A e \in Nat : Reached(up, t, g.org, e) => d <= e
  BY <1>2, ShortestWalk
<1>4. PICK path : Walk(up, t, path, d, g.org)
  BY <1>3 DEF Reached
<1>5. d <= MAX_HIERARCHY_DEPTH /\ d \in 0..MAX_HIERARCHY_DEPTH
  <2>1. d <= Distance(up, t, g.org) /\ Distance(up, t, g.org) \in Nat
    BY <1>3, <1>4, DistanceAtLeast, DistanceAtMost
  <2> QED
    BY <1>2, <2>1, DepthAssumption
<1> DEFINE row == [role |-> g.role, org |-> g.org, depth |-> d]
<1>6. row \in rows
  <2>1. [id |-> g.org, depth |-> d] \in OrgChain(up, t)
    BY <1>1, <1>3, <1>5, ChainIsWalk
  <2>2. g.role \in RolesWithPermission(permission)
    BY <1>1 DEF RolesWithPermission
  <2>3. [user |-> u, org |-> g.org, role |-> g.role] \in given
    BY <1>1
  <2>4. row \in [role: Roles, org: Orgs, depth: 0..MAX_HIERARCHY_DEPTH]
    BY <1>1, <1>5
  <2>5. row.role = g.role /\ row.org = g.org /\ row.depth = d
    OBVIOUS
  <2> HIDE DEF row
  <2> QED
    BY <2>1, <2>2, <2>3, <2>4, <2>5 DEF Candidates
<1>7. ASSUME NEW other \in rows
      PROVE  d <= other.depth
  <2>1. /\ other.org \in Orgs /\ other.role \in Roles
        /\ [id |-> other.org, depth |-> other.depth] \in OrgChain(up, t)
        /\ [user |-> u, org |-> other.org, role |-> other.role] \in given
        /\ permission \in ROLE_PERMISSIONS[other.role]
    BY DEF Candidates, RolesWithPermission
  <2>2. /\ other.depth \in Nat /\ other.depth <= MAX_HIERARCHY_DEPTH
        /\ Reached(up, t, other.org, other.depth)
    BY <2>1, ChainIsWalk
  <2>3. PICK way : Walk(up, t, way, other.depth, other.org)
    BY <2>2 DEF Reached
  <2>4. other.org \in entitling
    <3>1. other.org \in Lineage(up, t)
      BY <2>2, <2>3, WalkInLineage
    <3>2. Distance(up, t, other.org) \in Nat /\ Distance(up, t, other.org) <= other.depth
      BY <2>2, <2>3, DistanceAtMost
    <3>3. Distance(up, t, other.org) <= MAX_HIERARCHY_DEPTH
      BY <2>2, <3>2, DepthAssumption
    <3> QED
      BY <2>1, <3>1, <3>3 DEF EntitlingOrgs, GrantsPermission
  <2>5. ~(other.depth < d)
    BY <1>3, <2>2, <2>4, SoonerIsBefore DEF Nearest
  <2> QED
    BY <2>2, <2>5
<1>8. row \in Closest(rows)
  BY <1>6, <1>7 DEF Closest
<1>9. Allowed(row) = Allowed(g)
  BY DEF Allowed
<1> QED
  BY <1>8, <1>9

\* check_permission returns what its docstring promises and nothing else: a
\* denial exactly where no org entitles within the depth, otherwise one of the
\* entitling grants of the nearest entitling org, and every one of those can be
\* the one.
THEOREM CheckIsDecision ==
    ASSUME NEW up \in Parents, NEW given, NEW u \in Users,
           NEW permission \in Permissions, NEW t \in Orgs
    PROVE  CheckPermission(up, given, u, permission, t) = Decision(up, given, u, permission, t)
<1> DEFINE entitling == EntitlingOrgs(up, given, u, permission, t)
           rows == Candidates(up, given, u, RolesWithPermission(permission), t)
           wins == {g \in Grant \cap given :
                      /\ g.user = u
                      /\ g.org \in Nearest(up, t, entitling)
                      /\ permission \in ROLE_PERMISSIONS[g.role]}
<1>1. Decision(up, given, u, permission, t) =
        IF entitling = {} THEN {Denied("no_matching_role_grant")} ELSE {Allowed(g) : g \in wins}
  BY DEF Decision
<1>2. CheckPermission(up, given, u, permission, t) =
        IF rows = {} THEN {Denied("no_matching_role_grant")}
        ELSE {Allowed(row) : row \in Closest(rows)}
  BY EveryPermissionHeld DEF CheckPermission
<1>3. CASE rows = {}
  <2>1. Denied("no_matching_role_grant") \in CheckPermission(up, given, u, permission, t)
    BY <1>2, <1>3
  <2>2. entitling = {}
    BY <2>1, ClosestWins DEF Denied
  <2> QED
    BY <1>1, <1>2, <1>3, <2>2
<1>4. CASE rows # {}
  <2>1. ASSUME NEW found \in CheckPermission(up, given, u, permission, t)
        PROVE  entitling # {} /\ \E g \in wins : found = Allowed(g)
    <3>1. PICK row \in Closest(rows) : found = Allowed(row)
      BY <1>2, <1>4
    <3>2. found.allowed
      BY <3>1 DEF Allowed
    <3>3. PICK g \in Grant \cap given :
             /\ g.user = u
             /\ g.org \in Nearest(up, t, entitling)
             /\ permission \in ROLE_PERMISSIONS[g.role]
             /\ found = Allowed(g)
      BY <3>2, ClosestIsNearest
    <3> QED
      BY <3>3 DEF Nearest
  <2>2. ASSUME NEW g \in wins
        PROVE  Allowed(g) \in CheckPermission(up, given, u, permission, t)
    <3>1. PICK row \in Closest(rows) : Allowed(row) = Allowed(g)
      BY NearestIsClosest
    <3> QED
      BY <1>2, <1>4, <3>1
  <2>3. entitling # {}
    <3>1. PICK least \in Closest(rows) : TRUE
      <4> DEFINE depths == {row.depth : row \in rows}
      <4>1. rows \subseteq [role: Roles, org: Orgs, depth: 0..MAX_HIERARCHY_DEPTH]
        BY DEF Candidates
      <4>2. depths \subseteq Nat /\ depths # {}
        BY <1>4, <4>1, DepthAssumption
      <4>3. PICK n \in depths : \A m \in depths : n <= m
        <5> HIDE DEF depths
        <5> QED
          BY <4>2, LeastNatural
      <4>4. PICK row \in rows : row.depth = n
        OBVIOUS
      <4>5. row \in Closest(rows)
        BY <4>3, <4>4 DEF Closest
      <4> QED
        BY <4>5
    <3>2. Allowed(least) \in CheckPermission(up, given, u, permission, t)
      BY <1>2, <1>4
    <3> QED
      BY <2>1, <3>2
  <2>4. Decision(up, given, u, permission, t) = {Allowed(g) : g \in wins}
    BY <1>1, <2>3
  <2>5. ASSUME NEW found
        PROVE  found \in CheckPermission(up, given, u, permission, t) <=>
                 found \in {Allowed(g) : g \in wins}
    BY <2>1, <2>2
  <2> HIDE DEF wins
  <2> QED
    BY <2>4, <2>5
<1> QED
  BY <1>3, <1>4

-----------------------------------------------------------------------------
(* What follows for the orgs, their admins and their tenants.              *)

\* A walk in one hierarchy is one in any other that agrees on the lineage.
LEMMA WalkTransfers ==
    ASSUME NEW up \in Parents, NEW other \in Parents, NEW t \in Orgs,
           \A o \in Lineage(up, t) : other[o] = up[o],
           NEW d \in Nat, NEW o, Reached(up, t, o, d)
    PROVE  Reached(other, t, o, d)
<1>1. PICK path : Walk(up, t, path, d, o)
  BY DEF Reached
<1>2. ASSUME NEW i \in 1..d
      PROVE  path[i] = other[path[i - 1]]
  <2>1. i - 1 \in 0..d /\ i - 1 \in Nat
    OBVIOUS
  <2>2. Walk(up, t, [k \in 0..(i - 1) |-> path[k]], i - 1, path[i - 1])
    BY <1>1, <2>1, WalkPrefix
  <2>3. path[i - 1] \in Lineage(up, t)
    BY <2>1, <2>2, WalkInLineage
  <2>4. path[i] = up[path[i - 1]]
    BY <1>1 DEF Walk, IsWalk
  <2> QED
    BY <2>3, <2>4
<1>3. Walk(other, t, path, d, o)
  BY <1>1, <1>2 DEF Walk, IsWalk
<1> QED
  BY <1>3 DEF Reached, Walk

LEMMA LineageTransfers ==
    ASSUME NEW up \in Parents, NEW other \in Parents, NEW t \in Orgs,
           \A o \in Lineage(up, t) : other[o] = up[o]
    PROVE  Lineage(other, t) = Lineage(up, t)
<1>1. ASSUME NEW o \in Lineage(up, t)
      PROVE  o \in Lineage(other, t)
  <2>1. PICK d \in Nat : Reached(up, t, o, d)
    BY ShortestWalk
  <2>2. Reached(other, t, o, d)
    BY <2>1, WalkTransfers
  <2>3. PICK path : Walk(other, t, path, d, o)
    BY <2>2 DEF Reached
  <2> QED
    BY <2>3, WalkInLineage
<1>2. t \in Lineage(up, t) /\ ClosedUpwards(other, Lineage(up, t)) /\ Lineage(up, t) \subseteq Orgs
  <2>1. ClosedUpwards(up, Lineage(up, t))
    BY DEF Lineage, ClosedUpwards, Parents
  <2> QED
    BY <2>1 DEF Lineage, ClosedUpwards
<1>3. Lineage(other, t) \subseteq Lineage(up, t)
  BY <1>2 DEF Lineage
<1> QED
  BY <1>1, <1>3

\* Tenants are isolated: a decision depends on nothing but the parents of the org
\* and of its ancestors and the grants the user holds there.  Whatever is granted
\* to others, or at other orgs, and however those are rearranged, it stays.
THEOREM OthersDoNotMatter ==
    ASSUME NEW up \in Parents, NEW other \in Parents, NEW given, NEW changed,
           NEW u \in Users, NEW permission \in Permissions, NEW t \in Orgs,
           \A o \in Lineage(up, t) : other[o] = up[o],
           \A o \in Lineage(up, t), role \in Roles :
              [user |-> u, org |-> o, role |-> role] \in given <=>
                 [user |-> u, org |-> o, role |-> role] \in changed
    PROVE  CheckPermission(up, given, u, permission, t) =
              CheckPermission(other, changed, u, permission, t)
<1>1. \A o \in Lineage(other, t) : up[o] = other[o]
  BY LineageTransfers
<1>2. ASSUME NEW o, NEW d
      PROVE  [id |-> o, depth |-> d] \in OrgChain(up, t) <=>
               [id |-> o, depth |-> d] \in OrgChain(other, t)
  <2>1. d \in Nat => (Reached(up, t, o, d) <=> Reached(other, t, o, d))
    BY <1>1, WalkTransfers
  <2> QED
    BY <2>1, ChainIsWalk
<1>3. ASSUME NEW row \in [role: Roles, org: Orgs, depth: 0..MAX_HIERARCHY_DEPTH],
             [id |-> row.org, depth |-> row.depth] \in OrgChain(up, t)
      PROVE  [user |-> u, org |-> row.org, role |-> row.role] \in given <=>
               [user |-> u, org |-> row.org, role |-> row.role] \in changed
  <2>1. [id |-> row.org, depth |-> row.depth].id \in Lineage(up, t)
    BY <1>3, ChainIsLineage
  <2> QED
    BY <2>1
<1>4. Candidates(up, given, u, RolesWithPermission(permission), t) =
        Candidates(other, changed, u, RolesWithPermission(permission), t)
  BY <1>2, <1>3 DEF Candidates
<1> QED
  BY <1>4 DEF CheckPermission

\* A further grant takes no permission away, and moves the decision to no org
\* farther up.
THEOREM MoreGrantsMoreAllowed ==
    ASSUME NEW up \in Parents, NEW given, NEW more, given \subseteq more,
           NEW u \in Users, NEW permission \in Permissions, NEW t \in Orgs,
           NEW found \in CheckPermission(up, given, u, permission, t), found.allowed,
           NEW now \in CheckPermission(up, more, u, permission, t)
    PROVE  now.allowed /\ ~Before(up, t, found.org, now.org)
<1>1. found.org \in EntitlingOrgs(up, given, u, permission, t)
  BY ClosestWins
<1>2. EntitlingOrgs(up, given, u, permission, t) \subseteq EntitlingOrgs(up, more, u, permission, t)
  BY DEF EntitlingOrgs, GrantsPermission
<1>3. now \in Results
  BY CheckFacts
<1> QED
  BY <1>1, <1>2, <1>3, ClosestWins DEF Results

\* Each org met before an ancestor is itself one: at most all but the ancestor.
LEMMA DistanceWithin ==
    ASSUME NEW up \in Parents, NEW t \in Orgs, NEW o \in Lineage(up, t),
           IsFiniteSet(Lineage(up, t))
    PROVE  /\ Distance(up, t, o) \in Nat /\ Cardinality(Lineage(up, t)) \in Nat
           /\ Distance(up, t, o) < Cardinality(Lineage(up, t))
<1> DEFINE L == Lineage(up, t)
           B == {p \in Orgs : Before(up, t, p, o)}
<1>1. B \in SUBSET (L \ {o})
  BY DEF Before, Lineage
<1>2. IsFiniteSet(L \ {o}) /\ Cardinality(L \ {o}) = Cardinality(L) - 1
  BY FS_RemoveElement
<1>3. IsFiniteSet(B) /\ Cardinality(B) <= Cardinality(L \ {o})
  <2> HIDE DEF B, L
  <2> QED
    BY <1>1, <1>2, FS_Subset
<1>4. Cardinality(B) \in Nat /\ Cardinality(L) \in Nat
  BY <1>3, FS_CardinalityType
<1> QED
  BY <1>2, <1>3, <1>4 DEF Distance

\* Where an org has no more than MAX_HIERARCHY_DEPTH ancestors, in a cycle or not,
\* the bound of the walk denies nothing: a request is allowed if and only if the
\* user has a role granting the permission at the org or any ancestor of it.
THEOREM DepthDeniesNothing ==
    ASSUME NEW up \in Parents, NEW given, NEW u \in Users,
           NEW permission \in Permissions, NEW t \in Orgs,
           IsFiniteSet(Lineage(up, t)), Cardinality(Lineage(up, t)) <= MAX_HIERARCHY_DEPTH + 1,
           NEW found \in CheckPermission(up, given, u, permission, t)
    PROVE  found.allowed <=> \E o \in Lineage(up, t) : GrantsPermission(given, u, permission, o)
<1>1. found.allowed \in BOOLEAN
  BY CheckFacts DEF Results
<1>2. ASSUME NEW o \in Lineage(up, t)
      PROVE  Distance(up, t, o) <= MAX_HIERARCHY_DEPTH
  BY DistanceWithin, DepthAssumption
<1>3. \A o : o \in EntitlingOrgs(up, given, u, permission, t) <=>
        o \in Lineage(up, t) /\ GrantsPermission(given, u, permission, o)
  BY <1>2 DEF EntitlingOrgs
<1> QED
  BY <1>1, <1>3, ClosestWins

\* Authority flows down: who may act on the parent of an org may act on the org,
\* unless the grant is at the last level the walk reaches.
THEOREM AuthorityFlowsDown ==
    ASSUME NEW up \in Parents, NEW given, NEW u \in Users,
           NEW permission \in Permissions, NEW t \in Orgs, up[t] \in Orgs,
           NEW above \in CheckPermission(up, given, u, permission, up[t]), above.allowed,
           Distance(up, up[t], above.org) < MAX_HIERARCHY_DEPTH,
           NEW found \in CheckPermission(up, given, u, permission, t)
    PROVE  found.allowed
<1>1. above.org \in EntitlingOrgs(up, given, u, permission, up[t])
  BY ClosestWins
<1>2. above.org \in Lineage(up, up[t]) /\ GrantsPermission(given, u, permission, above.org)
  BY <1>1 DEF EntitlingOrgs
<1>3. PICK d \in Nat : /\ Reached(up, up[t], above.org, d)
                       /\ \A e \in Nat : Reached(up, up[t], above.org, e) => d <= e
  BY <1>2, ShortestWalk
<1>4. PICK path : Walk(up, up[t], path, d, above.org)
  BY <1>3 DEF Reached
<1>5. d < MAX_HIERARCHY_DEPTH
  <2>1. d <= Distance(up, up[t], above.org) /\ Distance(up, up[t], above.org) \in Nat
    BY <1>3, <1>4, DistanceAtLeast, DistanceAtMost
  <2> QED
    BY <2>1, DepthAssumption
<1> DEFINE longer == [k \in 0..(d + 1) |-> IF k = 0 THEN t ELSE path[k - 1]]
<1>6. longer \in [0..(d + 1) -> Orgs]
  BY <1>4 DEF Walk
<1>7. longer[0] = t /\ longer[d + 1] = above.org
  BY <1>4 DEF Walk
<1>8. ASSUME NEW i \in 1..(d + 1)
      PROVE  longer[i] = up[longer[i - 1]]
  <2>1. CASE i = 1
    BY <1>4, <2>1 DEF Walk, IsWalk
  <2>2. CASE i > 1
    <3>1. longer[i] = path[i - 1] /\ longer[i - 1] = path[(i - 1) - 1] /\ i - 1 \in 1..d
      BY <2>2
    <3> QED
      BY <1>4, <3>1 DEF Walk, IsWalk
  <2> QED
    BY <2>1, <2>2
<1>9. Walk(up, t, longer, d + 1, above.org)
  <2> HIDE DEF longer
  <2> QED
    BY <1>6, <1>7, <1>8 DEF Walk, IsWalk
<1>10. above.org \in Lineage(up, t)
  <2>1. d + 1 \in Nat
    OBVIOUS
  <2> HIDE DEF longer
  <2> QED
    BY <1>9, <2>1, WalkInLineage
<1>11. Distance(up, t, above.org) <= MAX_HIERARCHY_DEPTH
  <2>0. d + 1 \in Nat
    OBVIOUS
  <2>1. Distance(up, t, above.org) \in Nat /\ Distance(up, t, above.org) <= d + 1
    <3> HIDE DEF longer
    <3> QED
      BY <1>9, <2>0, DistanceAtMost
  <2> QED
    BY <1>5, <2>1, DepthAssumption
<1>12. above.org \in EntitlingOrgs(up, given, u, permission, t)
  BY <1>2, <1>10, <1>11 DEF EntitlingOrgs
<1>13. found.allowed \in BOOLEAN
  BY CheckFacts DEF Results
<1> QED
  BY <1>12, <1>13, ClosestWins

\* Without a grant on the lineage a request is denied: a cycle or a chain that
\* never ends gives no one access ("the auth check fails closed").
THEOREM FailsClosed ==
    ASSUME NEW up \in Parents, NEW given, NEW u \in Users,
           NEW permission \in Permissions, NEW t \in Orgs,
           \A o \in Lineage(up, t) : ~GrantsPermission(given, u, permission, o)
    PROVE  CheckPermission(up, given, u, permission, t) = {Denied("no_matching_role_grant")}
<1>1. EntitlingOrgs(up, given, u, permission, t) = {}
  BY DEF EntitlingOrgs
<1>2. Decision(up, given, u, permission, t) = {Denied("no_matching_role_grant")}
  BY <1>1 DEF Decision
<1>3. CheckPermission(up, given, u, permission, t) = Decision(up, given, u, permission, t)
  BY CheckIsDecision
<1> QED
  BY <1>2, <1>3
=============================================================================
