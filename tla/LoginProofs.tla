---------------------------- MODULE LoginProofs ----------------------------
(***************************************************************************)
(* Proofs about Login for every set of accounts and attempts, every        *)
(* threshold, duration, pool size and clock bound.  The inductive          *)
(* invariant says what an attempt in flight may still write: the row it    *)
(* read is stale, but it was a row the table once held.                    *)
(***************************************************************************)
EXTENDS Login, TLAPS, FiniteSetTheorems

\* The row an attempt judges, and the time it judged it at.
PendingRead ==
    \A r \in Requests : Pending(r) =>
        /\ who[r] \in Users
        /\ at[r] <= now
        /\ ~IsLocked(seen[r], at[r])
        /\ seen[r].failed_login_count < LOCKOUT_THRESHOLD
        /\ seen[r].locked_until <= now + LOCKOUT_DURATION
        /\ seen[r].last_login_at # NULL => users[who[r]].last_login_at # NULL

\* Where an attempt stands tells what it has committed and recorded.
Progress ==
    \A r \in Requests :
        /\ r \in sessions => pc[r] \in {"granted", "200", "500"} /\ who[r] \in Users
        /\ r \in strikes => pc[r] \in {"struck", "401", "500"} /\ who[r] \in Users
        /\ pc[r] \in {"granted", "200"} => r \in sessions
        /\ pc[r] = "200" => audit[r] = "login.success"
        /\ pc[r] = "401" => audit[r] = "login.failed"
        /\ pc[r] = "423" => audit[r] = "login.locked"

\* Locks do not add up: none lasts longer than the flat duration from now.
LockBounded == \A u \in Users : users[u].locked_until <= now + LOCKOUT_DURATION

IInv ==
    /\ TypeOK
    /\ CountBelowThreshold
    /\ LockBounded
    /\ PendingRead
    /\ Progress
    /\ LoginAtomic

-----------------------------------------------------------------------------
(* What the two outcomes write over a row that was read as acceptable.     *)

LEMMA FailureRow ==
    ASSUME NEW row \in UserRow, NEW t \in Nat,
           row.failed_login_count < LOCKOUT_THRESHOLD
    PROVE  /\ AfterFailure(row, t) \in UserRow
           /\ AfterFailure(row, t).failed_login_count < LOCKOUT_THRESHOLD
           /\ AfterFailure(row, t).locked_until \in {row.locked_until, t + LOCKOUT_DURATION}
           /\ AfterFailure(row, t).last_login_at = row.last_login_at
<1>1. CASE row.failed_login_count + 1 >= LOCKOUT_THRESHOLD
  <2>1. AfterFailure(row, t) = [row EXCEPT !.failed_login_count = 0,
                                           !.locked_until = t + LOCKOUT_DURATION]
    BY <1>1 DEF AfterFailure
  <2>2. 0 < LOCKOUT_THRESHOLD /\ t + LOCKOUT_DURATION \in Nat
    BY ThresholdAssumption, DurationAssumption
  <2>3. \A d \in Nat : [row EXCEPT !.failed_login_count = 0, !.locked_until = d]
                           \in UserRow
    BY DEF UserRow, Timestamp
  <2>4. AfterFailure(row, t) \in UserRow
    BY <2>1, <2>2, <2>3
  <2> QED
    BY <2>1, <2>2, <2>4 DEF UserRow
<1>2. CASE ~(row.failed_login_count + 1 >= LOCKOUT_THRESHOLD)
  <2>1. AfterFailure(row, t) =
            [row EXCEPT !.failed_login_count = row.failed_login_count + 1]
    BY <1>2 DEF AfterFailure
  <2> QED
    BY <1>2, <2>1, ThresholdAssumption DEF UserRow, Timestamp
<1> QED
  BY <1>1, <1>2

LEMMA SuccessRow ==
    ASSUME NEW row \in UserRow, NEW t \in Nat
    PROVE  /\ AfterSuccess(row, t) \in UserRow
           /\ AfterSuccess(row, t).failed_login_count = 0
           /\ AfterSuccess(row, t).locked_until = NULL
           /\ AfterSuccess(row, t).last_login_at = t
BY DEF AfterSuccess, UserRow, Timestamp, NULL

\* Each column of a flushed row is the new value or the stored one, and it
\* is the stored one when the transaction did not change it.
LEMMA FlushRow ==
    ASSUME NEW stored \in UserRow, NEW read \in UserRow, NEW new \in UserRow
    PROVE  /\ Flush(stored, read, new) \in UserRow
           /\ Flush(stored, read, new).failed_login_count
                  \in {stored.failed_login_count, new.failed_login_count}
           /\ Flush(stored, read, new).locked_until
                  \in {stored.locked_until, new.locked_until}
           /\ read.locked_until = stored.locked_until =>
                  Flush(stored, read, new).locked_until = new.locked_until
           /\ Flush(stored, read, new).last_login_at =
                  IF new.last_login_at # read.last_login_at
                  THEN new.last_login_at ELSE stored.last_login_at
BY DEF Flush, Column, UserRow, Timestamp

-----------------------------------------------------------------------------
(* The invariant holds initially and is kept by every action.              *)

THEOREM InitIInv == Init => IInv
BY TimeAssumption, ThresholdAssumption, DurationAssumption
DEF Init, IInv, TypeOK, CountBelowThreshold, LockBounded, PendingRead, Pending,
    Progress, LoginAtomic, NewUser, UserRow, Timestamp, NULL, Clock, AuditActions,
    States, Answers

\* A decision that rejects: only the handler moves.
LEMMA RejectKeeps ==
    ASSUME IInv, NEW r \in Requests, NEW u \in Users \cup {NoUser},
           NEW outcome \in {"refused", "locked"},
           Begin(r, u), pc' = [pc EXCEPT ![r] = outcome],
           UNCHANGED <<seen, at>>, Undecided
    PROVE  IInv'
<1> USE DEF Begin, Undecided, IInv
<1>1. TypeOK'
  BY DEF TypeOK, States, Answers
<1>2. (CountBelowThreshold /\ LockBounded)'
  BY DEF CountBelowThreshold, LockBounded
<1>3. PendingRead'
  BY DEF PendingRead, Pending, TypeOK
<1>4. Progress'
  BY DEF Progress, TypeOK
<1>5. LoginAtomic'
  <2>1. r \notin sessions
    BY DEF Progress
  <2> QED
    BY <2>1 DEF LoginAtomic, TypeOK
<1> QED
  BY <1>1, <1>2, <1>3, <1>4, <1>5

LEMMA JudgeKeeps ==
    ASSUME IInv, NEW r \in Requests, NEW u \in Users,
           NEW verdict \in {"strike", "grant"}, Judge(r, u, verdict)
    PROVE  IInv'
<1> USE DEF Judge, Begin, Undecided, IInv
<1>1. TypeOK'
  BY DEF TypeOK, States, Answers
<1>2. (CountBelowThreshold /\ LockBounded)'
  BY DEF CountBelowThreshold, LockBounded
<1>3. PendingRead'
  BY DEF PendingRead, Pending, TypeOK, CountBelowThreshold, LockBounded, Clock,
         UserRow, Timestamp
<1>4. Progress'
  BY DEF Progress, TypeOK
<1>5. LoginAtomic'
  <2>1. r \notin sessions
    BY DEF Progress
  <2> QED
    BY <2>1 DEF LoginAtomic, TypeOK
<1> QED
  BY <1>1, <1>2, <1>3, <1>4, <1>5

\* The row an account has after a strike keeps the bounds and the stamp.
LEMMA StrikeRow ==
    ASSUME IInv, NEW r \in Requests, pc[r] = "strike",
           NEW row, row = Flush(users[who[r]], seen[r], AfterFailure(seen[r], at[r]))
    PROVE  /\ row \in UserRow
           /\ row.failed_login_count < LOCKOUT_THRESHOLD
           /\ row.locked_until <= now + LOCKOUT_DURATION
           /\ row.last_login_at = users[who[r]].last_login_at
<1> DEFINE u == who[r]
           new == AfterFailure(seen[r], at[r])
<1>1. /\ u \in Users /\ users[u] \in UserRow /\ seen[r] \in UserRow
      /\ at[r] \in Nat /\ now \in Nat /\ at[r] <= now
      /\ seen[r].failed_login_count < LOCKOUT_THRESHOLD
      /\ seen[r].locked_until <= now + LOCKOUT_DURATION
      /\ users[u].failed_login_count < LOCKOUT_THRESHOLD
      /\ users[u].locked_until <= now + LOCKOUT_DURATION
  BY DEF IInv, TypeOK, PendingRead, Pending, CountBelowThreshold, LockBounded, Clock
<1>2. /\ new \in UserRow
      /\ new.failed_login_count < LOCKOUT_THRESHOLD
      /\ new.locked_until \in {seen[r].locked_until, at[r] + LOCKOUT_DURATION}
      /\ new.last_login_at = seen[r].last_login_at
  BY <1>1, FailureRow
<1>3. new.locked_until <= now + LOCKOUT_DURATION
  BY <1>1, <1>2, DurationAssumption
<1>4. /\ row \in UserRow
      /\ row.failed_login_count \in {users[u].failed_login_count, new.failed_login_count}
      /\ row.locked_until \in {users[u].locked_until, new.locked_until}
      /\ row.last_login_at = IF new.last_login_at # seen[r].last_login_at
                             THEN new.last_login_at ELSE users[u].last_login_at
  <2> HIDE DEF new
  <2> QED
    BY <1>1, <1>2, FlushRow DEF new
<1> QED
  BY <1>1, <1>2, <1>3, <1>4

LEMMA StrikeKeeps ==
    ASSUME IInv, NEW r \in Requests, CommitStrike(r)
    PROVE  IInv'
<1> DEFINE u == who[r]
           new == AfterFailure(seen[r], at[r])
           row == Flush(users[u], seen[r], new)
<1>1. /\ pc[r] = "strike" /\ u \in Users
      /\ row \in UserRow
      /\ row.failed_login_count < LOCKOUT_THRESHOLD
      /\ row.locked_until <= now + LOCKOUT_DURATION
      /\ row.last_login_at = users[u].last_login_at
  BY StrikeRow DEF CommitStrike, IInv, PendingRead, Pending
<1>2. /\ users' = [users EXCEPT ![u] = row]
      /\ pc' = [pc EXCEPT ![r] = "struck"]
      /\ strikes' = strikes \cup {r}
      /\ UNCHANGED <<now, sessions, audit, who, seen, at>>
      /\ \E n \in {0, streak[u] + 1} : streak' = [streak EXCEPT ![u] = n]
  BY DEF CommitStrike
<1> HIDE DEF row, u
<1>3. TypeOK'
  BY <1>1, <1>2 DEF IInv, TypeOK, States
<1>4. (CountBelowThreshold /\ LockBounded)'
  BY <1>1, <1>2 DEF IInv, TypeOK, CountBelowThreshold, LockBounded
<1>5. PendingRead'
  BY <1>1, <1>2 DEF IInv, TypeOK, PendingRead, Pending
<1>6. Progress'
  BY <1>1, <1>2 DEF IInv, TypeOK, Progress, u
<1>7. LoginAtomic'
  BY <1>1, <1>2 DEF IInv, TypeOK, LoginAtomic
<1> QED
  BY <1>3, <1>4, <1>5, <1>6, <1>7 DEF IInv

\* The row an account has after a login carries a stamp.
LEMMA GrantRow ==
    ASSUME IInv, NEW r \in Requests, pc[r] = "grant",
           NEW row, row = Flush(users[who[r]], seen[r], AfterSuccess(seen[r], at[r]))
    PROVE  /\ row \in UserRow
           /\ row.failed_login_count < LOCKOUT_THRESHOLD
           /\ row.locked_until <= now + LOCKOUT_DURATION
           /\ row.last_login_at # NULL
           /\ row.last_login_at \in {at[r], users[who[r]].last_login_at}
<1> DEFINE u == who[r]
           new == AfterSuccess(seen[r], at[r])
<1>1. /\ u \in Users /\ users[u] \in UserRow /\ seen[r] \in UserRow
      /\ at[r] \in Nat /\ now \in Nat /\ at[r] # NULL
      /\ users[u].failed_login_count < LOCKOUT_THRESHOLD
      /\ users[u].locked_until <= now + LOCKOUT_DURATION
      /\ seen[r].last_login_at # NULL => users[u].last_login_at # NULL
  BY DEF IInv, TypeOK, PendingRead, Pending, CountBelowThreshold, LockBounded, Clock, NULL
<1>2. /\ new \in UserRow /\ new.failed_login_count = 0
      /\ new.locked_until = NULL /\ new.last_login_at = at[r]
  BY <1>1, SuccessRow
<1>3. 0 < LOCKOUT_THRESHOLD /\ NULL <= now + LOCKOUT_DURATION
  BY <1>1, ThresholdAssumption, DurationAssumption DEF NULL
<1>4. /\ row \in UserRow
      /\ row.failed_login_count \in {users[u].failed_login_count, new.failed_login_count}
      /\ row.locked_until \in {users[u].locked_until, new.locked_until}
      /\ row.last_login_at = IF new.last_login_at # seen[r].last_login_at
                             THEN new.last_login_at ELSE users[u].last_login_at
  <2> HIDE DEF new
  <2> QED
    BY <1>1, <1>2, FlushRow DEF new
<1> QED
  BY <1>1, <1>2, <1>3, <1>4

LEMMA GrantKeeps ==
    ASSUME IInv, NEW r \in Requests, CommitGrant(r)
    PROVE  IInv'
<1> DEFINE u == who[r]
           row == Flush(users[u], seen[r], AfterSuccess(seen[r], at[r]))
<1>1. /\ pc[r] = "grant" /\ u \in Users
      /\ row \in UserRow
      /\ row.failed_login_count < LOCKOUT_THRESHOLD
      /\ row.locked_until <= now + LOCKOUT_DURATION
      /\ row.last_login_at # NULL
      /\ row.last_login_at \in {at[r], users[u].last_login_at}
  BY GrantRow DEF CommitGrant, IInv, PendingRead, Pending
<1>2. /\ users' = [users EXCEPT ![u] = row]
      /\ pc' = [pc EXCEPT ![r] = "granted"]
      /\ sessions' = sessions \cup {r}
      /\ UNCHANGED <<now, audit, who, seen, at, strikes>>
      /\ streak' = [streak EXCEPT ![u] = 0]
  BY DEF CommitGrant
<1> HIDE DEF row, u
<1>3. TypeOK'
  BY <1>1, <1>2 DEF IInv, TypeOK, States
<1>4. (CountBelowThreshold /\ LockBounded)'
  BY <1>1, <1>2 DEF IInv, TypeOK, CountBelowThreshold, LockBounded
<1>5. PendingRead'
  BY <1>1, <1>2 DEF IInv, TypeOK, PendingRead, Pending
<1>6. Progress'
  BY <1>1, <1>2 DEF IInv, TypeOK, Progress, u
<1>7. LoginAtomic'
  <2>1. \A v \in Users : v # u =>
            /\ users'[v] = users[v]
            /\ {q \in sessions' : who'[q] = v} = {q \in sessions : who[q] = v}
    BY <1>1, <1>2 DEF IInv, TypeOK, u
  <2>2. \A v \in Users : v # u =>
            IF users'[v].last_login_at = NULL
            THEN {q \in sessions' : who'[q] = v} = {}
            ELSE \E q \in {q \in sessions' : who'[q] = v} : users'[v].last_login_at = at'[q]
    BY <1>2, <2>1 DEF IInv, LoginAtomic
  <2>3. users'[u].last_login_at # NULL
    BY <1>1, <1>2 DEF IInv, TypeOK
  <2>4. \E q \in {q \in sessions' : who'[q] = u} : users'[u].last_login_at = at'[q]
    BY <1>1, <1>2 DEF IInv, TypeOK, LoginAtomic, u
  <2> QED
    BY <2>2, <2>3, <2>4 DEF LoginAtomic
<1> QED
  BY <1>3, <1>4, <1>5, <1>6, <1>7 DEF IInv

LEMMA AuditKeeps ==
    ASSUME IInv, NEW r \in Requests, WriteAudit(r)
    PROVE  IInv'
<1> USE DEF IInv, WriteAudit
<1>1. AuditAction(pc[r]) \in AuditActions /\ Answer(pc[r]) \in {"401", "423", "200"}
  BY DEF AuditAction, Answer, AuditActions
<1>2. TypeOK'
  BY <1>1 DEF TypeOK, States, Answers
<1>3. (CountBelowThreshold /\ LockBounded /\ LoginAtomic)'
  BY DEF CountBelowThreshold, LockBounded, LoginAtomic
<1>4. PendingRead'
  BY <1>1 DEF PendingRead, Pending, TypeOK
<1>5. Progress'
  BY DEF Progress, TypeOK, AuditAction, Answer
<1> QED
  BY <1>2, <1>3, <1>4, <1>5

LEMMA ErrorKeeps ==
    ASSUME IInv, NEW r \in Requests, Error(r)
    PROVE  IInv'
<1> USE DEF IInv, Error
<1>1. TypeOK'
  BY DEF TypeOK, States, Answers
<1>2. (CountBelowThreshold /\ LockBounded /\ LoginAtomic)'
  BY DEF CountBelowThreshold, LockBounded, LoginAtomic
<1>3. PendingRead'
  BY DEF PendingRead, Pending, TypeOK
<1>4. Progress'
  BY DEF Progress, TypeOK
<1> QED
  BY <1>1, <1>2, <1>3, <1>4

LEMMA SetActiveKeeps ==
    ASSUME IInv, NEW u \in Users, SetActive(u)
    PROVE  IInv'
<1>1. /\ users' = [users EXCEPT ![u] = [users[u] EXCEPT !.is_active = ~users[u].is_active]]
      /\ UNCHANGED <<now, sessions, audit, pc, who, seen, at, strikes, streak>>
  BY DEF SetActive
<1>2. users[u] \in UserRow /\ [users[u] EXCEPT !.is_active = ~users[u].is_active] \in UserRow
  BY DEF IInv, TypeOK, UserRow
<1>3. \A v \in Users :
          /\ users'[v] \in UserRow
          /\ users'[v].failed_login_count = users[v].failed_login_count
          /\ users'[v].locked_until = users[v].locked_until
          /\ users'[v].last_login_at = users[v].last_login_at
  BY <1>1, <1>2 DEF IInv, TypeOK, UserRow
<1>4. TypeOK'
  BY <1>1, <1>2 DEF IInv, TypeOK
<1>5. (CountBelowThreshold /\ LockBounded /\ LoginAtomic)'
  BY <1>1, <1>3 DEF IInv, CountBelowThreshold, LockBounded, LoginAtomic
<1>6. PendingRead'
  BY <1>1, <1>3 DEF IInv, PendingRead, Pending
<1>7. Progress'
  BY <1>1 DEF IInv, Progress
<1> QED
  BY <1>4, <1>5, <1>6, <1>7 DEF IInv

LEMMA TickKeeps ==
    ASSUME IInv, Tick
    PROVE  IInv'
<1> USE DEF IInv, Tick
<1>1. TypeOK'
  BY TimeAssumption DEF TypeOK, Clock
<1>2. (CountBelowThreshold /\ LoginAtomic /\ Progress)'
  BY DEF CountBelowThreshold, LoginAtomic, Progress
<1>3. LockBounded'
  BY DurationAssumption DEF TypeOK, LockBounded, Clock, UserRow, Timestamp
<1>4. PendingRead'
  BY DurationAssumption DEF TypeOK, PendingRead, Pending, Clock, UserRow, Timestamp
<1> QED
  BY <1>1, <1>2, <1>3, <1>4

\* Every step of the system keeps the invariant.
THEOREM NextKeeps == IInv /\ [Next]_vars => IInv'
<1> SUFFICES ASSUME IInv, [Next]_vars
             PROVE  IInv'
  OBVIOUS
<1>1. ASSUME NEW r \in Requests, RejectUnknown(r)
      PROVE  IInv'
  BY <1>1, RejectKeeps DEF RejectUnknown
<1>2. ASSUME NEW r \in Requests, NEW u \in Users, RejectInactive(r, u)
      PROVE  IInv'
  BY <1>2, RejectKeeps DEF RejectInactive
<1>3. ASSUME NEW r \in Requests, NEW u \in Users, RejectLocked(r, u)
      PROVE  IInv'
  BY <1>3, RejectKeeps DEF RejectLocked
<1>4. ASSUME NEW r \in Requests, NEW u \in Users, JudgeWrong(r, u) \/ JudgeRight(r, u)
      PROVE  IInv'
  BY <1>4, JudgeKeeps DEF JudgeWrong, JudgeRight
<1>5. ASSUME NEW r \in Requests, Continue(r) \/ Error(r)
      PROVE  IInv'
  BY <1>5, StrikeKeeps, GrantKeeps, AuditKeeps, ErrorKeeps DEF Continue
<1>6. ASSUME NEW u \in Users, SetActive(u)
      PROVE  IInv'
  BY <1>6, SetActiveKeeps
<1>7. CASE Tick
  BY <1>7, TickKeeps
<1>8. CASE UNCHANGED vars
  BY <1>8 DEF vars, IInv, TypeOK, CountBelowThreshold, LockBounded, PendingRead, Pending,
              Progress, LoginAtomic
<1> QED
  BY <1>1, <1>2, <1>3, <1>4, <1>5, <1>6, <1>7, <1>8 DEF Next, Decide

-----------------------------------------------------------------------------
(* The theorems.                                                           *)

\* The invariant holds in every reachable state.
THEOREM Invariance == Spec => []IInv
BY InitIInv, NextKeeps, PTL DEF Spec

\* Tables and handler states keep their types.
THEOREM TypeCorrect == Spec => []TypeOK
BY Invariance, PTL DEF IInv

\* A stored failed_login_count stays below LOCKOUT_THRESHOLD, whatever the
\* number of overlapping attempts.
THEOREM CounterBounded == Spec => []CountBelowThreshold
BY Invariance, PTL DEF IInv

\* No lock ends later than LOCKOUT_DURATION from now.
THEOREM LocksBounded == Spec => []LockBounded
BY Invariance, PTL DEF IInv

\* A login stamps the account exactly when it leaves a session.
THEOREM LoginsAtomic == Spec => []LoginAtomic
BY Invariance, PTL DEF IInv

\* An answer other than 500 is on record as what it was.
THEOREM AuditFaithful == Spec => []AuditMatchesAnswer
<1>1. IInv => AuditMatchesAnswer
  BY DEF IInv, Progress, AuditMatchesAnswer
<1> QED
  BY <1>1, Invariance, PTL

\* A lock in force is shortened only by an attempt that had read the row
\* before the lock was stored.
THEOREM LocksKept == Spec => LockKept
<1> DEFINE Kept == \A u \in Users :
        (users[u].locked_until > now /\ users'[u].locked_until < users[u].locked_until)
        => \E r \in Requests :
              /\ pc[r] \in {"strike", "grant"} /\ pc'[r] # pc[r]
              /\ who[r] = u
              /\ seen[r].locked_until # users[u].locked_until
<1>1. ASSUME IInv, [Next]_vars
      PROVE  [Kept]_vars
  <2> SUFFICES ASSUME NEW u \in Users, users[u].locked_until > now,
                      users'[u].locked_until < users[u].locked_until
               PROVE  \E r \in Requests :
                        /\ pc[r] \in {"strike", "grant"} /\ pc'[r] # pc[r]
                        /\ who[r] = u
                        /\ seen[r].locked_until # users[u].locked_until
    OBVIOUS
  <2>1. users'[u].locked_until # users[u].locked_until
    BY <1>1 DEF IInv, TypeOK, UserRow, Timestamp
  <2>2. PICK r \in Requests : CommitStrike(r) \/ CommitGrant(r)
    <3>1. ASSUME NEW v \in Users, SetActive(v)
          PROVE  users'[u].locked_until = users[u].locked_until
      BY <1>1, <3>1 DEF SetActive, IInv, TypeOK, UserRow
    <3> QED
      BY <1>1, <2>1, <3>1 DEF Next, Decide, Continue, RejectUnknown, RejectInactive,
           RejectLocked, JudgeWrong, JudgeRight, Judge, Undecided, WriteAudit, Error,
           Tick, vars
  <2>3. /\ pc[r] \in {"strike", "grant"} /\ pc'[r] # pc[r] /\ who[r] \in Users
        /\ \A v \in Users \ {who[r]} : users'[v] = users[v]
    BY <1>1, <2>2 DEF CommitStrike, CommitGrant, IInv, TypeOK, PendingRead, Pending
  <2>4. who[r] = u
    BY <2>1, <2>3
  <2>5. seen[r].locked_until <= now
    BY <1>1, <2>3 DEF IInv, TypeOK, PendingRead, Pending, IsLocked, UserRow, Timestamp,
                      Clock, NULL
  <2>6. seen[r].locked_until # users[u].locked_until
    BY <1>1, <2>3, <2>5 DEF IInv, TypeOK, UserRow, Timestamp, Clock
  <2> QED
    BY <2>3, <2>4, <2>6
<1> QED
  BY <1>1, Invariance, PTL DEF Spec, LockKept

-----------------------------------------------------------------------------
(* LockEarned: a counter, stored or read, never exceeds the number of       *)
(* strikes that were committed for its account.                             *)

Earned(row, n) ==
    /\ row.failed_login_count <= n
    /\ row.locked_until # NULL => LOCKOUT_THRESHOLD <= n

Counted ==
    /\ \A u \in Users : Earned(users[u], Cardinality(StrikesOf(u)))
    /\ \A r \in Requests : Pending(r) => Earned(seen[r], Cardinality(StrikesOf(who[r])))

LEMMA StrikesFinite ==
    ASSUME IInv, NEW u
    PROVE  IsFiniteSet(StrikesOf(u)) /\ Cardinality(StrikesOf(u)) \in Nat
<1>1. StrikesOf(u) \subseteq Requests
  BY DEF IInv, TypeOK, StrikesOf
<1> QED
  BY <1>1, RequestsAssumption, FS_Subset, FS_CardinalityType

\* A strike adds one to its account and nothing to any other.
LEMMA StrikeCounts ==
    ASSUME IInv, NEW r \in Requests, CommitStrike(r), NEW v
    PROVE  Cardinality(StrikesOf(v)') =
               IF v = who[r] THEN Cardinality(StrikesOf(v)) + 1
                             ELSE Cardinality(StrikesOf(v))
<1>1. r \notin strikes /\ strikes' = strikes \cup {r} /\ who' = who
  BY DEF CommitStrike, IInv, Progress
<1>2. CASE v = who[r]
  <2>1. StrikesOf(v)' = StrikesOf(v) \cup {r} /\ r \notin StrikesOf(v)
    BY <1>1, <1>2 DEF StrikesOf
  <2> QED
    BY <1>2, <2>1, StrikesFinite, FS_AddElement
<1>3. CASE v # who[r]
  <2>1. StrikesOf(v)' = StrikesOf(v)
    BY <1>1, <1>3 DEF StrikesOf
  <2> QED
    BY <1>3, <2>1
<1> QED
  BY <1>2, <1>3

LEMMA StrikeKeepsCounted ==
    ASSUME IInv, Counted, NEW r \in Requests, CommitStrike(r)
    PROVE  Counted'
<1>0. PICK u \in Users : u = who[r]
  BY DEF IInv, PendingRead, Pending, CommitStrike
<1> DEFINE n == Cardinality(StrikesOf(u))
           new == AfterFailure(seen[r], at[r])
           row == Flush(users[u], seen[r], new)
<1>1. /\ users[u] \in UserRow /\ seen[r] \in UserRow /\ at[r] \in Nat
      /\ Earned(users[u], n) /\ Earned(seen[r], n) /\ n \in Nat
      /\ seen[r].failed_login_count < LOCKOUT_THRESHOLD
  BY <1>0, StrikesFinite
  DEF IInv, TypeOK, PendingRead, Pending, Clock, Counted, CommitStrike
<1>2. new \in UserRow /\ Earned(new, n + 1)
  <2>1. /\ new \in UserRow
        /\ IF seen[r].failed_login_count + 1 >= LOCKOUT_THRESHOLD
           THEN new.failed_login_count = 0
           ELSE /\ new.failed_login_count = seen[r].failed_login_count + 1
                /\ new.locked_until = seen[r].locked_until
    BY <1>1, FailureRow DEF AfterFailure, UserRow
  <2>2. seen[r].failed_login_count \in Nat /\ LOCKOUT_THRESHOLD \in Nat
    BY <1>1, ThresholdAssumption DEF UserRow
  <2> HIDE DEF new, n
  <2> QED
    BY <1>1, <2>1, <2>2 DEF Earned
<1>3. Earned(row, n + 1)
  <2>1. /\ row.failed_login_count \in {users[u].failed_login_count, new.failed_login_count}
        /\ row.locked_until \in {users[u].locked_until, new.locked_until}
    <3> HIDE DEF new
    <3> QED
      BY <1>1, <1>2, FlushRow
  <2>2. /\ users[u].failed_login_count \in Nat /\ new.failed_login_count \in Nat
        /\ LOCKOUT_THRESHOLD \in Nat
    BY <1>1, <1>2, ThresholdAssumption DEF UserRow
  <2> HIDE DEF row, new, n
  <2> QED
    BY <1>1, <1>2, <2>1, <2>2 DEF Earned
<1>4. /\ users' = [users EXCEPT ![u] = row]
      /\ pc' = [pc EXCEPT ![r] = "struck"]
      /\ UNCHANGED <<who, seen>>
  BY <1>0 DEF CommitStrike
<1>5. \A v : Cardinality(StrikesOf(v)') =
                IF v = u THEN n + 1 ELSE Cardinality(StrikesOf(v))
  BY <1>0, StrikeCounts
<1> HIDE DEF row, n
<1>6. ASSUME NEW v \in Users
      PROVE  Earned(users'[v], Cardinality(StrikesOf(v)'))
  <2>1. users'[v] = IF v = u THEN row ELSE users[v]
    BY <1>4 DEF IInv, TypeOK
  <2> QED
    BY <1>3, <1>5, <2>1 DEF Counted
<1>7. ASSUME NEW q \in Requests, Pending(q)'
      PROVE  Earned(seen'[q], Cardinality(StrikesOf(who[q])'))
  <2>1. PICK v \in Users : v = who[q] /\ who'[q] = who[q] /\ seen'[q] = seen[q]
    BY <1>4, <1>7 DEF IInv, TypeOK, Pending, PendingRead
  <2>2. Pending(q) /\ seen[q] \in UserRow /\ Earned(seen[q], Cardinality(StrikesOf(v)))
    BY <1>4, <1>7, <2>1 DEF IInv, TypeOK, Pending, Counted
  <2>3. StrikesOf(who[q])' = StrikesOf(v)'
    BY <1>4, <2>1 DEF StrikesOf
  <2>4. CASE v = u
    <3>1. Cardinality(StrikesOf(v)') = n + 1 /\ Earned(seen[q], n)
      BY <1>5, <2>2, <2>4 DEF n
    <3>2. /\ seen[q].failed_login_count \in Nat /\ LOCKOUT_THRESHOLD \in Nat
          /\ n \in Nat
      BY <1>1, <2>2, ThresholdAssumption DEF UserRow
    <3> QED
      BY <2>1, <2>3, <3>1, <3>2 DEF Earned
  <2>5. CASE v # u
    BY <1>5, <2>1, <2>2, <2>3, <2>5
  <2> QED
    BY <2>4, <2>5
<1> QED
  BY <1>6, <1>7 DEF Counted

LEMMA GrantKeepsCounted ==
    ASSUME IInv, Counted, NEW r \in Requests, CommitGrant(r)
    PROVE  Counted'
<1> DEFINE u == who[r]
           new == AfterSuccess(seen[r], at[r])
           row == Flush(users[u], seen[r], new)
<1>1. /\ u \in Users /\ users[u] \in UserRow /\ seen[r] \in UserRow /\ at[r] \in Nat
      /\ Earned(users[u], Cardinality(StrikesOf(u)))
      /\ Cardinality(StrikesOf(u)) \in Nat
  BY StrikesFinite DEF IInv, TypeOK, PendingRead, Pending, Clock, Counted, CommitGrant
<1>2. /\ row.failed_login_count \in {users[u].failed_login_count, 0}
      /\ row.locked_until \in {users[u].locked_until, NULL}
  <2>1. new \in UserRow /\ new.failed_login_count = 0 /\ new.locked_until = NULL
    BY <1>1, SuccessRow
  <2> HIDE DEF new
  <2> QED
    BY <1>1, <2>1, FlushRow
<1>3. Earned(row, Cardinality(StrikesOf(u)))
  BY <1>1, <1>2 DEF Earned
<1>4. /\ users' = [users EXCEPT ![u] = row]
      /\ pc' = [pc EXCEPT ![r] = "granted"]
      /\ UNCHANGED <<who, seen, strikes>>
  BY DEF CommitGrant
<1> HIDE DEF row, u
<1>5. \A v : StrikesOf(v)' = StrikesOf(v)
  BY <1>4 DEF StrikesOf
<1>6. \A v \in Users : Earned(users[v], Cardinality(StrikesOf(v)))'
  BY <1>1, <1>3, <1>4, <1>5 DEF IInv, TypeOK, Counted, Earned
<1>7. \A q \in Requests : Pending(q)' => Earned(seen[q], Cardinality(StrikesOf(who[q])))'
  BY <1>4, <1>5 DEF IInv, TypeOK, Pending, Counted, Earned
<1> QED
  BY <1>6, <1>7 DEF Counted

\* Every step keeps the count.
LEMMA NextKeepsCounted == IInv /\ Counted /\ [Next]_vars => Counted'
<1> SUFFICES ASSUME IInv, Counted, [Next]_vars
             PROVE  Counted'
  OBVIOUS
<1>1. ASSUME NEW r \in Requests, CommitStrike(r)
      PROVE  Counted'
  BY <1>1, StrikeKeepsCounted
<1>2. ASSUME NEW r \in Requests, CommitGrant(r)
      PROVE  Counted'
  BY <1>2, GrantKeepsCounted
<1>3. ASSUME NEW r \in Requests, NEW u \in Users, JudgeWrong(r, u) \/ JudgeRight(r, u)
      PROVE  Counted'
  <2>1. \A v : StrikesOf(v)' = {q \in strikes : who'[q] = v}
    BY <1>3 DEF JudgeWrong, JudgeRight, Judge, Undecided, StrikesOf
  <2>2. r \notin strikes
    BY <1>3 DEF JudgeWrong, JudgeRight, Judge, Begin, IInv, Progress
  <2>3. \A v : StrikesOf(v)' = StrikesOf(v)
    BY <1>3, <2>1, <2>2 DEF JudgeWrong, JudgeRight, Judge, Begin, IInv, TypeOK, StrikesOf
  <2> QED
    BY <1>3, <2>3 DEF JudgeWrong, JudgeRight, Judge, Begin, Undecided, IInv, TypeOK,
                      Counted, Earned, Pending
<1>4. ASSUME NEW r \in Requests, NEW u \in Users \cup {NoUser}, Begin(r, u),
             NEW outcome \in {"refused", "locked"}, pc' = [pc EXCEPT ![r] = outcome],
             UNCHANGED seen, Undecided
      PROVE  Counted'
  <2>1. r \notin strikes
    BY <1>4 DEF Begin, IInv, Progress
  <2>2. \A v : StrikesOf(v)' = StrikesOf(v)
    BY <1>4, <2>1 DEF Begin, Undecided, IInv, TypeOK, StrikesOf
  <2> QED
    BY <1>4, <2>2 DEF Begin, Undecided, IInv, TypeOK, Counted, Earned, Pending
<1>5. ASSUME NEW r \in Requests, WriteAudit(r) \/ Error(r)
      PROVE  Counted'
  <2>1. UNCHANGED <<users, who, seen, strikes>> /\ \A q \in Requests : Pending(q)' => Pending(q)
    BY <1>5 DEF WriteAudit, Error, Pending, Answer, IInv, TypeOK
  <2> QED
    BY <2>1 DEF Counted, Earned, StrikesOf
<1>6. ASSUME NEW u \in Users, SetActive(u)
      PROVE  Counted'
  <2>1. /\ UNCHANGED <<pc, who, seen, strikes>>
        /\ \A v \in Users : /\ users'[v].failed_login_count = users[v].failed_login_count
                            /\ users'[v].locked_until = users[v].locked_until
    BY <1>6 DEF SetActive, IInv, TypeOK, UserRow
  <2> QED
    BY <2>1 DEF Counted, Earned, StrikesOf, Pending
<1>7. CASE Tick \/ UNCHANGED vars
  BY <1>7 DEF Tick, vars, Counted, Earned, StrikesOf, Pending
<1> QED
  BY <1>1, <1>2, <1>3, <1>4, <1>5, <1>6, <1>7
  DEF Next, Decide, Continue, RejectUnknown, RejectInactive, RejectLocked

\* A locked account got at least LOCKOUT_THRESHOLD wrong passwords.
THEOREM LocksEarned == Spec => []LockEarned
<1>1. Init => Counted
  <2> SUFFICES ASSUME Init
               PROVE  Counted
    OBVIOUS
  <2>1. \A v : Cardinality(StrikesOf(v)) = 0
    <3>1. \A v : StrikesOf(v) = {}
      BY DEF Init, StrikesOf
    <3> QED
      BY <3>1, FS_EmptySet
  <2>2. Earned(NewUser, 0)
    BY DEF Earned, NewUser, NULL
  <2>3. /\ \A u \in Users : users[u] = NewUser
        /\ \A r \in Requests : ~Pending(r)
    BY DEF Init, Pending
  <2> QED
    BY <2>1, <2>2, <2>3 DEF Counted
<1>2. IInv /\ Counted => LockEarned
  BY StrikesFinite, ThresholdAssumption DEF Counted, Earned, LockEarned
<1> QED
  BY <1>1, <1>2, NextKeepsCounted, Invariance, PTL DEF Spec

-----------------------------------------------------------------------------
(* Refinement: where no two attempts on one account overlap, the row that  *)
(* an attempt judged is the row stored when it commits, and Login          *)
(* implements LockoutPolicy.                                               *)

Fresh ==
    /\ \A r \in Requests : Pending(r) =>
          /\ seen[r].failed_login_count = users[who[r]].failed_login_count
          /\ seen[r].locked_until = users[who[r]].locked_until
    /\ \A u \in Users : streak[u] = users[u].failed_login_count

\* What a strike does to the account of an attempt that read it fresh.
LEMMA FreshStrike ==
    ASSUME IInv, Fresh, NEW r \in Requests, NEW u \in Users, u = who[r], CommitStrike(r)
    PROVE  /\ users[u].locked_until <= at[r]
           /\ IF streak[u] + 1 >= LOCKOUT_THRESHOLD
              THEN /\ users'[u].failed_login_count = 0
                   /\ users'[u].locked_until = at[r] + LOCKOUT_DURATION
                   /\ streak'[u] = 0
              ELSE /\ users'[u].failed_login_count = streak[u] + 1
                   /\ users'[u].locked_until = users[u].locked_until
                   /\ streak'[u] = streak[u] + 1
           /\ streak' = [streak EXCEPT ![u] = streak'[u]]
           /\ \A v \in Users : v # u => users'[v] = users[v]
<1> DEFINE new == AfterFailure(seen[r], at[r])
<1>1. /\ pc[r] = "strike" /\ Pending(r)
      /\ users[u] \in UserRow /\ seen[r] \in UserRow /\ at[r] \in Nat /\ at[r] # 0
      /\ seen[r].failed_login_count = users[u].failed_login_count
      /\ seen[r].locked_until = users[u].locked_until
      /\ streak[u] = users[u].failed_login_count
      /\ ~IsLocked(seen[r], at[r])
      /\ seen[r].failed_login_count < LOCKOUT_THRESHOLD
  BY DEF IInv, TypeOK, Fresh, PendingRead, Pending, CommitStrike, Clock
<1>2. users[u].locked_until <= at[r]
  BY <1>1 DEF IsLocked, UserRow, Timestamp, NULL
<1>3. /\ new \in UserRow
      /\ IF streak[u] + 1 >= LOCKOUT_THRESHOLD
         THEN /\ new.failed_login_count = 0
              /\ new.locked_until = at[r] + LOCKOUT_DURATION
         ELSE /\ new.failed_login_count = streak[u] + 1
              /\ new.locked_until = seen[r].locked_until
  BY <1>1, FailureRow DEF AfterFailure, UserRow
<1>4. /\ users' = [users EXCEPT ![u] = Flush(users[u], seen[r], new)]
      /\ streak' = [streak EXCEPT ![u] =
             IF new.locked_until # seen[r].locked_until THEN 0 ELSE streak[u] + 1]
  BY DEF CommitStrike
<1> HIDE DEF new
<1>5. /\ Flush(users[u], seen[r], new).failed_login_count = new.failed_login_count
      /\ Flush(users[u], seen[r], new).locked_until = new.locked_until
  BY <1>1 DEF Flush, Column
<1>6. at[r] + LOCKOUT_DURATION # seen[r].locked_until
  BY <1>1, <1>2, DurationAssumption DEF UserRow, Timestamp
<1>7. streak'[u] = IF new.locked_until # seen[r].locked_until THEN 0 ELSE streak[u] + 1
  BY <1>4 DEF IInv, TypeOK
<1>8. users'[u] = Flush(users[u], seen[r], new) /\ \A v \in Users : v # u => users'[v] = users[v]
  BY <1>4 DEF IInv, TypeOK
<1>9. streak' = [streak EXCEPT ![u] = streak'[u]]
  BY <1>4, <1>7
<1> QED
  BY <1>1, <1>2, <1>3, <1>5, <1>6, <1>7, <1>8, <1>9

LEMMA FreshGrant ==
    ASSUME IInv, Fresh, NEW r \in Requests, NEW u \in Users, u = who[r], CommitGrant(r)
    PROVE  /\ users[u].locked_until <= at[r]
           /\ users'[u].failed_login_count = 0
           /\ users'[u].locked_until = 0
           /\ streak' = [streak EXCEPT ![u] = 0]
           /\ \A v \in Users : v # u => users'[v] = users[v]
<1> DEFINE new == AfterSuccess(seen[r], at[r])
<1>1. /\ users[u] \in UserRow /\ seen[r] \in UserRow /\ at[r] \in Nat
      /\ seen[r].failed_login_count = users[u].failed_login_count
      /\ seen[r].locked_until = users[u].locked_until
      /\ ~IsLocked(seen[r], at[r])
  BY DEF IInv, TypeOK, Fresh, PendingRead, Pending, CommitGrant, Clock
<1>2. users[u].locked_until <= at[r]
  BY <1>1 DEF IsLocked, UserRow, Timestamp, NULL
<1>3. new \in UserRow /\ new.failed_login_count = 0 /\ new.locked_until = 0
  BY <1>1, SuccessRow DEF NULL
<1>4. /\ users' = [users EXCEPT ![u] = Flush(users[u], seen[r], new)]
      /\ streak' = [streak EXCEPT ![u] = 0]
  BY DEF CommitGrant
<1> HIDE DEF new
<1>5. /\ Flush(users[u], seen[r], new).failed_login_count = new.failed_login_count
      /\ Flush(users[u], seen[r], new).locked_until = new.locked_until
  BY <1>1 DEF Flush, Column
<1>6. users'[u] = Flush(users[u], seen[r], new) /\ \A v \in Users : v # u => users'[v] = users[v]
  BY <1>4 DEF IInv, TypeOK
<1> QED
  BY <1>2, <1>3, <1>4, <1>5, <1>6

\* Every step keeps what is judged fresh: a commit on the account of an attempt
\* in flight would overlap it.
LEMMA NextKeepsFresh ==
    ASSUME IInv, NoOverlap, Fresh, [Next]_vars
    PROVE  Fresh'
<1>1. ASSUME NEW r \in Requests, CommitStrike(r) \/ CommitGrant(r)
      PROVE  Fresh'
  <2>1. PICK u \in Users : u = who[r]
    BY <1>1 DEF CommitStrike, CommitGrant, IInv, PendingRead, Pending
  <2>2. /\ streak'[u] = users'[u].failed_login_count
        /\ \A v \in Users : v # u => users'[v] = users[v] /\ streak'[v] = streak[v]
    <3>1. CASE CommitStrike(r)
      <4>1. streak' = [streak EXCEPT ![u] = streak'[u]]
        BY <2>1, <3>1, FreshStrike
      <4>2. \A v \in Users : v # u => streak'[v] = streak[v]
        BY <4>1 DEF IInv, TypeOK
      <4> QED
        BY <2>1, <3>1, <4>2, FreshStrike
    <3>2. CASE CommitGrant(r)
      BY <2>1, <3>2, FreshGrant DEF IInv, TypeOK
    <3> QED
      BY <1>1, <3>1, <3>2
  <2>3. /\ Pending(r) /\ UNCHANGED <<who, seen>>
        /\ \A q \in Requests : Pending(q)' => q # r /\ Pending(q)
    BY <1>1 DEF CommitStrike, CommitGrant, Pending, IInv, TypeOK
  <2>4. \A q \in Requests : Pending(q)' => who[q] \in Users /\ who[q] # u
    BY <2>1, <2>3 DEF NoOverlap, IInv, PendingRead
  <2> QED
    BY <2>2, <2>3, <2>4 DEF Fresh
<1>2. ASSUME NEW r \in Requests, NEW u \in Users \cup {NoUser}, Begin(r, u),
             NEW outcome \in InTransaction, pc' = [pc EXCEPT ![r] = outcome],
             IF outcome \in {"strike", "grant"}
             THEN u \in Users /\ seen' = [seen EXCEPT ![r] = users[u]]
             ELSE UNCHANGED seen,
             Undecided
      PROVE  Fresh'
  <2>1. \A q \in Requests : q # r => pc'[q] = pc[q] /\ who'[q] = who[q] /\ seen'[q] = seen[q]
    BY <1>2 DEF Begin, IInv, TypeOK
  <2>2. /\ pc'[r] = outcome /\ who'[r] = u
        /\ outcome \in {"strike", "grant"} => seen'[r] = users[u]
    BY <1>2 DEF Begin, IInv, TypeOK
  <2>3. \A q \in Requests : Pending(q)' =>
            /\ users[who'[q]].failed_login_count = seen'[q].failed_login_count
            /\ users[who'[q]].locked_until = seen'[q].locked_until
    <3> TAKE q \in Requests
    <3>1. CASE q = r
      BY <2>2, <3>1 DEF Pending
    <3>2. CASE q # r
      <4>1. Pending(q)' <=> Pending(q)
        BY <2>1, <3>2 DEF Pending
      <4> QED
        BY <2>1, <3>2, <4>1 DEF Fresh
    <3> QED
      BY <3>1, <3>2
  <2> QED
    BY <1>2, <2>3 DEF Fresh, Undecided
<1>3. ASSUME NEW r \in Requests, WriteAudit(r) \/ Error(r)
      PROVE  Fresh'
  <2>1. UNCHANGED <<users, who, seen, streak>>
    BY <1>3 DEF WriteAudit, Error
  <2>2. \A q \in Requests : Pending(q)' => Pending(q)
    BY <1>3 DEF WriteAudit, Error, Answer, Pending, IInv, TypeOK
  <2> QED
    BY <2>1, <2>2 DEF Fresh
<1>4. ASSUME NEW u \in Users, SetActive(u)
      PROVE  Fresh'
  <2>1. /\ UNCHANGED <<pc, who, seen, streak>>
        /\ \A v \in Users : /\ users'[v].failed_login_count = users[v].failed_login_count
                            /\ users'[v].locked_until = users[v].locked_until
    BY <1>4 DEF SetActive, IInv, TypeOK, UserRow
  <2> QED
    BY <2>1 DEF Fresh, Pending, IInv, PendingRead
<1>5. CASE Tick \/ UNCHANGED vars
  BY <1>5 DEF Tick, vars, Fresh, Pending
<1>6. ASSUME NEW r \in Requests, Decide(r)
      PROVE  Fresh'
  <2>1. CASE RejectUnknown(r)
    BY <1>2, <2>1 DEF RejectUnknown, InTransaction
  <2>2. ASSUME NEW u \in Users, RejectInactive(r, u) \/ RejectLocked(r, u)
        PROVE  Fresh'
    BY <1>2, <2>2 DEF RejectInactive, RejectLocked, InTransaction
  <2>3. ASSUME NEW u \in Users, JudgeWrong(r, u) \/ JudgeRight(r, u)
        PROVE  Fresh'
    BY <1>2, <2>3 DEF JudgeWrong, JudgeRight, Judge, InTransaction
  <2> QED
    BY <1>6, <2>1, <2>2, <2>3 DEF Decide
<1> QED
  BY <1>1, <1>3, <1>4, <1>5, <1>6 DEF Next, Continue

\* A commit is a Miss or a Hit judged at the time the attempt took, the clock
\* is the policy's clock, and every other step leaves the policy alone.
LEMMA StepRefines ==
    ASSUME IInv, Fresh, [Next]_vars
    PROVE  [Policy!Next]_<<now, streak, [u \in Users |-> users[u].locked_until]>>
<1> DEFINE until == [u \in Users |-> users[u].locked_until]
<1>1. ASSUME NEW r \in Requests, CommitStrike(r)
      PROVE  Policy!Next
  <2>1. PICK u \in Users : u = who[r]
    BY <1>1 DEF CommitStrike, IInv, PendingRead, Pending
  <2>2. at[r] \in 1..now /\ now' = now
    BY <1>1 DEF CommitStrike, IInv, TypeOK, PendingRead, Pending, Clock
  <2>3. Policy!Miss(u, at[r])
    <3>1. CASE streak[u] + 1 >= LOCKOUT_THRESHOLD
      <4>1. /\ users[u].locked_until <= at[r]
            /\ users'[u].locked_until = at[r] + LOCKOUT_DURATION
            /\ streak' = [streak EXCEPT ![u] = 0]
            /\ \A v \in Users : v # u => users'[v] = users[v]
        BY <1>1, <2>1, <3>1, FreshStrike
      <4>2. until' = [until EXCEPT ![u] = at[r] + LOCKOUT_DURATION]
        BY <4>1
      <4> QED
        BY <2>2, <3>1, <4>1, <4>2 DEF Policy!Miss
    <3>2. CASE ~(streak[u] + 1 >= LOCKOUT_THRESHOLD)
      <4>1. /\ users[u].locked_until <= at[r]
            /\ users'[u].locked_until = users[u].locked_until
            /\ streak' = [streak EXCEPT ![u] = streak[u] + 1]
            /\ \A v \in Users : v # u => users'[v] = users[v]
        BY <1>1, <2>1, <3>2, FreshStrike
      <4>2. until' = until
        BY <4>1
      <4> QED
        BY <2>2, <3>2, <4>1, <4>2 DEF Policy!Miss
    <3> QED
      BY <3>1, <3>2
  <2> QED
    BY <2>2, <2>3 DEF Policy!Next, Policy!Miss
<1>2. ASSUME NEW r \in Requests, CommitGrant(r)
      PROVE  Policy!Next
  <2>1. PICK u \in Users : u = who[r]
    BY <1>2 DEF CommitGrant, IInv, PendingRead, Pending
  <2>2. at[r] \in 1..now /\ now' = now
    BY <1>2 DEF CommitGrant, IInv, TypeOK, PendingRead, Pending, Clock
  <2>3. /\ users[u].locked_until <= at[r]
        /\ users'[u].locked_until = 0
        /\ streak' = [streak EXCEPT ![u] = 0]
        /\ \A v \in Users : v # u => users'[v] = users[v]
    BY <1>2, <2>1, FreshGrant
  <2>4. until' = [until EXCEPT ![u] = 0]
    BY <2>3
  <2> QED
    BY <2>2, <2>3, <2>4 DEF Policy!Next, Policy!Hit
<1>3. CASE Tick
  BY <1>3 DEF Tick, Policy!Next, Policy!Tick
<1>4. ASSUME NEW u \in Users, SetActive(u)
      PROVE  UNCHANGED <<now, streak, until>>
  BY <1>4 DEF SetActive, IInv, TypeOK, UserRow
<1>5. ASSUME NEW r \in Requests, Decide(r) \/ WriteAudit(r) \/ Error(r)
      PROVE  UNCHANGED <<now, streak, until>>
  BY <1>5 DEF Decide, RejectUnknown, RejectInactive, RejectLocked, JudgeWrong, JudgeRight,
              Judge, Undecided, WriteAudit, Error
<1>6. CASE UNCHANGED vars
  BY <1>6 DEF vars
<1> QED
  BY <1>1, <1>2, <1>3, <1>4, <1>5, <1>6 DEF Next, Continue

LEMMA InitFresh == Init => Fresh
BY DEF Init, Fresh, Pending, NewUser

\* While no two attempts on one account overlap, accounts follow the policy of the
\* docstring (login.py:7-11), whatever the attempts on other accounts do.
THEOREM ApartRefinement == Spec /\ []NoOverlap => PolicySpec
<1>1. Init => Policy!Init
  BY DEF Init, Policy!Init, NewUser, NULL
<1>2. IInv /\ NoOverlap /\ Fresh /\ [Next]_vars => Fresh'
  BY NextKeepsFresh
<1>3. IInv /\ Fresh /\ [Next]_vars =>
          [Policy!Next]_<<now, streak, [u \in Users |-> users[u].locked_until]>>
  BY StepRefines
<1> QED
  BY <1>1, <1>2, <1>3, InitFresh, Invariance, PTL DEF Spec, PolicySpec, Policy!Spec

\* "5 failed attempts in a row -> lock" (login.py:8): while no two attempts on one
\* account overlap, a threshold of wrong passwords is never reached without a lock.
\* Overlap alone breaks the claim.
THEOREM ApartFiveInARow == Spec /\ []NoOverlap => []FiveInARowLocks
<1>1. IInv /\ NoOverlap /\ Fresh /\ [Next]_vars => Fresh'
  BY NextKeepsFresh
<1>2. IInv /\ Fresh => FiveInARowLocks
  BY DEF IInv, CountBelowThreshold, Fresh, FiveInARowLocks
<1> QED
  BY <1>1, <1>2, InitFresh, Invariance, PTL DEF Spec

=============================================================================
