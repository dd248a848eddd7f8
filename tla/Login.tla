------------------------------- MODULE Login -------------------------------
(***************************************************************************)
(* POST /auth/login: the lockout state machine of app/auth/login.py, the   *)
(* session it creates (app/auth/session.py) and the audit row that the     *)
(* route of app/api/v1/auth.py writes in a transaction of its own.         *)
(*                                                                         *)
(* Every member of Requests is one login attempt.  The attempt SELECTs the *)
(* user row, decides without awaiting anything, and COMMITs later; no lock *)
(* is held and no version is checked between the two, so attempts on one   *)
(* account interleave.  The database is PostgreSQL at READ COMMITTED.  An  *)
(* UPDATE and the COMMIT after it are one step: the transaction writes a   *)
(* single user row and keeps its row lock in between.                      *)
(*                                                                         *)
(* The rehash of a password (login.py:109) is left out: it replaces one    *)
(* hash of the password by another and no guard tells the two apart.       *)
(***************************************************************************)
EXTENDS Naturals, FiniteSets

CONSTANTS
    Users,              \* accounts: rows of the users table
    NoUser,             \* what the SELECT by email returns for an unknown email
    Requests,           \* login attempts
    LOCKOUT_THRESHOLD,  \* wrong passwords before the account locks (5)
    LOCKOUT_DURATION,   \* ticks a lock lasts (15 minutes)
    POOL_LIMIT,         \* connections of the engine: pool_size + max_overflow
    MAX_TIME            \* bound of the clock

ASSUME NoUserAssumption == NoUser \notin Users
ASSUME ThresholdAssumption == LOCKOUT_THRESHOLD \in Nat \ {0}
ASSUME DurationAssumption == LOCKOUT_DURATION \in Nat \ {0}
ASSUME PoolAssumption == POOL_LIMIT \in Nat \ {0}
ASSUME TimeAssumption == MAX_TIME \in Nat \ {0}
ASSUME RequestsAssumption == IsFiniteSet(Requests)

VARIABLES
    now,       \* the clock that datetime.now reads
    users,     \* table users
    sessions,  \* the attempts whose row is in table sessions
    audit,     \* for each attempt, the action of its audit_log row
    pc,        \* where the handler of the attempt stands
    who,       \* the account the attempt named
    seen,      \* the user row as this attempt read it
    at,        \* the time this attempt took for "now"
    strikes,   \* history: attempts whose wrong password was committed
    streak     \* history: wrong passwords committed since a lock or a login

vars == <<now, users, sessions, audit, pc, who, seen, at, strikes, streak>>

NULL == 0          \* a timestamp column that is NULL; the clock starts at 1
Clock == 1..MAX_TIME
Timestamp == Nat

UserRow == [is_active: BOOLEAN, failed_login_count: Nat,
            locked_until: Timestamp, last_login_at: Timestamp]

NewUser == [is_active |-> TRUE, failed_login_count |-> 0,
            locked_until |-> NULL, last_login_at |-> NULL]

AuditActions == {"none", "login.failed", "login.locked", "login.success"}

\* refused, locked: decided, the transaction of the SELECT is still open.
\* strike, grant: decided, the commit of attempt_login is pending.
\* struck, granted: that commit is done, the audit row is not yet written.
Answers == {"200", "401", "423", "500"}
States == {"idle", "refused", "locked", "strike", "grant", "struck", "granted"}
              \cup Answers

Init ==
    /\ now = 1
    /\ users = [u \in Users |-> NewUser]
    /\ sessions = {}
    /\ audit = [r \in Requests |-> "none"]
    /\ pc = [r \in Requests |-> "idle"]
    /\ who = [r \in Requests |-> NoUser]
    /\ seen = [r \in Requests |-> NewUser]
    /\ at = [r \in Requests |-> 1]
    /\ strikes = {}
    /\ streak = [u \in Users |-> 0]

-----------------------------------------------------------------------------
(* The connection pool: a session holds a connection while a transaction is *)
(* open and returns it at commit or rollback.                               *)

Holding(states) == Cardinality({r \in Requests : pc[r] \in states})

InTransaction == {"refused", "locked", "strike", "grant"}

\* mutant: the commit of attempt_login does not give the connection back
FreeConnection_leak == Holding(InTransaction \cup {"struck", "granted"}) < POOL_LIMIT
FreeConnection == Holding(InTransaction) < POOL_LIMIT

(***************************************************************************)
(* The decisions on the row that was read.                                 *)
(***************************************************************************)
\* mutant: a lock no longer rejects
IsLocked_never(row, t) == FALSE
IsLocked(row, t) == row.locked_until # NULL /\ row.locked_until > t

\* mutant: the column counts the attempts that are left
AfterFailure_countdown(row, t) == [row EXCEPT !.failed_login_count = @ - 1]
\* mutant: the counter survives the lock
AfterFailure_no_reset(row, t) ==
    LET count == row.failed_login_count + 1
    IN  IF count >= LOCKOUT_THRESHOLD
        THEN [row EXCEPT !.failed_login_count = count,
                         !.locked_until = t + LOCKOUT_DURATION]
        ELSE [row EXCEPT !.failed_login_count = count]
\* mutant: the account locks one wrong password early
AfterFailure_early(row, t) ==
    LET count == row.failed_login_count + 1
    IN  IF count + 1 >= LOCKOUT_THRESHOLD
        THEN [row EXCEPT !.failed_login_count = 0,
                         !.locked_until = t + LOCKOUT_DURATION]
        ELSE [row EXCEPT !.failed_login_count = count]
AfterFailure(row, t) ==
    LET count == row.failed_login_count + 1
    IN  IF count >= LOCKOUT_THRESHOLD
        THEN [row EXCEPT !.failed_login_count = 0,
                         !.locked_until = t + LOCKOUT_DURATION]
        ELSE [row EXCEPT !.failed_login_count = count]

\* mutant: the login is not stamped on the account
AfterSuccess_unstamped(row, t) ==
    [row EXCEPT !.failed_login_count = 0, !.locked_until = NULL]
\* mutant: the counter is not cleared
AfterSuccess_keep(row, t) ==
    [row EXCEPT !.locked_until = NULL, !.last_login_at = t]
AfterSuccess(row, t) ==
    [row EXCEPT !.failed_login_count = 0,
                !.locked_until = NULL,
                !.last_login_at = t]

(***************************************************************************)
(* The unit of work of the ORM: COMMIT writes the columns whose new value  *)
(* differs from the value READ, and leaves the others as STORED now.       *)
(***************************************************************************)
Column(stored, read, new) == IF new # read THEN new ELSE stored

Flush(stored, read, new) ==
    [is_active |-> Column(stored.is_active, read.is_active, new.is_active),
     failed_login_count |-> Column(stored.failed_login_count,
                                   read.failed_login_count, new.failed_login_count),
     locked_until |-> Column(stored.locked_until, read.locked_until, new.locked_until),
     last_login_at |-> Column(stored.last_login_at, read.last_login_at, new.last_login_at)]

(***************************************************************************)
(* The audit row and the answer that follow each outcome.                  *)
(***************************************************************************)
\* mutant: the lock is audited as a plain failure
AuditAction_generic(outcome) ==
    IF outcome = "granted" THEN "login.success" ELSE "login.failed"
AuditAction(outcome) ==
    CASE outcome \in {"refused", "struck"} -> "login.failed"
      [] outcome = "locked" -> "login.locked"
      [] outcome = "granted" -> "login.success"

Answer(outcome) ==
    CASE outcome \in {"refused", "struck"} -> "401"
      [] outcome = "locked" -> "423"
      [] outcome = "granted" -> "200"

-----------------------------------------------------------------------------
(* attempt_login up to its decision: the SELECT, then no await.            *)

\* The attempt takes a connection and names account u.
Begin(r, u) ==
    /\ pc[r] = "idle"
    /\ FreeConnection
    /\ who' = [who EXCEPT ![r] = u]

\* What no decision changes.
Undecided == UNCHANGED <<now, users, sessions, audit, strikes, streak>>

RejectUnknown(r) ==
    /\ Begin(r, NoUser)
    /\ pc' = [pc EXCEPT ![r] = "refused"]
    /\ UNCHANGED <<seen, at>>
    /\ Undecided

RejectInactive(r, u) ==
    /\ Begin(r, u)
    /\ ~users[u].is_active
    /\ pc' = [pc EXCEPT ![r] = "refused"]
    /\ UNCHANGED <<seen, at>>
    /\ Undecided

RejectLocked(r, u) ==
    /\ Begin(r, u)
    /\ users[u].is_active
    /\ IsLocked(users[u], now)
    /\ pc' = [pc EXCEPT ![r] = "locked"]
    /\ UNCHANGED <<seen, at>>
    /\ Undecided

\* verify_password is called on the row read; the columns are assigned on it.
Judge(r, u, verdict) ==
    /\ Begin(r, u)
    /\ users[u].is_active
    /\ ~IsLocked(users[u], now)
    /\ pc' = [pc EXCEPT ![r] = verdict]
    /\ seen' = [seen EXCEPT ![r] = users[u]]
    /\ at' = [at EXCEPT ![r] = now]
    /\ Undecided

JudgeWrong(r, u) == Judge(r, u, "strike")

JudgeRight(r, u) == Judge(r, u, "grant")

-----------------------------------------------------------------------------
(* The commits of attempt_login.                                           *)

CommitStrike(r) ==
    /\ pc[r] = "strike"
    /\ LET u == who[r]
           new == AfterFailure(seen[r], at[r])
       IN  /\ users' = [users EXCEPT ![u] = Flush(@, seen[r], new)]
           /\ streak' = [streak EXCEPT
                 ![u] = IF new.locked_until # seen[r].locked_until THEN 0 ELSE @ + 1]
    /\ strikes' = strikes \cup {r}
    /\ pc' = [pc EXCEPT ![r] = "struck"]
    /\ UNCHANGED <<now, sessions, audit, who, seen, at>>

\* One transaction: the session row of create_session and the user row.
CommitGrant(r) ==
    /\ pc[r] = "grant"
    /\ LET u == who[r]
       IN  /\ users' = [users EXCEPT
                 ![u] = Flush(@, seen[r], AfterSuccess(seen[r], at[r]))]
           /\ streak' = [streak EXCEPT ![u] = 0]
    /\ sessions' = sessions \cup {r}
    /\ pc' = [pc EXCEPT ![r] = "granted"]
    /\ UNCHANGED <<now, audit, who, seen, at, strikes>>

\* The route writes the audit row, commits and answers.  After a commit of
\* attempt_login this is a second transaction and needs a connection again.
WriteAudit(r) ==
    /\ pc[r] \in {"refused", "locked", "struck", "granted"}
    /\ pc[r] \in {"struck", "granted"} => FreeConnection
    /\ audit' = [audit EXCEPT ![r] = AuditAction(pc[r])]
    /\ pc' = [pc EXCEPT ![r] = Answer(pc[r])]
    /\ UNCHANGED <<now, users, sessions, who, seen, at, strikes, streak>>

\* The database fails, the pool times out or the process dies: the open
\* transaction is rolled back, what was committed stays.
Error(r) ==
    /\ pc[r] \notin Answers
    /\ pc' = [pc EXCEPT ![r] = "500"]
    /\ UNCHANGED <<now, users, sessions, audit, who, seen, at, strikes, streak>>

-----------------------------------------------------------------------------
\* An operator (de)activates the account by SQL: no route does it.
SetActive(u) ==
    /\ users' = [users EXCEPT ![u].is_active = ~@]
    /\ UNCHANGED <<now, sessions, audit, pc, who, seen, at, strikes, streak>>

Tick ==
    /\ now < MAX_TIME
    /\ now' = now + 1
    /\ UNCHANGED <<users, sessions, audit, pc, who, seen, at, strikes, streak>>

Decide(r) ==
    \/ RejectUnknown(r)
    \/ \E u \in Users : \/ RejectInactive(r, u)
                        \/ RejectLocked(r, u)
                        \/ JudgeWrong(r, u)
                        \/ JudgeRight(r, u)

Continue(r) == CommitStrike(r) \/ CommitGrant(r) \/ WriteAudit(r)

Next ==
    \/ \E r \in Requests : Decide(r) \/ Continue(r) \/ Error(r)
    \/ \E u \in Users : SetActive(u)
    \/ Tick

Spec == Init /\ [][Next]_vars

\* The event loop resumes every coroutine whose await is over, and the pool
\* serves its waiters in order.
FairSpec == Spec /\ \A r \in Requests : WF_vars(Continue(r))

-----------------------------------------------------------------------------
(* Properties.                                                             *)

\* Each variable keeps the shape of its table or of its handler state.
TypeOK ==
    /\ now \in Clock
    /\ users \in [Users -> UserRow]
    /\ sessions \subseteq Requests
    /\ audit \in [Requests -> AuditActions]
    /\ pc \in [Requests -> States]
    /\ who \in [Requests -> Users \cup {NoUser}]
    /\ seen \in [Requests -> UserRow]
    /\ at \in [Requests -> Clock]
    /\ strikes \subseteq Requests
    /\ streak \in [Users -> Nat]

\* However attempts overlap, a stored counter never reaches the threshold:
\* the write that would reach it stores the lock and 0 (login.py:96-99).
CountBelowThreshold ==
    \A u \in Users : users[u].failed_login_count < LOCKOUT_THRESHOLD

\* An account that is locked got at least THRESHOLD wrong passwords: stale
\* counters lose attempts, they never invent them (login.py:96-98).
StrikesOf(u) == {r \in strikes : who[r] = u}
LockEarned ==
    \A u \in Users : users[u].locked_until # NULL
        => Cardinality(StrikesOf(u)) >= LOCKOUT_THRESHOLD

\* last_login_at and the session of that login are committed together
\* (login.py:106-119): an account carries a stamp exactly when one of its
\* logins left a session, and the stamp is the time of such a login.
LoginAtomic ==
    \A u \in Users :
        LET logins == {r \in sessions : who[r] = u}
        IN  IF users[u].last_login_at = NULL
            THEN logins = {}
            ELSE \E r \in logins : users[u].last_login_at = at[r]

\* An answer the client gets is on record: 200 has its session and the row
\* login.success, 401 and 423 have no session and the row that says which of
\* the two it was (api/v1/auth.py:100-156).
AuditMatchesAnswer ==
    \A r \in Requests :
        /\ pc[r] = "200" => r \in sessions /\ audit[r] = "login.success"
        /\ pc[r] = "401" => r \notin sessions /\ audit[r] = "login.failed"
        /\ pc[r] = "423" => r \notin sessions \cup strikes /\ audit[r] = "login.locked"

\* A lock in force is shortened or lifted only by the commit of an attempt
\* that read the row before the lock was stored (login.py:91-92): whoever
\* reads the lock cannot touch it.
LockKept ==
    [][\A u \in Users :
        (users[u].locked_until > now /\ users'[u].locked_until < users[u].locked_until)
        => \E r \in Requests :
              /\ pc[r] \in {"strike", "grant"} /\ pc'[r] # pc[r]
              /\ who[r] = u
              /\ seen[r].locked_until # users[u].locked_until]_vars

\* Every attempt that got past its first statement is answered: no attempt
\* waits for a connection while holding one, so the pool cannot starve it.
Answered == \A r \in Requests : (pc[r] # "idle") ~> (pc[r] \in Answers)

-----------------------------------------------------------------------------
(* Claims of comments that overlapping attempts or an error break.         *)

\* login.py:8 "5 failed attempts in a row -> 15-minute lock".
FiveInARowLocks == \A u \in Users : streak[u] < LOCKOUT_THRESHOLD

\* audit/log.py:3 "Every authentication and authorization decision is logged
\* here - defense audits, SOC2, and incident response all depend on
\* completeness": a session created or a strike counted by an attempt that is
\* over has its row.
EveryDecisionLogged ==
    \A r \in sessions \cup strikes : pc[r] \in Answers => audit[r] # "none"

(***************************************************************************)
(* The lockout policy that the module docstring promises, as the abstract  *)
(* specification.  It is implemented as long as no two attempts on one     *)
(* account overlap.                                                        *)
(***************************************************************************)
Pending(r) == pc[r] \in {"strike", "grant"}
NoOverlap == \A q, r \in Requests : Pending(q) /\ Pending(r) /\ who[q] = who[r] => q = r

Policy == INSTANCE LockoutPolicy WITH
    THRESHOLD <- LOCKOUT_THRESHOLD,
    DURATION <- LOCKOUT_DURATION,
    misses <- streak,
    until <- [u \in Users |-> users[u].locked_until]

PolicySpec == Policy!Spec
=============================================================================
