# specter-cloud in TLA+

specter-cloud is the backend of the Specter drone platform: FastAPI handlers on one event loop per process, PostgreSQL
through SQLAlchemy's asyncio ORM, Redis for live telemetry, and a few operator scripts. Its core logic is
authentication and authorization: who may log in, which session or drone key still counts, who may act on which
organisation, and what the audit log says about it. This directory models that logic in TLA+, checks it with TLC on
small instances, and proves its safety properties with TLAPS for every value of the constants.

## Inventory

| Component | State | Operations | Status |
|---|---|---|---|
| Login and lockout: `app/auth/login.py`, route `/login` of `app/api/v1/auth.py` | `users.failed_login_count`, `locked_until`, `last_login_at`; a row of `sessions`; a row of `audit_log` | `attempt_login`, audit of the outcome | `Login`, `LockoutPolicy` |
| Sessions: `app/auth/session.py`, `get_current_user`, routes `/me`, `/logout` | table `sessions`, `users.is_active` | create, lookup (and touch), revoke, revoke-all, authenticate, log out | `Sessions`, `Credential` |
| Drone keys: `app/auth/api_key.py`, `get_current_drone`, `scripts/mint_key.py`, `scripts/revoke_key.py` | table `drone_api_keys`, `drones.is_active` | verify (and stamp), mint, revoke by prefix, revoke by drone | `ApiKeys`, `Credential` |
| RBAC: `app/auth/rbac.py`, `permissions.py` | `orgs.parent_org_id`, `user_roles`, the bundles of permissions | `check_permission`, `require_permission` | `Rbac`, `Authz` |
| Telemetry: `app/api/v1/ingest.py`, `stream.py`, `app/core/redis.py` | one Redis key and channel per drone, subscriptions | ingest, stream, its `finally` block | `Telemetry`, `Broadcast` |
| Bootstrap: `scripts/bootstrap_specter_org.py` | org, user, two grants | `bootstrap` | `Bootstrap`, `AtomicBootstrap` |
| Schema: `app/models`, `alembic/versions` | foreign keys and their `ON DELETE`, unique keys, the revision | upgrade, both downgrades, deletes, inserts | in part: `Schema` |
| Audit writer: `app/audit/log.py` | table `audit_log` | `write`, committed by the caller | in part, inside `Login`, `Sessions`, `Authz`, `Schema` |
| Engine and sessions of the database: `app/core/database.py` | 15 pooled connections, one transaction per session | connect, commit, roll back | in part, inside the modules above |
| Telemetry validation: `app/schemas/telemetry.py` | none | accept or 422 | in part: its outcome, in `Telemetry` |
| Password hashing, configuration, logging, middleware, health, simulator, media server | none that another operation depends on | | not modelled |

How they interact. A handler receives an `AsyncSession` from `get_db`; every dependency and the route itself share it, so
they share a transaction until one of them commits, and `lookup_session`, `revoke_session`, `verify_api_key` and
`attempt_login` all commit on their own. The audit row of a route is written to the same `AsyncSession` after such a
commit and is therefore a second transaction. Handlers share nothing in memory; they meet in the rows of PostgreSQL, and
the scripts meet them there from processes of their own. Ingest and stream share no memory either: they meet in Redis, in
one key and one channel per drone. Every authorized route will stand on `require_permission`, which stands on
`get_current_user`; ingest stands on `get_current_drone`.

What is hard. Between the SELECT that a decision is taken on and the COMMIT that stores it, other handlers run, and
nothing in the code takes a lock or checks a version: no `SELECT ... FOR UPDATE`, no conditional UPDATE except the one of
`last_used_at`. So updates of counters are lost, stale decisions are stored, and only three things keep the state
consistent: the ORM writes changed columns only, some decisions are monotone (a revocation is never undone), and one
UPDATE re-evaluates its condition. Errors split operations that commit twice. Three clocks with three comparisons
(expiry, idle, debounce) meet in one function. A walk over the org hierarchy ends only because of its depth cap. SET and
PUBLISH are two commands and a lost reply leaves either of them done. Deploys may overlap, and only the unique keys of the
tables keep one bootstrap from repeating the other. `PROJECT.json` lists these hazards, each at its line.

What makes each component correct:

- Login: a counter stays below the threshold, locks are flat, earned and kept, a login is all or nothing, an answer
  matches its audit row, an attempt that started is answered; without overlap, the docstring's policy.
- Sessions: dead sessions are never served, a logout revokes what its cookie names, revoke-all misses nothing it saw and
  revokes nothing it was not asked to, use keeps a session alive.
- Keys: a revoked key is never served and shows no later use, `last_used_at` moves forward and at most once per window,
  a drone has one active key.
- RBAC: only a live grant of the right role at or above the org of the resource allows, the closest wins, a denial is on
  record.
- Telemetry: what is stored or shown for a drone came with a live key of that drone, streams show a gapless part of the
  channel in order, failures of Redis never reach the drone.
- Bootstrap: a run is all or nothing, also when it never learns that it committed, equal configurations leave one
  administrator, runs do not wait in a circle.
- Schema: no reference dangles, audit rows outlive what they refer to.

## Modules

| Module | What it is |
|---|---|
| `Login` | login attempts as interleaved handlers |
| `LockoutPolicy` | abstract: what the docstring of `login.py` promises about one account |
| `Sessions` | requests `/me`, `/logout` and the operator call `revoke_all_user_sessions` on the session table |
| `ApiKeys` | ingest requests, mint and revoke scripts on the key table |
| `Credential` | abstract: a credential that is issued once, can be revoked for good, and serves requests that found it live; both `Sessions` and `ApiKeys` implement it, and `Telemetry` is built on it |
| `Broadcast` | abstract: channels to which every message is published once and at the end, and readers that are shown each message in turn from where they joined; `Telemetry` implements it |
| `AtomicBootstrap` | abstract: a run of the bootstrap script as one step with one outcome; `Bootstrap` implements it |
| `Rbac` | pure: the bundles of permissions, the recursive query of `check_permission`, and the reference definition (`Decision`) it is compared with |
| `Authz` | `require_permission` and the route behind it, over tables that change between its statements; EXTENDS `Rbac` |
| `Telemetry` | ingest requests, streams and the Redis server between them; INSTANCE of `Credential` |
| `Schema` | the tables as the migrations leave them: deletes, inserts, upgrade and downgrades |
| `Bootstrap` | runs of the bootstrap script that overlap, composed with everything `Schema` lets happen; EXTENDS `Schema` |
| `MCLogin`, `MCSessions`, `MCApiKeys`, `MCAuthz`, `MCTelemetry`, `MCBootstrap` | instances for TLC: the symmetry sets |
| `LoginProofs` | theorems about `Login` |
| `SessionsProofs` | theorems about `Sessions` |
| `ApiKeysProofs` | theorems about `ApiKeys` |
| `RbacProofs` | theorems about the operators of `Rbac`: what `check_permission` returns, for every hierarchy |
| `AuthzProofs` | theorems about `Authz`; EXTENDS `RbacProofs` |
| `TelemetryProofs` | theorems about `Telemetry` |
| `BootstrapProofs` | theorems about `Bootstrap` and `Schema` |

### How state and actions correspond to the code

Tables are functions from row names to records with the columns that decisions read; a timestamp that is NULL is 0. A
handler is a program counter, the value it read and the time it took for `now`. One action is what a handler does
between two awaits that matter, so that every point where the event loop or PostgreSQL may run something else is a state:

- The SELECT and the decision on its rows are one action: the code does not await between them.
- An UPDATE or INSERT and the COMMIT that follows are one action: the transaction writes one row and holds its row lock
  in between, so nobody sees or changes the row between the two. `RevokeAllCommit` writes several rows in one
  transaction, and COMMIT shows them at once.
- PostgreSQL runs at READ COMMITTED: every SELECT sees what is committed when it starts. An UPDATE evaluates its WHERE
  on the row as committed when it gets the lock, which is what makes `Due` read the current row.
- A COMMIT of the ORM sends the columns whose value differs from the value read (`Flush` in `Login`, `TouchedRow` and
  `RevokedRow` in `Sessions`). These definitions are marked external; they come from SQLAlchemy and from
  `expire_on_commit=False, autoflush=False` in `core/database.py`.
- `Error` stands for a failed statement, a pool timeout and the death of the process at any point of a handler: the open
  transaction rolls back, what was committed stays.
- The reply to a COMMIT may be lost: `commit()` raises although the rows are there. Where a handler goes on after its commit,
  that is the commit followed by `Error`. Where the commit is its last statement, the action itself ends in the answer or in the
  failure (`Commit` in `Bootstrap`, `Committed` in `ApiKeys`, `LastCommit` in `Sessions`, `Deny` and `RouteCommits` in `Authz`).
  The one exception is `WriteAudit` of `Login`: an attempt that ends in 500 with its audit row written differs in nothing that
  is read later or that a property looks at from one that ends in 500 without, and is left out for the size of the run.
- No code under `src` deactivates accounts or drones; an operator does it by SQL (`SetActive`, `Deactivate`). In
  `Sessions` this is one-way, which is what keeps "inactive before it came in" meaningful.

`Login`: `RejectUnknown`, `RejectInactive`, `RejectLocked`, `JudgeWrong` and `JudgeRight` are the five ways out of
`attempt_login` up to its first await after the SELECT; `CommitStrike` and `CommitGrant` are its two commits; `WriteAudit`
is the rest of the route. Strikes and grants give their connection back and take one again for the audit row. Left out:
the rehash of a password, which no guard reads, and the contents of the audit row other than its action.

`Sessions`: `Arrive` is the choice between cookie and bearer header, `AuthSelect` and `Touch` are `lookup_session`,
`LoadUser` is the second read of `get_current_user` and the branch of the route, `LogoutSelect`, `RevokeCommit` and
`LogoutAudit` are `/logout`. The session object of the dependency is garbage once the dependency returns, so the SELECT
of the logout reads the row afresh, and `revoke_session` finds that object in the identity map.

`ApiKeys`: `Present`, `VerifySelect` and `VerifyTouch` are `get_current_drone`; `MintSelect` and `MintInsert` are
`mint_key.py`; `RevokeByPrefix`, and `RevokeSelect` with `RevokeByDrone`, are the two modes of `revoke_key.py`. `func.now()` is
the start of the transaction, so `began` is kept from the first statement.

`Rbac`: `OrgChain` is the recursive common table expression (a row per org and depth, so an org on a cycle comes up
again), `Candidates` its join with the active grants, `Closest` the `ORDER BY depth LIMIT 1`. When two roles at one org
both match, PostgreSQL returns either, and so does `CheckPermission`. The reference, `EntitlingOrgs`, does not walk: the
lineage is the least set closed under `parent`, and the distance of an ancestor counts the orgs without which it is not
reached. `Nearest` are the entitling orgs within the cap that no other comes before, and `Decision` is what the docstring
promises of them: a denial if there are none, else one of their grants. The bundles are those of `permissions.py`, member by
member.

`Authz`: `Arrive` and `Authenticate` are `get_current_user` (its inside is `Sessions`), `Resolve` the `org_resolver`, `Check`
the query and the audit row that is added to the session, `Deny` the commit before the 403. No route under `src` uses the
dependency yet, so the two kinds of routes (`RouteReads`, `RouteCommits`), the resolver and the operations that give grants
and move orgs or drones are external: they are what `database.py`, the schema and the docstrings of `rbac.py` allow. A user
without a resolver asks about the home org that was read with the user. Roles are not deleted here; `Schema` deletes users and orgs.

`Telemetry`: `AcceptKey`, `ReturnDrone`, `RefuseKey` are the steps `Accept`, `Serve`, `Refuse` of `Credential`, which `ApiKeys` is
proved to implement, so a request between them overlaps with issues and revocations of its key. FastAPI solves the
dependencies before it reports errors of the body: `Validate` comes after authentication. A Redis command takes effect
and answers (`SetValue`, `Publish`), or raises a `RedisError` before or after it took effect (`SetFails`, `PublishFails`). A
channel is the sequence of all that was published on it; Redis appends to the inbox of its subscribers, `Relay` is one turn
of the generator's loop. `Connect` does not wait for the confirmation of the subscription: `Subscribed` is when Redis gets to
it. The client object of `redis.py` is made at start and closed after the last request, so it is a constant. It sends a
command once: `from_url` is given no `retry`. A client that sent a PUBLISH again whose reply was lost could publish a message
twice, and one that subscribed again on a new connection could leave out messages; `FeedSpec` would not hold of it.

`Schema`: a table is a set of records with the columns that refer to a row or that a decision reads. Deletes are of single
rows, by operators: no code under `src` deletes. `granted_by` and the columns `matched_org_id` and `matched_role_id` of the
audit log are declared as `revoked_by` and `target_org_id` are (SET NULL), so one of each kind stands for both. A downgrade
drops tables and with them what referred to them.

`Bootstrap`: one action per statement of the script, from `SelectAdminRole` to `Commit`, in one transaction at READ
COMMITTED. Rows inserted and not committed are `newOrg` and `newUser`: no one sees them, but an INSERT with the same unique
key waits (`OrgPending`, `EmailPending`) until their transaction ends, and then fails or goes on. The INSERT of a user locks the
row of its org, so a DELETE of the org waits; DROP TABLE waits for every transaction that has read the table (`Migrate`). The
last three statements are one action with the COMMIT, because nothing another run does can change their outcome. A COMMIT that
took effect ends the run with True or, when its reply is lost, as failed; a run that fails otherwise is rolled back (`Error`).
A run is taken to end when its transaction does: a script that dies earlier only learns less of the outcome.

## Runs

| Run | Instance | What it shows |
|---|---|---|
| `login_overlap` | 1 account, 4 attempts, threshold 2, lock of 1 tick, 2 connections, time to 3 | the seven properties of `Login` under every overlap |
| `login_serial` | 1 account, 3 attempts, 1 connection, weak fairness | `PolicySpec`: one attempt at a time implements the docstring; `Answered`: the pool starves nobody |
| `login_five_in_a_row` | 1 account, 3 attempts | finding: overlapping wrong passwords are not all counted |
| `login_decision_logged` | 1 account, 3 attempts | finding: an error between two commits leaves a decision without its row |
| `sessions_overlap` | 1 session, 1 user, 2 requests, TTL 3, idle 2, debounce 1, latency 1, time to 6 | the seven properties of `Sessions`, among them `CredentialSpec` |
| `sessions_logout` | 1 session, 1 request | finding: a bearer logout answers 200 and revokes nothing |
| `keys_overlap` | 2 keys, 1 drone, 1 prefix, 2 requests, 1 mint, 1 revoke terminal, debounce 1, time to 3 | the six properties of `ApiKeys`, among them `CredentialSpec` |
| `keys_two_minters` | 2 mint terminals | finding: check-then-insert mints two active keys |
| `authz_overlap` | 1 request, 3 orgs in every hierarchy, 1 user, 1 drone, depth cap 1, 2 roles, 2 grants | the five properties of `Authz` and `Rbac`, while grants, orgs and drones change between any two statements |
| `authz_decision_audited` | 2 orgs, 1 grant | finding: a route that only reads loses the row of its decision |
| `telemetry` | 2 requests, 1 key, 2 drones, 1 stream, fairness | the six properties of `Telemetry`, among them `FeedSpec` and two of liveness |
| `deploy_overlap` | 2 runs, 2 orgs, 2 users, 2 emails, 1 drone, key, session and audit row | the seven properties of `Bootstrap` and `Schema`, among them `AtomicSpec`, under overlap, migrations and operators |

Bounds, and why they are enough.

- Threshold 2 instead of 5: the smallest at which a lock takes more than one attempt and an update can be lost without a
  lock. Four attempts are two locks' worth, or one lock and two stale attempts around it. The proofs hold for any
  threshold, number of attempts and number of accounts.
- A lock of 1 tick and 3 values of the clock: a lock is stored, in force, and expired within a behaviour, with one tick
  left for an attempt that took its time earlier. Accounts do not interact in `Login`, so one is enough.
- Two connections for four attempts: attempts do wait for a connection.
- `TTL > IDLE > DEBOUNCE` as in the code (30 days, 7 days, 5 minutes), one tick apart, and time to 6: a session reaches
  its hard expiry although it is in steady use, and reaches its idle timeout when it is not.
- Two requests are enough for every pair of handlers on one session; the table has no operation that looks at two
  sessions at once except revoke-all, whose two rows differ only in what `Matches` says of each.
- One prefix shared by two keys makes prefix collisions certain; `NoKey` and `Malformed` stand for every other secret.
- A terminal can run its script again, so mints and revocations alternate as often as there are keys.
- A depth cap of 1 with three orgs: a grant at the cap, a grant one level beyond it, and cycles of one, two and three orgs
  all occur. Two grants of two roles, one of which bundles the permission: the wrong role, the wrong org, the closer of two. One
  request suffices in `Authz`: requests share only the tables, and operators may change those between any two statements.
- One stream and two drones: a message of the other drone can reach neither. Two requests overlap between SET and PUBLISH,
  one key can be revoked under both. The proofs hold for any number.
- Two runs with any pair of configurations (equal, different in the org, in the email, in both); a run can be repeated on
  the same terminal, so bootstraps, revocations, deletions and downgrades alternate without a bound. Only grants of admin are
  revoked (`REVOCABLE`): nothing reads whether the others are, and the proofs hold for any set of roles. Two users let a deleted
  administrator be replaced while the rows that named the first are still there.

Assumptions on time. `LATENCY` (in `Sessions`) bounds how long a touch or the transaction of a new session may be under
way; the code does not bound it, the database's statement timeouts do. Without it a stalled touch could write an
arbitrarily old `last_seen_at`, and a session in use could die of idleness: `KeepAlive` says that the lag is no more than
the debounce or that latency. Ticks are otherwise free.

Fairness. `login_serial` assumes `WF_vars(Continue(r))`, weak fairness on the continuation of each attempt. The event
loop resumes every coroutine whose await is over, and SQLAlchemy's queue pool serves its waiters in order. Attempts that
wait for a connection in order to write their audit row hold none meanwhile, so weak fairness suffices. `Error` is not
fair, and neither are the first statements of an attempt (`idle` attempts may never come).

`telemetry` assumes weak fairness of each request's continuation and of `Relay`. A continuation is one of its outcomes, the
failures included: Redis answers, or the connection breaks and the command raises. `redis.py` configures no socket timeout,
so a server that neither answers nor closes would hold a request for as long as the kernel keeps the connection; the
assumption leaves that out. `Relay` assumes that the client reads its stream; one that does not is disconnected in the end
(`Leave`). Nothing makes a request arrive, a stream connect or Redis get to a subscription.

`CHECK_DEADLOCK` is left on except in `telemetry`: elsewhere time or an operator can always move, or a handler can; there the
requests and streams are finitely many and all of them may be done.

### Properties

Every property of a passing run has a mutant in `PROJECT.json`: a definition written beside the original (its name is the
original's with a suffix) that changes the code the way a plausible bug would, under which TLC finds the property
violated. The suffixed definitions are used by nothing else.

- `CountBelowThreshold`, `LockEarned`, `LoginAtomic`, `AuditMatchesAnswer`, `LockKept` (`Login`).
  `LockKept` says exactly how much a lock is worth: it can be shortened or lifted only by an attempt that read the row
  before the lock was stored.
- `PolicySpec` relates `Login` to `LockoutPolicy` by `misses <- streak` (a history variable that counts committed wrong
  passwords since the last lock or login) and `until <- locked_until`.
- `DoomedNeverServed`, `LogoutRevokes`, `RevokeAllComplete`, `RevokedByClaim`, `KeepAlive` (`Sessions`). `doomed`, `existed` and
  `lastUse` are history variables that only properties read.
- `RevocationImmediate`, `NoUseAfterRevocation`, `LastUsedDebounced`, `AtMostOneActiveKey` (`ApiKeys`). `dead` and `killed` are
  history variables.
- `CredentialSpec` (both): a row is absent, live or revoked, and moves only forward; a request that is served found its
  credential live at a moment when it was being handled. What it does not say is that the credential is live when the
  answer is sent: a request accepted just before a revocation is served, in the code and in the model.

- `AllowedFromAbove`, `ClosestGrantWins`, `RevocationImmediate`, `DenialOnRecord` (`Authz`). The first two are
  action properties: they compare what the query returned with the tables at that moment and with the reference definition.
  `ClosestGrantWins` is the whole verdict: the row the query returns is one the reference allows (`Decision`), and the request
  goes to its route or to the 403 accordingly.
  `AllowedFromAbove` also says how stale the resolved org may be: only a resource that moved since may be elsewhere.
  `RevocationImmediate` speaks of users without any role since they came (`powerless`), because a grant may be given anew.
- `Attributed`, `FeedSpec`, `StoredIsLatest`, `FireAndForget`, `EventuallyShown` (`Telemetry`). `StoredIsLatest` excludes exactly the
  drones on which a command failed or two requests overlapped (`mixed`), where the stored value may stay behind the channel.
- `FeedSpec` relates `Telemetry` to `Broadcast` by `published <- channel`, `follows <- Joined` (the drone of a stream once Redis has
  subscribed it) and `place <- Place` (the length of the channel at that moment and what was shown since). Keys, requests,
  inboxes, confirmations and failures are gone: what remains is that a message is published once and that a stream skips,
  repeats and swaps nothing. `ShownInOrder` is its consequence for a single state and is only proved.
- `AtomicSpec`, `OneBootstrap`, `NoOpWhenStaffed`, `SomeRunProceeds`, `NoDanglingReference`, `AuditKept` (`Bootstrap` with `Schema`).
- `AtomicSpec` relates `Bootstrap` to `AtomicBootstrap` by `outcome <- Outcome` (every place inside a run is "running"),
  `orgs <- OrgKeys` (ids and slugs) and `grants <- ActiveGrants`. A run takes effect at its commit, and at that moment everything
  it relied on statements ago still holds, except one thing that `AtomicBootstrap` leaves out on purpose: that the org has no
  administrator. An outcome True means that the bootstrap is there, False and ValueError that the run left nothing, and after a
  failure it is there as a whole or not at all: whoever starts the next deploy cannot tell, and need not, because the run finds
  the grant and does nothing (`NoOpWhenStaffed`) or starts from nothing. `AllOrNothing`, about the end of a run only, is a weaker
  form that is only proved.

### Findings

Five comments of the code say more than the code does; each has a run in which TLC finds the counterexample.

1. `login.py:8` "5 failed attempts in a row → 15-minute lock": two attempts that read the same count store the same count.
   `ApartFiveInARow` proves that such an overlap on one account is the only cause.
2. `audit/log.py:3` "Every authentication and authorization decision is logged here": the decision and its row are two
   transactions in the login route.
3. `session.py:129` "A logout that returns 200 must mean the session is actually invalidated" and `auth.py:169` "Revoke the
   current session": the route looks at the cookie only, the dependency at the bearer header too.
4. `mint_key.py:40` "active api key ... available, revoke it first": nothing keeps two mints apart.

5. `rbac.py:21` "DO audit every decision (allow + deny)" and `audit/log.py:9` "Every authz decision writes one row
   synchronously within the request transaction": the dependency adds the row of an allowed request to the session and nobody
   commits it if the route does not; `get_db` closes the session.

Also met, without a run of their own:

- `login.py:11` says a successful login clears both fields; a success that overlaps a strike read them as 0 and NULL, so it
  writes neither and the strike's values stay.
- Two overlapping bootstraps with different emails on an org that exists leave it with two administrators: nothing but the
  email makes them conflict. `OneBootstrap` therefore speaks of equal emails.
- The second of two overlapping bootstraps ends with an `IntegrityError` of the unique key; `test_bootstrap_specter.py:112-114`
  asks for "a clear ValueError, not a silent collision or DB-level integrity error" of a taken email.
- Once the only administrator's grant is revoked, every deploy's bootstrap raises `ValueError`, as its message asks for an
  intervention.
- `permissions.py:44` calls `drone:configure` "not bundled in v1"; the developer role bundles it (line 104).
- With the bundles of v1 every permission is in some role, so the reason `permission_not_in_any_role` cannot occur.
- `mint_key.py` prints the key after the COMMIT: when the reply is lost or the script dies in between, the drone has an active
  key that nobody knows, and the next mint asks to revoke it first.
- `user_role.py:24` says rows of grants are never deleted; the foreign keys of users and orgs are ON DELETE CASCADE.
- `middleware.py` binds the request id to the log context only, and `rbac.py:210` looks for it on `request.state`: the rows of
  authorization decisions have none.
- `stream.py` subscribes before its `try` and closes after `unsubscribe` in its `finally`: an error in either leaves the
  connection of the PubSub object unclosed.

## Proofs

`LoginProofs` proves, from the named assumptions on the constants in `Login` (threshold, duration, pool and clock are
positive, attempts are finitely many, `NoUser` is no user):

| Theorem | States |
|---|---|
| `Invariance` | `Spec => []IInv` |
| `TypeCorrect`, `CounterBounded`, `LoginsAtomic`, `AuditFaithful` | the invariants `TypeOK`, `CountBelowThreshold`, `LoginAtomic`, `AuditMatchesAnswer` |
| `LocksBounded` | `LockBounded`, a part of `IInv` that is defined there: no lock lasts longer than the flat duration from now |
| `LocksEarned` | the invariant `LockEarned` |
| `LocksKept` | the action property `LockKept` |
| `ApartRefinement` | `Spec /\ []NoOverlap => PolicySpec`: apart on each account is enough, however many run at once |
| `ApartFiveInARow` | `Spec /\ []NoOverlap => []FiveInARowLocks`, the property that the run `login_five_in_a_row` refutes without the condition |

The argument. The three facts about the tables (`CountBelowThreshold`, `LockBounded`, `LoginAtomic`) are not inductive: what a
commit writes comes from the row the attempt read, not from the row that is stored. `IInv` adds `PendingRead`, which says of
every pending attempt that the row in its hands was unlocked, below the threshold and no further ahead than the table
allows, and `Progress`, which ties the program counter to the history. `FailureRow`, `SuccessRow` and `FlushRow` say what
the decision and the unit of work do to a row, column by column; `StrikeRow` and `GrantRow` combine them into what a commit
stores; then there is one lemma per action. `LocksEarned` needs a second strengthening, `Counted`: a stored counter, and a
counter in the hands of a pending attempt, never exceeds the number of distinct attempts whose strike was committed, with
the cardinality facts of `FiniteSetTheorems`.

The refinement needs a third, `Fresh`: the row in the hands of a pending attempt is the row that is stored, except for
`is_active`. Overlap on an account is all that can break it, so it is inductive under `NoOverlap` (no two attempts on one
account are `Pending`), a condition on behaviours that stands in the theorem and not in the specification. Each commit is then
a step of `LockoutPolicy` on the row it was decided on (`FreshStrike`, `FreshGrant`). That the condition can be met by behaviours
in which all that matters happens, locks included, is what `login_serial` shows: there one connection keeps attempts apart.

`SessionsProofs` proves, from the named assumptions in `Sessions` (the values for "no token", "forged token" and "no user"
are no members of their sets, the timeouts are natural numbers in any order, the clock is positive):

| Theorem | States |
|---|---|
| `Invariance` | `Spec => []IInv` |
| `TypeCorrect`, `LogoutsRevoke`, `RevokeAllIsComplete`, `RevokedOnlyByClaim`, `UseKeepsAlive` | the invariants `TypeOK`, `LogoutRevokes`, `RevokeAllComplete`, `RevokedByClaim`, `KeepAlive` |
| `DoomedAreRefused` | `LATENCY <= IDLE` implies `Spec => []DoomedNeverServed` |
| `SessionsAreCredentials` | `Spec => CredentialSpec` |

The argument. Requests in flight hold what they read (a token, a time, a batch of rows), and other requests write the rows
meanwhile. `Local` says what one request may rely on at each point of its handler; it survives the steps of the others
because every step is `Forward`: an issued row stays issued, keeps its account and transport, and is never unrevoked. So a
step of request `r` is checked at `r` only (`RequestStep`, `QuietStep`), and `LocalKept` covers the rest. `RevokedByClaim` needs
that a request changes what it carries only while it is idle, when it claims nothing. `KeepAlive` needs `Uses` (uses are in
the past) and, from `Local`, that a touch under way is no older than `LATENCY`.

`DoomedNeverServed` needs a second invariant, `Fate`. A session that is idle for too long could be revived by a touch whose
SELECT came before; `Pending` says that the time in the hands of a touch never exceeds the stored `last_seen_at` by more than
`IDLE`, so a session idle for `IDLE + LATENCY` has no touch under way (`DoomedArrives`), and none can begin (`BuriedKept`). This is
where `LATENCY <= IDLE` is needed: touches overwrite one another in any order, so the stored time may fall back by `LATENCY`
under the feet of another touch. In the code the idle timeout is 7 days.

The refinement has the same shape as the one of `ApiKeys` below: Arrive maps to Refuse or a stutter, AuthSelect to
Accept or Refuse, LoadUser to Serve, Refuse or a stutter, LogoutAudit to Serve or Refuse, RevokeCommit and RevokeAllCommit to Revoke,
Issue to Issue, an error of a request to Refuse, the rest to stutters.

`ApiKeysProofs` proves, from the named assumptions in `ApiKeys` (the null values are no members, requests and terminals are
disjoint):

| Theorem | States |
|---|---|
| `Invariance` | `Spec => []IInv` |
| `TypeCorrect`, `RevokedAtOnce`, `NoLaterUse` | the invariants `TypeOK`, `RevocationImmediate`, `NoUseAfterRevocation` |
| `Debounced` | the action property `LastUsedDebounced` |
| `OneActiveKey` | with one mint terminal and finitely many secrets, the invariant `AtMostOneActiveKey` |
| `KeysAreCredentials` | `Spec => CredentialSpec` |

The argument. `NoUseAfterRevocation` is not inductive, because a request stamps a row that may have been revoked since it
read it. `Touching` adds that such a request began its transaction no later than the revocation was committed; it holds
because the SELECT that begins the transaction refuses a revoked row, and a revocation is stamped with a time that is not
before that. `Carries` ties the presented prefix to the stored one, which is what makes the verdict `revoked_key` and not
`unknown_prefix` or `hash_mismatch`; `Refused` follows a request that came too late. `OneActiveKey`
needs `Vacant`: between the check and the insert of the only script that mints, its drone has no active key, because
revocations are for good and nobody else inserts. For the refinement, six lemmas restate
the actions of `Credential` in terms of `AcceptedWith`, `AnswerOf` and `CredentialState`, and `StepMaps` has one step per action:
Present maps to a stutter or Refuse, VerifySelect to Accept or Refuse, VerifyTouch to Serve or, if the reply to its commit is lost, to Refuse, MintInsert to Issue, the
revocations to Revoke, an error of a request to Refuse and everything else to a stutter.

`AuthzProofs` proves, from the named assumptions in `Rbac` and `Authz` (null values are no members, drones are no users, the
depth is a natural number), for every set of orgs, deep, cyclic or infinite:

| Theorem | States |
|---|---|
| `Invariance` | `Spec => []IInv` |
| `TypeCorrect`, `RevokedAtOnce`, `DenialsRecorded` | the invariants `TypeOK`, `RevocationImmediate`, `DenialOnRecord` |
| `OnlyFromAbove` | the action property `AllowedFromAbove` |
| `ClosestDecides` | the action property `ClosestGrantWins` |

The argument. The state properties need `Local`, which ties the program counter of a request to what it has read and
written; `Resolved`, the staleness of its target org; and `Powerless`, that a user without grants has had none since the
request came. The action properties are the theorems of `RbacProofs` at the moment of the query.

`RbacProofs` proves, from the assumptions in `Rbac` and for every set of orgs and every `parent`, deep, cyclic or infinite:

| Theorem | States |
|---|---|
| `CheckIsDecision` | `CheckPermission` is `Decision`: the recursive query, its join, its order and its limit return exactly what the reference allows |
| `AncestorsInLine` | of two ancestors of an org exactly one comes before the other, so the closest is never ambiguous |
| `EveryPermissionHeld` | the branch `permission_not_in_any_role` of `check_permission` is dead with the bundles of v1 |
| `OthersDoNotMatter` | isolation of tenants: parents and grants outside the lineage of the target, and grants of other users, never change a decision |
| `MoreGrantsMoreAllowed` | a further grant denies nothing and moves the decision to no org farther up |
| `DepthDeniesNothing` | with at most `MAX_HIERARCHY_DEPTH` ancestors the cap denies nothing |
| `AuthorityFlowsDown` | who may act on the parent may act on the org, unless the grant is at the last level of the walk |
| `FailsClosed` | without a grant on the lineage the answer is a denial, on a cycle and on an endless chain too |

The argument. `ChainIsLineage` says that the orgs on walks from the target are its lineage: a walk never leaves a set that is
closed under `parent` (`WalkStays`), and the orgs on walks are closed. `ShortestWalk` gives every ancestor a walk of least
length; the orgs on it are met before the last one and are all different (`ShortestIsBefore`, `ShortestIsSimple`), so the
length of the walk is the `Distance` of the reference (`DistanceAtMost`, `DistanceAtLeast`). `ClosestWins` then compares two
ancestors by their least walks, also on cycles, where the chain holds an org at several depths. Two walks of one length end at
one org (`WalksAgree`), so a shorter walk means to come before (`SoonerIsBefore`): hence `AncestorsInLine`, and the closest row of
the query is the nearest org of the reference and the other way round (`ClosestIsNearest`, `NearestIsClosest`). The last five
theorems start from `CheckIsDecision`; isolation carries a walk over to another hierarchy with the same lineage (`WalkTransfers`,
`LineageTransfers`). Least elements come from the well-foundedness of the subset ordering on finite sets (`LeastNatural`),
which takes the place of an induction.

`TelemetryProofs` proves, from the named assumptions in `Telemetry` (null values are no members, requests are no streams):

| Theorem | States |
|---|---|
| `Invariance` | `Spec => []IInv` |
| `TypeCorrect`, `TelemetryAttributed`, `LatestStored` | the invariants `TypeOK`, `Attributed`, `StoredIsLatest` |
| `BroadcastRefinement` | `Spec => FeedSpec` |
| `StreamsInOrder` | `ShownInOrder`, the part of `FeedSpec` that one state shows |
| `FailuresDropped` | `NeverSurfaced`, the part of `FireAndForget` that needs no fairness: a request with an accepted key never ends in a 401 or 500 |
| `UsesCredentials` | `Spec => Cred!Spec`: the composition gives keys no behaviour that `Credential`, and so `ApiKeys`, does not have |

The argument. `Accepted` says that a request that can still write was served with a key, and that one whose key was revoked
before it came never is. `Relayed` says where a stream is in its channel: what it has shown is the channel from `since` on, and
its inbox is what comes next (`Behind`, with the confirmation still in front or not); as long as Redis knows the stream, the
inbox reaches to the end of the channel. `Fresh` says, of a drone without failures and overlaps, that at most one request is
between SET and PUBLISH and that what is stored is its message or the last one published.

The refinement adds `PublishedOver`: a request whose message is on a channel has been answered 200 (also when the reply to its
PUBLISH was lost), so it publishes nothing again. Publish and a PublishFails that took effect map to Publish, Subscribed to Join,
Relay to Show or, for a confirmation, to a stutter, everything else to a stutter (`Unseen`). That the message relayed is the next
one of the channel is `Behind`.

`BootstrapProofs` proves, from the named assumption in `Schema` (null values are no members), for any number of rows and
runs:

| Theorem | States |
|---|---|
| `Invariance` | `Spec => []IInv` |
| `TypeCorrect`, `ReferencesHold`, `NoOp`, `NoCircle` | the invariants `TypeOK`, `NoDanglingReference`, `NoOpWhenStaffed`, `SomeRunProceeds` |
| `OneAdministrator`, `AuditOutlives` | the action properties `OneBootstrap`, `AuditKept` |
| `BootstrapRefinement` | `Spec => AtomicSpec` |
| `BootstrapAtomic` | `AllOrNothing`, the part of `AtomicSpec` about the end of a run, with the existence of its org |

The argument. `Holds` says what a run about to commit owns although it checked it statements ago: its user id and email are
in no row and in no other open transaction, and its org exists or is its own to insert; it survives the steps of other runs
because their INSERTs of the same keys wait, and those of operators because a DELETE of the org waits. `Versioned` ties the
tables to the revision, `Origin` every user to the configuration of a run, which is what `OneAdministrator` needs: with one
email for all, an administrator would be a user with the email of the run that commits. `NoCircle` holds because a
run waits for the key of an org first and for that of an email second: whoever holds an org may wait for an email, but
whoever holds an email has only its commit before it.

The refinement adds `OrgHeld`: an org that is inserted and not committed is the only one, and until the commit nobody else
commits its id or the slug; the INSERTs of other runs wait for it or fail. SelectAdminRole maps to Start or Refuse, Commit to
Perform with the outcome the run sees, every end of a run without effect to Refuse, migrations and operators to Around (`AroundRefines`), the statements in
between to stutters (`MiddleRefines`).

Only model-checked: `Answered`, `FireAndForget` and `EventuallyShown`, liveness properties under fairness, which the prover does
not reach. All other properties of the passing runs are proved; those that need more than the specification say so
(`DoomedAreRefused`, `ApartRefinement`, `OneActiveKey`).

## Not modelled

- Password hashing: in `Login` it is the choice between a wrong and a right password. Hash functions and token formats: a
  secret is a model value, `parse_key` is the choice of a malformed key.
- HTTP headers and cookie attributes; structured logging except the reason of a refused key; the free-text columns of the
  audit log; the request id (see the findings).
- The validation of single telemetry fields: pure comparisons with unit tests; its outcome and its place are in `Telemetry`.
- Column types, server defaults, indexes and the offline mode of alembic: no decision of the code depends on them.
- Configuration, wiring, health: no state. The simulator is a development client, mediamtx a third-party server.

## Plan

Done: the core (login, sessions, keys), authorization, telemetry, bootstrap with the schema, their proofs, and a refinement of an
abstract specification for each of login, sessions, keys, telemetry and bootstrap. What is left, in this order:

1. Composition of login and sessions: the row of `sessions` that `CommitGrant` inserts is the one `AuthSelect` finds, with the
   account deactivated in between; so far both modules have a session table of their own.
2. Composition of `Authz` with `Sessions`: a request whose session is revoked between the dependency and the route.
3. Composition of `Telemetry` with the connection pool of `Login`: ingest takes a connection for its authentication, so
   logins and drones compete for the same 15.
