------------------------------ MODULE Sessions ------------------------------
(***************************************************************************)
(* Server-side sessions: app/auth/session.py, the dependency               *)
(* get_current_user of app/auth/dependencies.py, and the two routes of     *)
(* app/api/v1/auth.py that stand on it, /me and /logout.                   *)
(*                                                                         *)
(* A session row is named by the token whose hash it stores.  Every        *)
(* statement reads the last committed rows (READ COMMITTED), a commit      *)
(* writes only the columns its transaction changed, and handlers           *)
(* interleave between statements.                                          *)
(***************************************************************************)
EXTENDS Naturals

CONSTANTS
    Tokens,     \* tokens the server can issue
    Forged,     \* a token no row stores the hash of
    NoToken,    \* no cookie, or no bearer header
    Users,
    NoUser,
    Requests,   \* HTTP requests and operator calls
    TTL,        \* SESSION_TTL_DAYS
    IDLE,       \* IDLE_TIMEOUT_DAYS
    DEBOUNCE,   \* LAST_SEEN_DEBOUNCE_MINUTES
    LATENCY,    \* ticks a statement may be under way: assumed of the database
    MAX_TIME    \* bound of the clock

ASSUME TokenAssumption == Forged \notin Tokens /\ NoToken \notin Tokens \cup {Forged}
ASSUME UserAssumption == NoUser \notin Users
ASSUME TimeoutAssumption == {TTL, IDLE, DEBOUNCE, LATENCY} \subseteq Nat
ASSUME TimeAssumption == MAX_TIME \in Nat \ {0}

VARIABLES
    now,       \* the clock
    sessions,  \* table sessions
    active,    \* accounts with users.is_active
    logouts,   \* requests with an audit_log row "logout"
    pc,        \* where the handler stands
    req,       \* what the request carries
    at,        \* the time the handler took for "now"
    batch,     \* the rows revoke_all_user_sessions selected
    doomed,    \* history: requests whose credential was dead when they came
    existed,   \* history: the sessions a revoke-all found, revoked or not
    lastUse    \* history: the last time a session was judged alive

vars == <<now, sessions, active, logouts, pc, req, at, batch, doomed, existed, lastUse>>

NULL == 0
Timestamp == Nat
Clock == 1..MAX_TIME
Transports == {"cookie", "bearer"}

\* user is NoUser while no row stores the hash of the token.
SessionRow == [user: Users \cup {NoUser}, transport: Transports,
               expires_at: Timestamp, last_seen_at: Timestamp, revoked_at: Timestamp]

NoRow == [user |-> NoUser, transport |-> "cookie", expires_at |-> NULL,
          last_seen_at |-> NULL, revoked_at |-> NULL]

Carried == Tokens \cup {Forged, NoToken}
Kinds == {"me", "logout", "revoke_all"}
Request == [kind: Kinds, token: Carried, cookie: BOOLEAN,
            user: Users \cup {NoUser}, transport: Transports \cup {"any"}]
NoRequest == [kind |-> "me", token |-> NoToken, cookie |-> FALSE,
              user |-> NoUser, transport |-> "any"]

Answers == {"200", "401", "500"}
States == {"idle", "select", "touch", "user", "logout", "revoke", "audit", "revoke_all"}
              \cup Answers

Init ==
    /\ now = 1
    /\ sessions = [s \in Tokens |-> NoRow]
    /\ active = Users
    /\ logouts = {}
    /\ pc = [r \in Requests |-> "idle"]
    /\ req = [r \in Requests |-> NoRequest]
    /\ at = [r \in Requests |-> 1]
    /\ batch = [r \in Requests |-> {}]
    /\ doomed = {}
    /\ existed = [r \in Requests |-> {}]
    /\ lastUse = [s \in Tokens |-> NULL]

-----------------------------------------------------------------------------
(* The row of a token, and lookup_session's verdicts on it in their order. *)

Issued == {s \in Tokens : sessions[s].user # NoUser}
Row(token) == IF token \in Tokens THEN sessions[token] ELSE NoRow

\* mutant: the hard expiry is not enforced on a session in use
Rejected_expired(row) ==
    \/ row.user = NoUser
    \/ row.revoked_at # NULL
    \/ row.last_seen_at + IDLE < now
Rejected(row) ==
    \/ row.user = NoUser
    \/ row.revoked_at # NULL
    \/ now > row.expires_at
    \/ row.last_seen_at + IDLE < now

\* mutant: the debounce is measured against the idle window
Stale_idle(row) == now > row.last_seen_at + DEBOUNCE + IDLE
Stale(row) == now > row.last_seen_at + DEBOUNCE

\* The cookie wins over the bearer header, whatever it holds.
TokenOf(cookie, bearer) == IF cookie # NoToken THEN cookie ELSE bearer

\* mutant: the transport filter is dropped
Matches_all(row, user, transport) == row.user = user
\* mutant: the filter of a selective revocation is taken for any
Matches_filtered(row, user, transport) == row.user = user /\ row.transport = transport
Matches(row, user, transport) ==
    row.user = user /\ transport \in {"any", row.transport}

-----------------------------------------------------------------------------
\* create_session and the commit of its caller.  last_seen_at is the server
\* default now(), the start of a transaction that began up to LATENCY ago;
\* expires_at is computed in between from the clock of the application.
Issue(s, u, transport, start, created) ==
    /\ sessions[s].user = NoUser
    /\ start <= created /\ created <= now /\ now <= start + LATENCY
    /\ sessions' = [sessions EXCEPT ![s] =
          [user |-> u, transport |-> transport, expires_at |-> created + TTL,
           last_seen_at |-> start, revoked_at |-> NULL]]
    /\ UNCHANGED <<now, active, logouts, pc, req, at, batch, doomed, existed, lastUse>>

\* A request comes in.  It is doomed if what it carries is already dead: no
\* row, revoked, expired, an inactive account, or idle for so long that no
\* touch still under way can revive it.
Dead(row) ==
    \/ row.user \notin active
    \/ row.revoked_at # NULL
    \/ now > row.expires_at
    \/ now > row.last_seen_at + IDLE + LATENCY

Arrive(r, kind, cookie, bearer) ==
    LET token == TokenOf(cookie, bearer)
    IN  /\ pc[r] = "idle"
        /\ req' = [req EXCEPT ![r] = [NoRequest EXCEPT !.kind = kind, !.token = token,
                                                       !.cookie = cookie # NoToken]]
        /\ IF token = NoToken
           THEN pc' = [pc EXCEPT ![r] = "401"] /\ UNCHANGED doomed
           ELSE /\ pc' = [pc EXCEPT ![r] = "select"]
                /\ doomed' = IF Dead(Row(token)) THEN doomed \cup {r} ELSE doomed
        /\ UNCHANGED <<now, sessions, active, logouts, at, batch, existed, lastUse>>

-----------------------------------------------------------------------------
(* get_current_user.                                                       *)

\* The SELECT of lookup_session and the verdict, without an await between.
AuthSelect(r) ==
    LET row == Row(req[r].token)
    IN  /\ pc[r] = "select"
        /\ \/ /\ Rejected(row)
              /\ pc' = [pc EXCEPT ![r] = "401"]
              /\ UNCHANGED <<at, lastUse>>
           \/ /\ ~Rejected(row) /\ Stale(row)
              /\ pc' = [pc EXCEPT ![r] = "touch"]
              /\ at' = [at EXCEPT ![r] = now]
              /\ UNCHANGED lastUse
           \/ /\ ~Rejected(row) /\ ~Stale(row)
              /\ pc' = [pc EXCEPT ![r] = "user"]
              /\ lastUse' = [lastUse EXCEPT ![req[r].token] = now]
              /\ UNCHANGED at
        /\ UNCHANGED <<now, sessions, active, logouts, req, batch, doomed, existed>>

\* Only last_seen_at differs from what was read, so only it is written.
\* mutant: the whole row is written back as it was read
TouchedRow_whole(row, t) == [row EXCEPT !.last_seen_at = t, !.revoked_at = NULL]
TouchedRow(row, t) == [row EXCEPT !.last_seen_at = t]

Touch(r) ==
    /\ pc[r] = "touch"
    /\ sessions' = [sessions EXCEPT ![req[r].token] = TouchedRow(@, at[r])]
    /\ lastUse' = [lastUse EXCEPT ![req[r].token] = IF at[r] > @ THEN at[r] ELSE @]
    /\ pc' = [pc EXCEPT ![r] = "user"]
    /\ UNCHANGED <<now, active, logouts, req, at, batch, doomed, existed>>

\* db.get(User, ...) is a read of its own.  /me answers; /logout goes on, and
\* looks the cookie's session up again only if there is a cookie.
\* mutant: a bearer logout is answered 204 at once
NextAfterUser_204(r) ==
    IF Row(req[r].token).user \notin active THEN "401"
    ELSE IF req[r].kind = "me" THEN "200"
    ELSE IF req[r].cookie THEN "logout" ELSE "204"
NextAfterUser(r) ==
    IF Row(req[r].token).user \notin active THEN "401"
    ELSE IF req[r].kind = "me" THEN "200"
    ELSE IF req[r].cookie THEN "logout" ELSE "audit"

LoadUser(r) ==
    /\ pc[r] = "user"
    /\ pc' = [pc EXCEPT ![r] = NextAfterUser(r)]
    /\ UNCHANGED <<now, sessions, active, logouts, req, at, batch, doomed, existed, lastUse>>

-----------------------------------------------------------------------------
(* The route /logout after the dependency.                                 *)

\* The route reads the row afresh; revoke_session takes that object from the
\* identity map of the same AsyncSession and returns early if it is revoked.
LogoutSelect(r) ==
    LET row == Row(req[r].token)
    IN  /\ pc[r] = "logout"
        /\ \/ /\ row.user # NoUser /\ row.revoked_at = NULL
              /\ pc' = [pc EXCEPT ![r] = "revoke"]
              /\ at' = [at EXCEPT ![r] = now]
           \/ /\ row.user = NoUser \/ row.revoked_at # NULL
              /\ pc' = [pc EXCEPT ![r] = "audit"]
              /\ UNCHANGED at
        /\ UNCHANGED <<now, sessions, active, logouts, req, batch, doomed, existed, lastUse>>

\* mutant: the revocation is never assigned to the row
RevokedRow_lost(row, t) == row
RevokedRow(row, t) == [row EXCEPT !.revoked_at = t]

RevokeCommit(r) ==
    /\ pc[r] = "revoke"
    /\ sessions' = [sessions EXCEPT ![req[r].token] = RevokedRow(@, at[r])]
    /\ pc' = [pc EXCEPT ![r] = "audit"]
    /\ UNCHANGED <<now, active, logouts, req, at, batch, doomed, existed, lastUse>>

\* The last commit of a caller: whoever loses the reply to it takes it for a
\* failure.
LastCommit(r) == \E answer \in {"200", "500"} : pc' = [pc EXCEPT ![r] = answer]

LogoutAudit(r) ==
    /\ pc[r] = "audit"
    /\ logouts' = logouts \cup {r}
    /\ LastCommit(r)
    /\ UNCHANGED <<now, sessions, active, req, at, batch, doomed, existed, lastUse>>

-----------------------------------------------------------------------------
(* revoke_all_user_sessions, called by an operator's tool.                 *)

RevokeAllSelect(r, u, transport) ==
    LET rows == {s \in Issued : Matches(sessions[s], u, transport)}
        live == {s \in rows : sessions[s].revoked_at = NULL}
    IN  /\ pc[r] = "idle"
        /\ req' = [req EXCEPT ![r] = [NoRequest EXCEPT !.kind = "revoke_all", !.user = u,
                                                       !.transport = transport]]
        /\ existed' = [existed EXCEPT ![r] =
              {s \in Issued : sessions[s].user = u /\ transport \in {"any", sessions[s].transport}}]
        /\ batch' = [batch EXCEPT ![r] = live]
        /\ at' = [at EXCEPT ![r] = now]
        /\ pc' = [pc EXCEPT ![r] = IF live = {} THEN "200" ELSE "revoke_all"]
        /\ UNCHANGED <<now, sessions, active, logouts, doomed, lastUse>>

RevokeAllCommit(r) ==
    /\ pc[r] = "revoke_all"
    /\ sessions' = [s \in Tokens |->
          IF s \in batch[r] THEN RevokedRow(sessions[s], at[r]) ELSE sessions[s]]
    /\ LastCommit(r)
    /\ UNCHANGED <<now, active, logouts, req, at, batch, doomed, existed, lastUse>>

-----------------------------------------------------------------------------
\* A statement fails or the process dies: what is not committed is lost.
Error(r) ==
    /\ pc[r] \notin Answers \cup {"idle"}
    /\ pc' = [pc EXCEPT ![r] = "500"]
    /\ UNCHANGED <<now, sessions, active, logouts, req, at, batch, doomed, existed, lastUse>>

\* An operator deactivates an account by SQL: no code under src does.
Deactivate(u) ==
    /\ active' = active \ {u}
    /\ UNCHANGED <<now, sessions, logouts, pc, req, at, batch, doomed, existed, lastUse>>

\* Time passes, but not past a commit that has been under way for LATENCY.
Tick ==
    /\ now < MAX_TIME
    /\ \A r \in Requests : pc[r] = "touch" => now < at[r] + LATENCY
    /\ now' = now + 1
    /\ UNCHANGED <<sessions, active, logouts, pc, req, at, batch, doomed, existed, lastUse>>

Handle(r) ==
    \/ \E kind \in {"me", "logout"}, cookie, bearer \in Issued \cup {Forged, NoToken} :
          Arrive(r, kind, cookie, bearer)
    \/ AuthSelect(r) \/ Touch(r) \/ LoadUser(r)
    \/ LogoutSelect(r) \/ RevokeCommit(r) \/ LogoutAudit(r)
    \/ \E u \in Users, transport \in Transports \cup {"any"} :
          RevokeAllSelect(r, u, transport)
    \/ RevokeAllCommit(r)
    \/ Error(r)

Next ==
    \/ \E s \in Tokens, u \in Users, transport \in Transports, start, created \in 1..now :
          Issue(s, u, transport, start, created)
    \/ \E r \in Requests : Handle(r)
    \/ \E u \in Users : Deactivate(u)
    \/ Tick

Spec == Init /\ [][Next]_vars

-----------------------------------------------------------------------------
(* Properties.                                                             *)

\* Each variable keeps the shape of its table or of its handler state.
TypeOK ==
    /\ now \in Clock
    /\ sessions \in [Tokens -> SessionRow]
    /\ active \subseteq Users
    /\ logouts \subseteq Requests
    /\ pc \in [Requests -> States]
    /\ req \in [Requests -> Request]
    /\ at \in [Requests -> Clock]
    /\ batch \in [Requests -> SUBSET Tokens]
    /\ doomed \subseteq Requests
    /\ existed \in [Requests -> SUBSET Tokens]
    /\ lastUse \in [Tokens -> Timestamp]

\* A request whose session was revoked or expired, or whose account was
\* inactive, before it came in is never served, whatever runs beside it
\* (session.py:99-111, dependencies.py:97-108).
DoomedNeverServed == \A r \in doomed : pc[r] # "200"

\* A logout answered 200 to a browser has its session revoked and its audit
\* row written, also when another logout or a touch of the same session ran
\* beside it (session.py:128-130, api/v1/auth.py:175-191).
LogoutRevokes ==
    \A r \in Requests : req[r].kind = "logout" /\ pc[r] = "200"
        => /\ r \in logouts
           /\ req[r].cookie => sessions[req[r].token].revoked_at # NULL

\* When revoke_all_user_sessions returns, every session of the user and the
\* transport that was there when it looked is revoked (session.py:148-152).
RevokeAllComplete ==
    \A r \in Requests : req[r].kind = "revoke_all" /\ pc[r] = "200"
        => \A s \in existed[r] : sessions[s].revoked_at # NULL

\* A session is only ever revoked by a logout that carried its cookie, or by
\* a revocation of its user that named its transport or none (session.py:
\* 148-150 "without affecting the user's browser cookie").
RevokedByClaim ==
    \A s \in Issued : sessions[s].revoked_at # NULL =>
        \E r \in Requests :
            \/ req[r].kind = "logout" /\ req[r].cookie /\ req[r].token = s
            \/ /\ req[r].kind = "revoke_all"
               /\ req[r].user = sessions[s].user
               /\ req[r].transport \in {"any", sessions[s].transport}

\* Using a session keeps it alive: last_seen_at lags the last use by no more
\* than the debounce or the time a commit takes, although touches overwrite
\* one another without a check (session.py:113-115).
Lag == IF DEBOUNCE > LATENCY THEN DEBOUNCE ELSE LATENCY
KeepAlive == \A s \in Tokens : lastUse[s] <= sessions[s].last_seen_at + Lag

-----------------------------------------------------------------------------
\* session.py:129 "A logout that returns 200 must mean the session is
\* actually invalidated", and api/v1/auth.py:169 "Revoke the current
\* session": the session that authenticated the request.
LogoutInvalidates ==
    \A r \in Requests : req[r].kind = "logout" /\ pc[r] = "200"
        => sessions[req[r].token].revoked_at # NULL

(***************************************************************************)
(* Sessions implement the revocable credential.                            *)
(***************************************************************************)
CredentialState(row) ==
    IF row.user = NoUser THEN "absent"
    ELSE IF row.revoked_at = NULL THEN "live" ELSE "revoked"

Cred == INSTANCE Credential WITH
    Credentials <- Tokens,
    NoCredential <- NoToken,
    state <- [s \in Tokens |-> CredentialState(sessions[s])],
    accepted <- [r \in Requests |->
        IF pc[r] \in {"touch", "user", "logout", "revoke", "audit"}
              \/ (pc[r] = "200" /\ req[r].kind # "revoke_all")
        THEN req[r].token ELSE NoToken],
    answer <- [r \in Requests |->
        IF req[r].kind = "revoke_all" THEN "none"
        ELSE IF pc[r] = "200" THEN "served"
        ELSE IF pc[r] \in Answers THEN "refused" ELSE "none"]

CredentialSpec == Cred!Spec
=============================================================================
