--------------------------- MODULE SessionsProofs ---------------------------
(***************************************************************************)
(* Proofs about Sessions for any number of tokens, accounts and requests   *)
(* and any timeouts: the invariant, which is local (what a request in      *)
(* flight may rely on, as long as rows only move forward), its             *)
(* consequences, the refinement of Credential, and the fate of a request   *)
(* whose session was dead when it came in.                                 *)
(***************************************************************************)
EXTENDS Sessions, TLAPS

\* What request r may rely on at each point of its handler.
Local(r) ==
    /\ pc[r] = "idle" => req[r] = NoRequest
    /\ req[r].token \in Tokens => req[r].token \in Issued
    /\ existed[r] \subseteq Issued
    /\ pc[r] \in {"select", "touch", "user", "logout", "revoke", "audit"} =>
           req[r].kind # "revoke_all"
    /\ pc[r] \in {"touch", "user", "logout", "revoke", "audit"} => req[r].token \in Tokens
    /\ pc[r] = "touch" => at[r] <= now /\ now <= at[r] + LATENCY
    /\ pc[r] \in {"logout", "revoke"} => req[r].kind = "logout" /\ req[r].cookie
    /\ pc[r] = "audit" => req[r].kind = "logout"
    /\ pc[r] \in {"audit", "200"} /\ req[r].kind = "logout" /\ req[r].cookie =>
           req[r].token \in Tokens /\ sessions[req[r].token].revoked_at # NULL
    /\ pc[r] = "200" /\ req[r].kind = "logout" => r \in logouts
    /\ pc[r] = "revoke_all" =>
           /\ req[r].kind = "revoke_all"
           /\ \A s \in batch[r] : /\ s \in Issued
                                  /\ sessions[s].user = req[r].user
                                  /\ req[r].transport \in {"any", sessions[s].transport}
           /\ \A s \in existed[r] : s \in batch[r] \/ sessions[s].revoked_at # NULL
    /\ pc[r] = "200" /\ req[r].kind = "revoke_all" =>
           \A s \in existed[r] : sessions[s].revoked_at # NULL

\* Uses are in the past, and of issued sessions.
Uses ==
    \A s \in Tokens : /\ lastUse[s] <= now
                      /\ sessions[s].user = NoUser => lastUse[s] = NULL

IInv ==
    /\ TypeOK
    /\ \A r \in Requests : Local(r)
    /\ RevokedByClaim
    /\ Uses
    /\ KeepAlive

-----------------------------------------------------------------------------
\* No step takes back an issue or a revocation, or moves a session to another
\* account or transport.
Forward ==
    \A s \in Issued :
        /\ s \in Issued'
        /\ sessions'[s].user = sessions[s].user
        /\ sessions'[s].transport = sessions[s].transport
        /\ sessions[s].revoked_at # NULL => sessions'[s].revoked_at # NULL

\* A step that leaves request q alone.
Untouched(q) ==
    /\ pc'[q] = pc[q] /\ req'[q] = req[q] /\ at'[q] = at[q]
    /\ batch'[q] = batch[q] /\ existed'[q] = existed[q]
    /\ q \in logouts => q \in logouts'

LEMMA LocalKept ==
    ASSUME NEW q \in Requests, TypeOK, Local(q), Forward, Untouched(q), now' = now
    PROVE  Local(q)'
<1>1. existed[q] \subseteq Tokens /\ batch[q] \subseteq Tokens
  BY DEF TypeOK
<1> QED
  BY <1>1 DEF Local, Forward, Untouched, Issued

\* A session that was revoked keeps its claimant, because only idle requests
\* are given something to carry.
Claims(r, s) ==
    \/ req[r].kind = "logout" /\ req[r].cookie /\ req[r].token = s
    \/ /\ req[r].kind = "revoke_all"
       /\ req[r].user = sessions[s].user
       /\ req[r].transport \in {"any", sessions[s].transport}

LEMMA ClaimsKept ==
    ASSUME IInv, Forward,
           \A s \in Issued' \ Issued : sessions'[s].revoked_at = NULL,
           \A q \in Requests : pc[q] # "idle" => req'[q] = req[q],
           \A s \in Issued : sessions[s].revoked_at = NULL /\ sessions'[s].revoked_at # NULL
               => \E q \in Requests : pc[q] # "idle" /\ Claims(q, s)
    PROVE  RevokedByClaim'
<1> SUFFICES ASSUME NEW s \in Issued', sessions'[s].revoked_at # NULL
             PROVE  \E q \in Requests : Claims(q, s)'
  BY DEF RevokedByClaim, Claims
<1>1. s \in Issued
  OBVIOUS
<1>2. PICK q \in Requests : pc[q] # "idle" /\ Claims(q, s)
  <2>1. CASE sessions[s].revoked_at = NULL
    BY <1>1, <2>1
  <2>2. CASE sessions[s].revoked_at # NULL
    <3>1. PICK q \in Requests : Claims(q, s)
      BY <1>1, <2>2 DEF IInv, RevokedByClaim, Claims
    <3>2. pc[q] # "idle"
      BY <3>1 DEF IInv, Local, Claims, NoRequest
    <3> QED
      BY <3>1, <3>2
  <2> QED
    BY <2>1, <2>2
<1>3. Claims(q, s)'
  BY <1>1, <1>2 DEF Claims, Forward
<1> QED
  BY <1>3

\* The initial state satisfies the invariant.
THEOREM InitIInv == Init => IInv
<1> SUFFICES ASSUME Init
             PROVE  IInv
  OBVIOUS
<1>1. TypeOK
  BY TimeAssumption DEF Init, TypeOK, Clock, SessionRow, NoRow, Transports, Timestamp,
     NULL, Request, NoRequest, Kinds, Carried, States
<1>2. \A r \in Requests : Local(r)
  BY TokenAssumption DEF Init, Local, NoRequest
<1>3. Issued = {}
  BY DEF Init, Issued, NoRow
<1>4. RevokedByClaim /\ Uses /\ KeepAlive
  BY <1>3, TimeoutAssumption DEF Init, RevokedByClaim, Uses, KeepAlive, Lag, NoRow, NULL
<1> QED
  BY <1>1, <1>2, <1>4 DEF IInv

-----------------------------------------------------------------------------
(* One lemma per action.  A step of request r is checked at r; the others   *)
(* are untouched.                                                           *)

LEMMA RequestStep ==
    ASSUME IInv, NEW r \in Requests, Forward, now' = now, Issued' \subseteq Issued,
           \A q \in Requests \ {r} : Untouched(q),
           pc[r] # "idle" => req'[r] = req[r],
           \A s \in Issued : sessions[s].revoked_at = NULL /\ sessions'[s].revoked_at # NULL
               => pc[r] # "idle" /\ Claims(r, s),
           TypeOK', Local(r)', (Uses /\ KeepAlive)'
    PROVE  IInv'
<1>1. \A q \in Requests : Local(q)'
  BY LocalKept DEF IInv
<1>2. RevokedByClaim'
  <2>1. \A q \in Requests : pc[q] # "idle" => req'[q] = req[q]
    BY DEF Untouched
  <2> QED
    BY <2>1, ClaimsKept
<1> QED
  BY <1>1, <1>2 DEF IInv

\* A step that leaves the table alone.
LEMMA QuietStep ==
    ASSUME IInv, NEW r \in Requests, UNCHANGED <<now, sessions>>,
           \A q \in Requests \ {r} : Untouched(q),
           pc[r] # "idle" => req'[r] = req[r],
           TypeOK', Local(r)', (Uses /\ KeepAlive)'
    PROVE  IInv'
<1>1. Forward /\ Issued' \subseteq Issued
  BY DEF Forward, Issued
<1> QED
  BY <1>1, RequestStep

LEMMA ArriveKeeps ==
    ASSUME IInv, NEW r \in Requests, NEW kind \in {"me", "logout"},
           NEW cookie \in Issued \cup {Forged, NoToken},
           NEW bearer \in Issued \cup {Forged, NoToken},
           Arrive(r, kind, cookie, bearer)
    PROVE  IInv'
<1> DEFINE token == TokenOf(cookie, bearer)
<1>1. token \in Carried /\ token \in Issued \cup {Forged, NoToken}
  BY DEF TokenOf, Carried, Issued
<1>2. /\ pc[r] = "idle"
      /\ req' = [req EXCEPT ![r] = [NoRequest EXCEPT !.kind = kind, !.token = token,
                                                     !.cookie = cookie # NoToken]]
      /\ pc' = [pc EXCEPT ![r] = pc'[r]] /\ pc'[r] \in {"401", "select"}
      /\ doomed' \subseteq Requests
      /\ UNCHANGED <<now, sessions, active, logouts, at, batch, existed, lastUse>>
  BY DEF Arrive, IInv, TypeOK
<1> HIDE DEF token
<1>3. [NoRequest EXCEPT !.kind = kind, !.token = token, !.cookie = cookie # NoToken] \in Request
  BY <1>1 DEF NoRequest, Request, Kinds, Carried
<1>4. TypeOK'
  BY <1>2, <1>3 DEF IInv, TypeOK, States, Answers
<1>5. Local(r)'
  <2>1. /\ req'[r].kind = kind /\ req'[r].token = token
        /\ req'[r] = [NoRequest EXCEPT !.kind = kind, !.token = token,
                                       !.cookie = cookie # NoToken]
    BY <1>2, <1>3 DEF IInv, TypeOK, Request, NoRequest
  <2> QED
    BY <1>1, <1>2, <2>1, TokenAssumption DEF IInv, Local, Issued
<1>6. \A q \in Requests \ {r} : Untouched(q)
  BY <1>2 DEF Untouched, IInv, TypeOK
<1>7. (Uses /\ KeepAlive)'
  BY <1>2 DEF IInv, Uses, KeepAlive
<1> QED
  BY <1>2, <1>4, <1>5, <1>6, <1>7, QuietStep

\* An accepted row was issued.
LEMMA NotRejected ==
    ASSUME TypeOK, NEW r \in Requests, ~Rejected(Row(req[r].token))
    PROVE  /\ req[r].token \in Issued /\ Row(req[r].token) = sessions[req[r].token]
           /\ sessions[req[r].token].revoked_at = NULL
           /\ sessions[req[r].token] \in SessionRow
BY DEF Rejected, Row, NoRow, Issued, TypeOK

LEMMA AuthSelectKeeps ==
    ASSUME IInv, NEW r \in Requests, AuthSelect(r)
    PROVE  IInv'
<1> DEFINE token == req[r].token
<1>1. /\ pc[r] = "select" /\ req[r].kind # "revoke_all"
      /\ pc' = [pc EXCEPT ![r] = pc'[r]]
      /\ UNCHANGED <<now, sessions, active, logouts, req, batch, doomed, existed>>
      /\ \A q \in Requests : q # r => pc'[q] = pc[q] /\ at'[q] = at[q]
  BY DEF AuthSelect, IInv, TypeOK, Local
<1>2. /\ pc'[r] \in {"401", "touch", "user"}
      /\ pc'[r] \in {"touch", "user"} => token \in Issued
      /\ pc'[r] = "touch" => at'[r] = now
      /\ at' \in [Requests -> Clock]
  BY NotRejected DEF AuthSelect, IInv, TypeOK
<1>3. \/ lastUse' = lastUse
      \/ /\ token \in Issued /\ ~Stale(sessions[token])
         /\ sessions[token] \in SessionRow
         /\ lastUse' = [lastUse EXCEPT ![token] = now]
  BY NotRejected DEF AuthSelect, IInv
<1>4. TypeOK'
  <2>1. lastUse' \in [Tokens -> Timestamp]
    BY <1>3 DEF IInv, TypeOK, Clock, Timestamp
  <2>2. pc' \in [Requests -> States]
    BY <1>1, <1>2 DEF IInv, TypeOK, States, Answers
  <2> QED
    BY <1>1, <1>2, <2>1, <2>2 DEF IInv, TypeOK
<1>5. Local(r)'
  BY <1>1, <1>2, TimeoutAssumption DEF IInv, TypeOK, Local, Issued, Clock
<1>6. \A q \in Requests \ {r} : Untouched(q)
  BY <1>1 DEF Untouched
<1>7. Uses'
  BY <1>1, <1>3 DEF IInv, TypeOK, Uses, Issued, Clock
<1>8. KeepAlive'
  <2>1. CASE lastUse' = lastUse
    BY <1>1, <2>1 DEF IInv, KeepAlive
  <2>2. CASE /\ token \in Issued /\ ~Stale(sessions[token])
             /\ sessions[token] \in SessionRow
             /\ lastUse' = [lastUse EXCEPT ![token] = now]
    <3>1. now <= sessions[token].last_seen_at + Lag
      BY <2>2, TimeoutAssumption DEF Stale, Lag, SessionRow, Timestamp, IInv, TypeOK, Clock
    <3> QED
      BY <1>1, <2>2, <3>1 DEF IInv, TypeOK, KeepAlive
  <2> QED
    BY <1>3, <2>1, <2>2
<1> QED
  BY <1>1, <1>4, <1>5, <1>6, <1>7, <1>8, QuietStep

LEMMA TouchKeeps ==
    ASSUME IInv, NEW r \in Requests, Touch(r)
    PROVE  IInv'
<1> DEFINE token == req[r].token
           row == TouchedRow(sessions[token], at[r])
<1>1. /\ pc[r] = "touch" /\ token \in Issued /\ token \in Tokens
      /\ req[r].kind # "revoke_all"
      /\ sessions[token] \in SessionRow /\ at[r] \in Clock
      /\ at[r] <= now /\ now <= at[r] + LATENCY
  BY DEF Touch, IInv, TypeOK, Local
<1>2. /\ row \in SessionRow
      /\ row.user = sessions[token].user /\ row.transport = sessions[token].transport
      /\ row.revoked_at = sessions[token].revoked_at
      /\ row.last_seen_at = at[r]
  BY <1>1 DEF TouchedRow, SessionRow, Timestamp, Clock
<1>3. /\ sessions' = [sessions EXCEPT ![token] = row]
      /\ lastUse' = [lastUse EXCEPT ![token] = IF at[r] > @ THEN at[r] ELSE @]
      /\ pc' = [pc EXCEPT ![r] = "user"]
      /\ UNCHANGED <<now, active, logouts, req, at, batch, doomed, existed>>
  BY DEF Touch
<1> HIDE DEF row
<1>4. /\ sessions'[token] = row
      /\ \A s \in Tokens : s # token => sessions'[s] = sessions[s]
      /\ lastUse'[token] \in {lastUse[token], at[r]}
      /\ \A s \in Tokens : s # token => lastUse'[s] = lastUse[s]
  BY <1>1, <1>3 DEF IInv, TypeOK
<1>5. Forward /\ Issued' \subseteq Issued
  BY <1>1, <1>2, <1>4 DEF Forward, Issued
<1>6. \A q \in Requests \ {r} : Untouched(q)
  BY <1>3 DEF Untouched, IInv, TypeOK
<1>7. TypeOK'
  <2>1. lastUse' \in [Tokens -> Timestamp] /\ sessions' \in [Tokens -> SessionRow]
    BY <1>1, <1>2, <1>3 DEF IInv, TypeOK, Clock, Timestamp
  <2> QED
    BY <1>3, <2>1 DEF IInv, TypeOK, States
<1>8. Local(r)'
  <2>1. pc'[r] = "user" /\ token \in Issued' /\ Issued \subseteq Issued'
    BY <1>1, <1>3, <1>5 DEF IInv, TypeOK, Forward
  <2> QED
    BY <1>1, <1>3, <2>1 DEF IInv, Local
<1>9. Uses'
  BY <1>1, <1>2, <1>3, <1>4 DEF IInv, Uses, Issued
<1>10. KeepAlive'
  <2>1. lastUse'[token] <= at[r] + Lag
    BY <1>1, <1>4, TimeoutAssumption DEF IInv, TypeOK, Uses, Lag, Clock, Timestamp
  <2> QED
    BY <1>2, <1>4, <2>1 DEF IInv, KeepAlive, Lag
<1>11. \A s \in Issued : ~(sessions[s].revoked_at = NULL /\ sessions'[s].revoked_at # NULL)
  BY <1>2, <1>4 DEF Issued
<1> QED
  BY <1>3, <1>5, <1>6, <1>7, <1>8, <1>9, <1>10, <1>11, RequestStep

\* The steps of a handler that only move its program counter, or take the time.
LEMMA HandlerKeeps ==
    ASSUME IInv, NEW r \in Requests, LoadUser(r) \/ LogoutSelect(r) \/ LogoutAudit(r) \/ Error(r)
    PROVE  IInv'
<1>1. /\ UNCHANGED <<now, sessions, active, req, batch, doomed, existed, lastUse>>
      /\ pc' = [pc EXCEPT ![r] = pc'[r]] /\ pc'[r] \in States
      /\ \A q \in Requests \ {r} : pc'[q] = pc[q] /\ at'[q] = at[q]
      /\ at' \in [Requests -> Clock]
      /\ logouts \subseteq logouts' /\ logouts' \subseteq Requests
  BY DEF LoadUser, LogoutSelect, LogoutAudit, LastCommit, Error, IInv, TypeOK, NextAfterUser,
         States, Answers
<1>2. TypeOK'
  BY <1>1 DEF IInv, TypeOK
<1>3. \A q \in Requests \ {r} : Untouched(q)
  BY <1>1 DEF Untouched
<1>4. (Uses /\ KeepAlive)'
  BY <1>1 DEF IInv, Uses, KeepAlive
<1>5. Local(r)'
  <2>1. ASSUME LoadUser(r)
        PROVE  Local(r)'
    <3>1. /\ pc[r] = "user" /\ logouts' = logouts
          /\ \/ pc'[r] = "401"
             \/ pc'[r] = "200" /\ req[r].kind = "me"
             \/ pc'[r] = "logout" /\ req[r].kind # "me" /\ req[r].cookie
             \/ pc'[r] = "audit" /\ req[r].kind # "me" /\ ~req[r].cookie
      BY <1>1, <2>1 DEF LoadUser, NextAfterUser, IInv, TypeOK, Request
    <3>2. req[r].kind \in {"me", "logout"}
      BY <3>1 DEF IInv, TypeOK, Local, Request, Kinds
    <3> QED
      BY <1>1, <3>1, <3>2 DEF IInv, Local, Issued
  <2>2. ASSUME LogoutSelect(r)
        PROVE  Local(r)'
    <3>1. /\ pc[r] = "logout" /\ logouts' = logouts /\ req[r].token \in Issued
          /\ \/ pc'[r] = "revoke"
             \/ pc'[r] = "audit" /\ sessions[req[r].token].revoked_at # NULL
      BY <1>1, <2>2 DEF LogoutSelect, IInv, TypeOK, Local, Row, Issued
    <3> QED
      BY <1>1, <3>1 DEF IInv, Local, Issued
  <2>3. ASSUME LogoutAudit(r)
        PROVE  Local(r)'
    <3>1. pc[r] = "audit" /\ pc'[r] \in {"200", "500"} /\ r \in logouts'
      BY <2>3 DEF LogoutAudit, LastCommit, IInv, TypeOK
    <3> QED
      BY <1>1, <3>1 DEF IInv, Local, Issued
  <2>4. ASSUME Error(r)
        PROVE  Local(r)'
    <3>1. pc'[r] = "500"
      BY <2>4 DEF Error, IInv, TypeOK
    <3> QED
      BY <1>1, <3>1 DEF IInv, Local, Issued
  <2> QED
    BY <2>1, <2>2, <2>3, <2>4
<1> QED
  BY <1>1, <1>2, <1>3, <1>4, <1>5, QuietStep

\* What assigning revoked_at does to a row.
LEMMA RevokedFacts ==
    ASSUME NEW row \in SessionRow, NEW t \in Clock
    PROVE  /\ RevokedRow(row, t) \in SessionRow
           /\ RevokedRow(row, t).user = row.user
           /\ RevokedRow(row, t).transport = row.transport
           /\ RevokedRow(row, t).last_seen_at = row.last_seen_at
           /\ RevokedRow(row, t).revoked_at # NULL
BY DEF RevokedRow, SessionRow, Timestamp, Clock, NULL

\* A commit of request r that revokes the rows of some issued tokens.
LEMMA RevocationKeeps ==
    ASSUME IInv, NEW r \in Requests, NEW revoked \in SUBSET Issued, NEW status \in States,
           sessions' = [s \in Tokens |-> IF s \in revoked THEN RevokedRow(sessions[s], at[r])
                                                          ELSE sessions[s]],
           pc[r] # "idle", pc' = [pc EXCEPT ![r] = status],
           UNCHANGED <<now, active, logouts, req, at, batch, doomed, existed, lastUse>>,
           \A s \in revoked : Claims(r, s),
           Local(r)'
    PROVE  IInv'
<1>1. \A s \in Tokens : sessions[s] \in SessionRow
  BY DEF IInv, TypeOK
<1>2. at[r] \in Clock
  BY DEF IInv, TypeOK
<1>3. /\ sessions' \in [Tokens -> SessionRow]
      /\ \A s \in Tokens :
            /\ sessions'[s].user = sessions[s].user
            /\ sessions'[s].transport = sessions[s].transport
            /\ sessions'[s].last_seen_at = sessions[s].last_seen_at
            /\ IF s \in revoked THEN sessions'[s].revoked_at # NULL
                                ELSE sessions'[s] = sessions[s]
  BY <1>1, <1>2, RevokedFacts
<1>4. Forward /\ Issued' \subseteq Issued
  BY <1>3 DEF Forward, Issued
<1>5. \A q \in Requests \ {r} : Untouched(q)
  BY DEF Untouched, IInv, TypeOK
<1>6. TypeOK'
  BY <1>3 DEF IInv, TypeOK
<1>7. (Uses /\ KeepAlive)'
  BY <1>3 DEF IInv, Uses, KeepAlive
<1>8. \A s \in Issued : sessions[s].revoked_at = NULL /\ sessions'[s].revoked_at # NULL
          => Claims(r, s)
  BY <1>3 DEF Issued
<1> QED
  BY <1>4, <1>5, <1>6, <1>7, <1>8, RequestStep

LEMMA RevokeCommitKeeps ==
    ASSUME IInv, NEW r \in Requests, RevokeCommit(r)
    PROVE  IInv'
<1>1. PICK token \in Issued : token = req[r].token
  BY DEF RevokeCommit, IInv, Local
<1>2. /\ pc[r] = "revoke" /\ req[r].kind = "logout" /\ req[r].cookie
      /\ sessions[token] \in SessionRow /\ at[r] \in Clock /\ token \in Tokens
  BY <1>1 DEF RevokeCommit, IInv, TypeOK, Local, Issued
<1>3. /\ sessions' = [s \in Tokens |-> IF s \in {token} THEN RevokedRow(sessions[s], at[r])
                                                         ELSE sessions[s]]
      /\ pc' = [pc EXCEPT ![r] = "audit"]
      /\ UNCHANGED <<now, active, logouts, req, at, batch, doomed, existed, lastUse>>
  BY <1>1 DEF RevokeCommit, IInv, TypeOK
<1>4. Local(r)'
  <2>1. sessions'[token].revoked_at # NULL /\ Issued \subseteq Issued'
    BY <1>2, <1>3, RevokedFacts DEF IInv, TypeOK, Issued
  <2>2. pc'[r] = "audit"
    BY <1>3 DEF IInv, TypeOK
  <2> QED
    BY <1>1, <1>2, <1>3, <2>1, <2>2 DEF IInv, Local
<1>5. \A s \in {token} : Claims(r, s)
  BY <1>1, <1>2 DEF Claims
<1>6. {token} \in SUBSET Issued /\ "audit" \in States
  BY <1>1 DEF States
<1> QED
  BY <1>2, <1>3, <1>4, <1>5, <1>6, RevocationKeeps

LEMMA RevokeAllCommitKeeps ==
    ASSUME IInv, NEW r \in Requests, RevokeAllCommit(r)
    PROVE  IInv'
<1>1. PICK revoked \in SUBSET Issued : revoked = batch[r]
  BY DEF RevokeAllCommit, IInv, Local
<1>2. /\ pc[r] = "revoke_all" /\ req[r].kind = "revoke_all"
      /\ \A s \in revoked : Claims(r, s)
      /\ \A s \in existed[r] : s \in revoked \/ sessions[s].revoked_at # NULL
      /\ existed[r] \subseteq Issued /\ at[r] \in Clock
  BY <1>1 DEF RevokeAllCommit, IInv, TypeOK, Local, Claims
<1>3. /\ sessions' = [s \in Tokens |-> IF s \in revoked THEN RevokedRow(sessions[s], at[r])
                                                         ELSE sessions[s]]
      /\ UNCHANGED <<now, active, logouts, req, at, batch, doomed, existed, lastUse>>
  BY <1>1 DEF RevokeAllCommit
<1>3a. PICK answer \in {"200", "500"} : pc' = [pc EXCEPT ![r] = answer]
  BY DEF RevokeAllCommit, LastCommit
<1>4. Local(r)'
  <2>1. \A s \in Tokens : sessions[s] \in SessionRow
    BY DEF IInv, TypeOK
  <2>2. \A s \in Issued : /\ s \in Issued'
                          /\ s \in revoked => sessions'[s].revoked_at # NULL
                          /\ s \notin revoked => sessions'[s] = sessions[s]
    BY <1>2, <1>3, <2>1, RevokedFacts DEF Issued
  <2>3. pc'[r] \in {"200", "500"}
    BY <1>3a DEF IInv, TypeOK
  <2> QED
    BY <1>2, <1>3, <2>2, <2>3 DEF IInv, Local
<1>5. answer \in States
  BY DEF States, Answers
<1> QED
  BY <1>2, <1>3, <1>3a, <1>4, <1>5, RevocationKeeps

LEMMA RevokeAllSelectKeeps ==
    ASSUME IInv, NEW r \in Requests, NEW u \in Users,
           NEW transport \in Transports \cup {"any"}, RevokeAllSelect(r, u, transport)
    PROVE  IInv'
<1> DEFINE carried == [NoRequest EXCEPT !.kind = "revoke_all", !.user = u,
                                        !.transport = transport]
           rows == {s \in Issued : Matches(sessions[s], u, transport)}
           live == {s \in rows : sessions[s].revoked_at = NULL}
           status == IF live = {} THEN "200" ELSE "revoke_all"
<1>1. /\ carried \in Request
      /\ carried.kind = "revoke_all" /\ carried.user = u /\ carried.transport = transport
      /\ carried.token = NoToken
  BY DEF NoRequest, Request, Kinds, Carried
<1>2. /\ pc[r] = "idle"
      /\ req' = [req EXCEPT ![r] = carried]
      /\ existed' = [existed EXCEPT ![r] = rows]
      /\ batch' = [batch EXCEPT ![r] = live]
      /\ at' = [at EXCEPT ![r] = now]
      /\ pc' = [pc EXCEPT ![r] = status]
      /\ UNCHANGED <<now, sessions, active, logouts, doomed, lastUse>>
  BY DEF RevokeAllSelect, Matches
<1>3. /\ rows \subseteq Issued /\ live \subseteq Issued /\ Issued \subseteq Tokens
      /\ \A s \in live : sessions[s].user = u /\ transport \in {"any", sessions[s].transport}
      /\ \A s \in rows : s \in live \/ sessions[s].revoked_at # NULL
      /\ status = "200" => live = {}
      /\ status \in {"200", "revoke_all"}
  BY DEF Matches, Issued
<1> HIDE DEF carried, rows, live, status
<1>4. TypeOK'
  BY <1>1, <1>2, <1>3 DEF IInv, TypeOK, States, Answers
<1>5. Local(r)'
  <2>1. /\ req'[r] = carried /\ existed'[r] = rows /\ batch'[r] = live /\ pc'[r] = status
        /\ Issued' = Issued
    BY <1>2 DEF IInv, TypeOK, Issued
  <2> QED
    BY <1>1, <1>2, <1>3, <2>1, TokenAssumption DEF Local
<1>6. \A q \in Requests \ {r} : Untouched(q)
  BY <1>2 DEF Untouched, IInv, TypeOK
<1>7. (Uses /\ KeepAlive)'
  BY <1>2 DEF IInv, Uses, KeepAlive
<1> QED
  BY <1>2, <1>4, <1>5, <1>6, <1>7, QuietStep

LEMMA IssueKeeps ==
    ASSUME IInv, NEW s \in Tokens, NEW u \in Users, NEW transport \in Transports,
           NEW start \in 1..now, NEW created \in 1..now, Issue(s, u, transport, start, created)
    PROVE  IInv'
<1> DEFINE row == [user |-> u, transport |-> transport, expires_at |-> created + TTL,
                   last_seen_at |-> start, revoked_at |-> NULL]
<1>1. /\ row \in SessionRow /\ row.user = u /\ row.revoked_at = NULL
      /\ row.last_seen_at = start /\ start \in Nat /\ u # NoUser
  BY TimeoutAssumption, UserAssumption DEF SessionRow, Timestamp, NULL, IInv, TypeOK, Clock
<1>2. /\ s \notin Issued
      /\ sessions' = [sessions EXCEPT ![s] = row]
      /\ UNCHANGED <<now, active, logouts, pc, req, at, batch, doomed, existed, lastUse>>
  BY DEF Issue, Issued
<1> HIDE DEF row
<1>3. sessions'[s] = row /\ \A j \in Tokens : j # s => sessions'[j] = sessions[j]
  BY <1>2 DEF IInv, TypeOK
<1>4. Forward /\ \A j \in Issued' \ Issued : sessions'[j].revoked_at = NULL
  BY <1>1, <1>2, <1>3 DEF Forward, Issued
<1>5. TypeOK'
  BY <1>1, <1>2 DEF IInv, TypeOK
<1>6. \A q \in Requests : Local(q)'
  <2>1. \A q \in Requests : Untouched(q)
    BY <1>2 DEF Untouched
  <2> QED
    BY <1>2, <1>4, <2>1, LocalKept DEF IInv
<1>7. RevokedByClaim'
  <2>1. \A j \in Issued : sessions'[j] = sessions[j]
    BY <1>2, <1>3 DEF Issued
  <2> QED
    BY <1>2, <1>4, <2>1, ClaimsKept
<1>8. (Uses /\ KeepAlive)'
  <2>1. lastUse[s] = NULL
    BY <1>2 DEF IInv, Uses, Issued
  <2>2. lastUse[s] <= start + Lag
    BY <1>1, <2>1, TimeoutAssumption DEF Lag, NULL
  <2>3. Uses'
    BY <1>1, <1>2, <1>3 DEF IInv, Uses
  <2>4. KeepAlive'
    BY <1>1, <1>2, <1>3, <2>2 DEF IInv, KeepAlive, Lag
  <2> QED
    BY <2>3, <2>4
<1> QED
  BY <1>5, <1>6, <1>7, <1>8 DEF IInv

LEMMA EnvironmentKeeps ==
    ASSUME IInv, Tick \/ (\E u \in Users : Deactivate(u)) \/ UNCHANGED vars
    PROVE  IInv'
<1>1. /\ UNCHANGED <<sessions, logouts, pc, req, at, batch, doomed, existed, lastUse>>
      /\ now' \in Clock /\ now <= now' /\ active' \subseteq Users
      /\ now' # now => /\ now' = now + 1
                       /\ \A r \in Requests : pc[r] = "touch" => now < at[r] + LATENCY
  BY TimeAssumption DEF IInv, TypeOK, Tick, Deactivate, vars, Clock
<1>2. TypeOK'
  BY <1>1 DEF IInv, TypeOK
<1>3. (RevokedByClaim /\ KeepAlive)'
  BY <1>1 DEF IInv, RevokedByClaim, KeepAlive, Issued
<1>4. Uses'
  BY <1>1 DEF IInv, TypeOK, Uses, Clock, Timestamp
<1>5. ASSUME NEW r \in Requests
      PROVE  Local(r)'
  <2>1. at[r] \in Nat /\ now \in Nat /\ now' \in Nat /\ LATENCY \in Nat
    BY <1>1, TimeoutAssumption DEF IInv, TypeOK, Clock
  <2>2. pc[r] = "touch" => at[r] <= now' /\ now' <= at[r] + LATENCY
    BY <1>1, <2>1 DEF IInv, Local
  <2> QED
    BY <1>1, <2>2 DEF IInv, Local, Issued
<1> QED
  BY <1>2, <1>3, <1>4, <1>5 DEF IInv

\* Every step keeps the invariant.
THEOREM NextKeeps == IInv /\ [Next]_vars => IInv'
<1> SUFFICES ASSUME IInv, [Next]_vars
             PROVE  IInv'
  OBVIOUS
<1> QED
  BY ArriveKeeps, AuthSelectKeeps, TouchKeeps, HandlerKeeps, RevokeCommitKeeps,
     RevokeAllSelectKeeps, RevokeAllCommitKeeps, IssueKeeps, EnvironmentKeeps
  DEF Next, Handle

\* IInv holds in every reachable state.
THEOREM Invariance == Spec => []IInv
BY InitIInv, NextKeeps, PTL DEF Spec

-----------------------------------------------------------------------------
(* Consequences.                                                            *)

\* Tables and handler states keep their types.
THEOREM TypeCorrect == Spec => []TypeOK
BY Invariance, PTL DEF IInv

\* A logout that a browser sees succeed has revoked the session of its cookie.
THEOREM LogoutsRevoke == Spec => []LogoutRevokes
<1>1. IInv => LogoutRevokes
  BY DEF IInv, Local, LogoutRevokes
<1> QED
  BY <1>1, Invariance, PTL

\* revoke_all_user_sessions misses none of the sessions that were there.
THEOREM RevokeAllIsComplete == Spec => []RevokeAllComplete
<1>1. IInv => RevokeAllComplete
  BY DEF IInv, Local, RevokeAllComplete
<1> QED
  BY <1>1, Invariance, PTL

\* No session is revoked without a logout or a revocation that named it.
THEOREM RevokedOnlyByClaim == Spec => []RevokedByClaim
BY Invariance, PTL DEF IInv

\* last_seen_at lags the last use by no more than debounce or latency.
THEOREM UseKeepsAlive == Spec => []KeepAlive
BY Invariance, PTL DEF IInv

-----------------------------------------------------------------------------
(* Refinement: the life of a session row and of a request is Credential's.  *)

\* What a request looks like through the refinement mapping.
Authenticated == {"touch", "user", "logout", "revoke", "audit"}
AcceptedWith(r) ==
    IF pc[r] \in Authenticated \/ (pc[r] = "200" /\ req[r].kind # "revoke_all")
    THEN req[r].token ELSE NoToken
AnswerOf(r) ==
    IF req[r].kind = "revoke_all" THEN "none"
    ELSE IF pc[r] = "200" THEN "served"
    ELSE IF pc[r] \in Answers THEN "refused" ELSE "none"

\* No row changes its state, and request q looks as before.
SameRows ==
    \A s \in Tokens : CredentialState(sessions[s])' = CredentialState(sessions[s])
SameRequest(q) == AcceptedWith(q)' = AcceptedWith(q) /\ AnswerOf(q)' = AnswerOf(q)

\* The actions of Credential in these words.
LEMMA Stutters ==
    ASSUME SameRows, \A q \in Requests : SameRequest(q)
    PROVE  UNCHANGED Cred!vars
BY DEF Cred!vars, SameRows, SameRequest, AcceptedWith, AnswerOf, Authenticated

LEMMA Accepts ==
    ASSUME NEW r \in Requests, NEW s \in Tokens, SameRows,
           \A q \in Requests \ {r} : SameRequest(q),
           AnswerOf(r) = "none", AnswerOf(r)' = "none",
           AcceptedWith(r) = NoToken, AcceptedWith(r)' = s,
           CredentialState(sessions[s]) = "live"
    PROVE  Cred!Accept(r, s)
BY DEF Cred!Accept, SameRows, SameRequest, AcceptedWith, AnswerOf, Authenticated

LEMMA Serves ==
    ASSUME NEW r \in Requests, SameRows,
           \A q \in Requests \ {r} : SameRequest(q),
           AnswerOf(r) = "none", AnswerOf(r)' = "served",
           AcceptedWith(r) # NoToken, AcceptedWith(r)' = AcceptedWith(r)
    PROVE  Cred!Serve(r)
BY DEF Cred!Serve, SameRows, SameRequest, AcceptedWith, AnswerOf, Authenticated

LEMMA Refuses ==
    ASSUME NEW r \in Requests, SameRows,
           \A q \in Requests \ {r} : SameRequest(q),
           AnswerOf(r) = "none", AnswerOf(r)' = "refused",
           AcceptedWith(r)' = NoToken
    PROVE  Cred!Refuse(r)
BY DEF Cred!Refuse, SameRows, SameRequest, AcceptedWith, AnswerOf, Authenticated

LEMMA Issues ==
    ASSUME NEW s \in Tokens, \A q \in Requests : SameRequest(q),
           CredentialState(sessions[s]) = "absent", CredentialState(sessions[s])' = "live",
           \A j \in Tokens \ {s} : CredentialState(sessions[j])' = CredentialState(sessions[j])
    PROVE  Cred!Issue(s)
BY DEF Cred!Issue, SameRequest, AcceptedWith, AnswerOf, Authenticated

LEMMA Revokes ==
    ASSUME NEW C \in SUBSET Tokens, \A q \in Requests : SameRequest(q),
           \A s \in C : CredentialState(sessions[s]) # "absent",
           \A s \in Tokens : CredentialState(sessions[s])'
                = IF s \in C THEN "revoked" ELSE CredentialState(sessions[s])
    PROVE  Cred!Revoke(C)
BY DEF Cred!Revoke, SameRequest, AcceptedWith, AnswerOf, Authenticated

\* A step of request r leaves the other requests alone.
LEMMA OthersSame ==
    ASSUME IInv, NEW r \in Requests, NEW status, pc' = [pc EXCEPT ![r] = status],
           \A q \in Requests \ {r} : req'[q] = req[q]
    PROVE  \A q \in Requests \ {r} : SameRequest(q)
BY DEF IInv, TypeOK, SameRequest, AcceptedWith, AnswerOf, Authenticated

\* A handler goes on without an answer, or answers, on rows it leaves alone.
LEMMA HandlerMaps ==
    ASSUME IInv, NEW r \in Requests, SameRows, UNCHANGED req, req[r].kind # "revoke_all",
           NEW status, pc' = [pc EXCEPT ![r] = status],
           \/ pc[r] \in Authenticated \cup {"select"} /\ status \in {"401", "500"}
           \/ pc[r] \in Authenticated /\ status \in Authenticated \cup {"200"}
    PROVE  Cred!Next \/ UNCHANGED Cred!vars
<1>1. \A q \in Requests \ {r} : SameRequest(q)
  BY OthersSame
<1>2. pc'[r] = status /\ req'[r] = req[r]
  BY DEF IInv, TypeOK
<1>3. CASE status \in {"401", "500"}
  <2>1. /\ AnswerOf(r) = "none" /\ AnswerOf(r)' = "refused"
        /\ AcceptedWith(r)' = NoToken
    BY <1>2, <1>3 DEF AcceptedWith, AnswerOf, Authenticated, Answers
  <2>2. Cred!Refuse(r)
    BY <1>1, <2>1, Refuses
  <2> QED
    BY <2>2 DEF Cred!Next, Cred!Refuse
<1>4. CASE status = "200"
  <2>1. /\ AnswerOf(r) = "none" /\ AnswerOf(r)' = "served"
        /\ AcceptedWith(r) # NoToken /\ AcceptedWith(r)' = AcceptedWith(r)
    BY <1>2, <1>4, TokenAssumption
    DEF IInv, Local, AcceptedWith, AnswerOf, Authenticated, Answers
  <2>2. Cred!Serve(r)
    BY <1>1, <2>1, Serves
  <2> QED
    BY <2>2 DEF Cred!Next, Cred!Serve
<1>5. CASE status \in Authenticated
  <2>1. SameRequest(r)
    BY <1>2, <1>5 DEF SameRequest, AcceptedWith, AnswerOf, Authenticated, Answers
  <2> QED
    BY <1>1, <2>1, Stutters
<1> QED
  BY <1>3, <1>4, <1>5 DEF Authenticated

\* A commit that revokes issued rows and leaves every request looking as before.
LEMMA RevocationMaps ==
    ASSUME IInv, NEW r \in Requests, NEW revoked \in SUBSET Issued,
           sessions' = [s \in Tokens |-> IF s \in revoked THEN RevokedRow(sessions[s], at[r])
                                                          ELSE sessions[s]],
           \A q \in Requests : SameRequest(q)
    PROVE  Cred!Next
<1>1. \A s \in Tokens : sessions[s] \in SessionRow
  BY DEF IInv, TypeOK
<1>2. at[r] \in Clock /\ revoked \in SUBSET Tokens
  BY DEF IInv, TypeOK, Issued
<1>3. \A s \in Tokens : CredentialState(sessions[s])'
          = IF s \in revoked THEN "revoked" ELSE CredentialState(sessions[s])
  BY <1>1, <1>2, RevokedFacts DEF CredentialState, Issued
<1>4. \A s \in revoked : CredentialState(sessions[s]) # "absent"
  BY DEF CredentialState, Issued
<1>5. Cred!Revoke(revoked)
  BY <1>2, <1>3, <1>4, Revokes
<1> QED
  BY <1>2, <1>5 DEF Cred!Next, Cred!Revoke

\* Every step of Sessions is a step of Credential or changes nothing there.
LEMMA StepMaps ==
    ASSUME IInv, [Next]_vars
    PROVE  [Cred!Next]_(Cred!vars)
<1>1. ASSUME NEW r \in Requests, NEW kind \in {"me", "logout"},
             NEW cookie \in Issued \cup {Forged, NoToken},
             NEW bearer \in Issued \cup {Forged, NoToken},
             Arrive(r, kind, cookie, bearer)
      PROVE  Cred!Next \/ UNCHANGED Cred!vars
  <2>1. PICK carried : req' = [req EXCEPT ![r] = carried] /\ carried.kind # "revoke_all"
    <3> DEFINE token == TokenOf(cookie, bearer)
               carried == [NoRequest EXCEPT !.kind = kind, !.token = token,
                                            !.cookie = cookie # NoToken]
    <3>1. carried.kind # "revoke_all"
      BY DEF NoRequest
    <3>2. req' = [req EXCEPT ![r] = carried]
      BY <1>1 DEF Arrive
    <3> QED
      BY <3>1, <3>2
  <2>2. /\ SameRows /\ pc[r] = "idle" /\ req[r] = NoRequest /\ req'[r].kind # "revoke_all"
        /\ pc' = [pc EXCEPT ![r] = pc'[r]] /\ pc'[r] \in {"401", "select"}
        /\ \A q \in Requests \ {r} : req'[q] = req[q]
    BY <1>1, <2>1 DEF Arrive, IInv, TypeOK, Local, SameRows, CredentialState
  <2>3. \A q \in Requests \ {r} : SameRequest(q)
    BY <2>2, OthersSame
  <2>4. AnswerOf(r) = "none" /\ AcceptedWith(r) = NoToken /\ AcceptedWith(r)' = NoToken
    BY <2>2 DEF AcceptedWith, AnswerOf, Authenticated, Answers, NoRequest
  <2>5. CASE pc'[r] = "401"
    <3>1. Cred!Refuse(r)
      BY <2>2, <2>3, <2>4, <2>5, Refuses DEF AnswerOf, Answers
    <3> QED
      BY <3>1 DEF Cred!Next, Cred!Refuse
  <2>6. CASE pc'[r] = "select"
    <3>1. SameRequest(r)
      BY <2>2, <2>4, <2>6 DEF SameRequest, AnswerOf, Answers
    <3> QED
      BY <2>2, <2>3, <3>1, Stutters
  <2> QED
    BY <2>2, <2>5, <2>6
<1>2. ASSUME NEW r \in Requests, AuthSelect(r)
      PROVE  Cred!Next \/ UNCHANGED Cred!vars
  <2>1. /\ SameRows /\ req' = req /\ pc[r] = "select" /\ req[r].kind # "revoke_all"
        /\ pc' = [pc EXCEPT ![r] = pc'[r]] /\ pc'[r] \in {"401", "touch", "user"}
    BY <1>2 DEF AuthSelect, IInv, TypeOK, Local, SameRows, CredentialState
  <2>2. CASE pc'[r] = "401"
    BY <2>1, <2>2, HandlerMaps
  <2>3. CASE pc'[r] \in {"touch", "user"}
    <3>1. PICK s \in Tokens : s = req[r].token /\ CredentialState(sessions[s]) = "live"
      BY <1>2, <2>1, <2>3, NotRejected DEF AuthSelect, IInv, TypeOK, CredentialState, Issued
    <3>2. \A q \in Requests \ {r} : SameRequest(q)
      BY <2>1, OthersSame
    <3>3. /\ AnswerOf(r) = "none" /\ AnswerOf(r)' = "none"
          /\ AcceptedWith(r) = NoToken /\ AcceptedWith(r)' = s
      BY <2>1, <2>3, <3>1 DEF AcceptedWith, AnswerOf, Authenticated, Answers
    <3>4. Cred!Accept(r, s)
      BY <2>1, <3>1, <3>2, <3>3, Accepts
    <3> QED
      BY <3>4 DEF Cred!Next, Cred!Accept
  <2> QED
    BY <2>1, <2>2, <2>3
<1>3. ASSUME NEW r \in Requests, Touch(r)
      PROVE  Cred!Next \/ UNCHANGED Cred!vars
  <2>1. /\ req' = req /\ pc[r] = "touch" /\ req[r].kind # "revoke_all"
        /\ pc' = [pc EXCEPT ![r] = "user"]
    BY <1>3 DEF Touch, IInv, Local
  <2>2. SameRows
    <3>1. \A s \in Tokens : sessions[s] \in SessionRow
      BY DEF IInv, TypeOK
    <3>2. \A s \in Tokens : /\ sessions'[s].user = sessions[s].user
                            /\ sessions'[s].revoked_at = sessions[s].revoked_at
      BY <1>3, <3>1 DEF Touch, TouchedRow, SessionRow, IInv, TypeOK
    <3> QED
      BY <3>2 DEF SameRows, CredentialState
  <2> QED
    BY <2>1, <2>2, HandlerMaps DEF Authenticated
<1>4. ASSUME NEW r \in Requests, LoadUser(r) \/ LogoutSelect(r) \/ LogoutAudit(r)
      PROVE  Cred!Next \/ UNCHANGED Cred!vars
  <2>1. /\ SameRows /\ req' = req /\ pc[r] \in Authenticated /\ req[r].kind # "revoke_all"
        /\ pc' = [pc EXCEPT ![r] = pc'[r]] /\ pc'[r] \in Authenticated \cup {"401", "200", "500"}
    BY <1>4 DEF LoadUser, LogoutSelect, LogoutAudit, LastCommit, NextAfterUser, IInv, TypeOK, Local,
                SameRows, CredentialState, Authenticated
  <2> QED
    BY <2>1, HandlerMaps
<1>5. ASSUME NEW r \in Requests, RevokeCommit(r)
      PROVE  Cred!Next
  <2>1. PICK token \in Issued : token = req[r].token
    BY <1>5 DEF RevokeCommit, IInv, Local
  <2>2. /\ sessions' = [s \in Tokens |-> IF s \in {token} THEN RevokedRow(sessions[s], at[r])
                                                           ELSE sessions[s]]
        /\ pc[r] = "revoke" /\ pc' = [pc EXCEPT ![r] = "audit"] /\ req' = req
    BY <1>5, <2>1 DEF RevokeCommit, IInv, TypeOK
  <2>3. SameRequest(r) /\ \A q \in Requests \ {r} : SameRequest(q)
    BY <2>2, OthersSame DEF IInv, TypeOK, SameRequest, AcceptedWith, AnswerOf,
                            Authenticated, Answers
  <2> QED
    BY <2>2, <2>3, RevocationMaps
<1>6. ASSUME NEW r \in Requests, NEW u \in Users, NEW transport \in Transports \cup {"any"},
             RevokeAllSelect(r, u, transport)
      PROVE  UNCHANGED Cred!vars
  <2>1. PICK carried : req' = [req EXCEPT ![r] = carried] /\ carried.kind = "revoke_all"
    <3> DEFINE carried == [NoRequest EXCEPT !.kind = "revoke_all", !.user = u,
                                            !.transport = transport]
    <3>1. carried.kind = "revoke_all"
      BY DEF NoRequest
    <3>2. req' = [req EXCEPT ![r] = carried]
      BY <1>6 DEF RevokeAllSelect
    <3> QED
      BY <3>1, <3>2
  <2>2. /\ SameRows /\ pc[r] = "idle" /\ req[r] = NoRequest /\ req'[r].kind = "revoke_all"
        /\ pc' = [pc EXCEPT ![r] = pc'[r]] /\ pc'[r] \in {"200", "revoke_all"}
        /\ \A q \in Requests \ {r} : req'[q] = req[q]
    BY <1>6, <2>1 DEF RevokeAllSelect, IInv, TypeOK, Local, SameRows, CredentialState
  <2>3. SameRequest(r)
    BY <2>2 DEF SameRequest, AcceptedWith, AnswerOf, Authenticated, Answers, NoRequest
  <2> QED
    BY <2>2, <2>3, OthersSame, Stutters
<1>7. ASSUME NEW r \in Requests, RevokeAllCommit(r)
      PROVE  Cred!Next
  <2>1. PICK revoked \in SUBSET Issued : revoked = batch[r]
    BY <1>7 DEF RevokeAllCommit, IInv, Local
  <2>2. /\ sessions' = [s \in Tokens |-> IF s \in revoked THEN RevokedRow(sessions[s], at[r])
                                                           ELSE sessions[s]]
        /\ pc[r] = "revoke_all" /\ req' = req /\ req[r].kind = "revoke_all"
        /\ \E answer \in {"200", "500"} : pc' = [pc EXCEPT ![r] = answer]
    BY <1>7, <2>1 DEF RevokeAllCommit, LastCommit, IInv, Local
  <2>3. SameRequest(r) /\ \A q \in Requests \ {r} : SameRequest(q)
    BY <2>2, OthersSame DEF IInv, TypeOK, SameRequest, AcceptedWith, AnswerOf,
                            Authenticated, Answers
  <2> QED
    BY <2>2, <2>3, RevocationMaps
<1>8. ASSUME NEW r \in Requests, Error(r)
      PROVE  Cred!Next \/ UNCHANGED Cred!vars
  <2>1. /\ SameRows /\ req' = req /\ pc' = [pc EXCEPT ![r] = "500"]
        /\ pc[r] \in Authenticated \cup {"select", "revoke_all"}
    BY <1>8 DEF Error, IInv, TypeOK, States, SameRows, CredentialState, Authenticated
  <2>2. CASE pc[r] # "revoke_all"
    BY <2>1, <2>2, HandlerMaps DEF IInv, Local, Authenticated
  <2>3. CASE pc[r] = "revoke_all"
    <3>1. req[r].kind = "revoke_all" /\ pc'[r] = "500"
      BY <2>1, <2>3 DEF IInv, TypeOK, Local
    <3>2. SameRequest(r)
      BY <2>1, <2>3, <3>1 DEF SameRequest, AcceptedWith, AnswerOf, Authenticated
    <3> QED
      BY <2>1, <3>2, OthersSame, Stutters
  <2> QED
    BY <2>2, <2>3
<1>9. ASSUME NEW s \in Tokens, NEW u \in Users, NEW transport \in Transports,
             NEW start \in 1..now, NEW created \in 1..now, Issue(s, u, transport, start, created)
      PROVE  Cred!Next
  <2>1. \A q \in Requests : SameRequest(q)
    BY <1>9 DEF Issue, SameRequest, AcceptedWith, AnswerOf
  <2>2. /\ CredentialState(sessions[s]) = "absent" /\ CredentialState(sessions[s])' = "live"
        /\ \A j \in Tokens \ {s} : CredentialState(sessions[j])' = CredentialState(sessions[j])
    BY <1>9, UserAssumption DEF Issue, CredentialState, IInv, TypeOK, NULL
  <2>3. Cred!Issue(s)
    BY <2>1, <2>2, Issues
  <2> QED
    BY <2>3 DEF Cred!Next, Cred!Issue
<1>10. CASE Tick \/ (\E u \in Users : Deactivate(u)) \/ UNCHANGED vars
  BY <1>10, Stutters DEF Tick, Deactivate, vars, SameRows, SameRequest, AcceptedWith,
                         AnswerOf, CredentialState
<1> QED
  BY <1>1, <1>2, <1>3, <1>4, <1>5, <1>6, <1>7, <1>8, <1>9, <1>10 DEF Next, Handle

\* Sessions implement the revocable credential: a request is served only if it
\* was accepted with a session that was unrevoked while it was being handled,
\* and a revocation is for good, whatever touches and logouts overlap.
THEOREM SessionsAreCredentials == Spec => CredentialSpec
<1>1. Init => Cred!Init
  BY DEF Init, Cred!Init, CredentialState, NoRow, NoRequest, Answers
<1> QED
  BY <1>1, StepMaps, Invariance, PTL DEF Spec, CredentialSpec, Cred!Spec

-----------------------------------------------------------------------------
(* A doomed request is never served, if a statement is not under way for    *)
(* longer than the idle timeout.                                            *)

\* A touch under way was judged alive by a last_seen_at that no other touch
\* has taken far back since.
Pending(q) == pc[q] = "touch" => at[q] <= sessions[req[q].token].last_seen_at + IDLE

\* Nothing can make the session of the token, or its account, alive again.
Idled(token) ==
    /\ now > Row(token).last_seen_at + IDLE
    /\ \A q \in Requests : pc[q] = "touch" => req[q].token # token
Buried(token) ==
    \/ Row(token).user \notin active
    \/ Row(token).revoked_at # NULL
    \/ now > Row(token).expires_at
    \/ Idled(token)

\* A doomed request is refused by the session, or later by the account.
Doomed(r) ==
    r \in doomed =>
        \/ pc[r] \in {"401", "500"}
        \/ pc[r] = "select" /\ Buried(req[r].token)
        \/ pc[r] \in {"touch", "user"} /\ Row(req[r].token).user \notin active

Fate == \A q \in Requests : Pending(q) /\ Doomed(q)

\* What every step respects of the rows that are already there.
Steady ==
    /\ now \in Nat /\ now' \in Nat /\ now <= now' /\ active' \subseteq active
    /\ \A s \in Issued :
          /\ s \in Issued'
          /\ sessions'[s].user = sessions[s].user
          /\ sessions'[s].expires_at = sessions[s].expires_at
          /\ sessions[s].revoked_at # NULL => sessions'[s].revoked_at # NULL
          /\ \/ sessions'[s].last_seen_at = sessions[s].last_seen_at
             \/ \E q \in Requests : pc[q] = "touch" /\ req[q].token = s
    /\ \A q \in Requests :
          pc'[q] = "touch" =>
              /\ req'[q] = req[q] /\ req[q].token \in Issued
              /\ \/ pc[q] = "touch" /\ at'[q] = at[q]
                 \/ /\ at'[q] = now /\ sessions' = sessions
                    /\ now <= sessions[req[q].token].last_seen_at + IDLE

LEMMA BuriedKept ==
    ASSUME IInv, Steady, NEW token \in Issued \cup {Forged, NoToken}, Buried(token)
    PROVE  Buried(token)'
<1>1. CASE token \notin Issued
  <2>1. Row(token)' = NoRow /\ active' \subseteq Users
    BY <1>1, TokenAssumption DEF Row, Issued, IInv, TypeOK, Steady
  <2> QED
    BY <2>1, UserAssumption DEF Buried, NoRow
<1>2. CASE token \in Issued
  <2>1. /\ token \in Tokens /\ Row(token) = sessions[token] /\ Row(token)' = sessions'[token]
        /\ sessions[token].expires_at \in Nat /\ sessions[token].last_seen_at \in Nat
    BY <1>2 DEF Row, Issued, IInv, TypeOK, SessionRow, Timestamp
  <2>2. CASE Idled(token)
    <3>1. sessions'[token].last_seen_at = sessions[token].last_seen_at
      BY <1>2, <2>2 DEF Idled, Steady
    <3>2. now > sessions[token].last_seen_at + IDLE
      BY <2>1, <2>2 DEF Idled
    <3>3. now' > sessions'[token].last_seen_at + IDLE
      BY <2>1, <3>1, <3>2, TimeoutAssumption DEF Steady
    <3>4. ASSUME NEW q \in Requests, pc'[q] = "touch", req'[q].token = token
          PROVE  FALSE
      BY <2>1, <2>2, <3>2, <3>4, TimeoutAssumption DEF Idled, Steady
    <3> QED
      BY <2>1, <3>3, <3>4 DEF Buried, Idled
  <2>3. CASE ~Idled(token)
    BY <1>2, <2>1, <2>3 DEF Buried, Steady
  <2> QED
    BY <2>2, <2>3
<1> QED
  BY <1>1, <1>2

\* Every step is steady.
LEMMA StepSteady ==
    ASSUME IInv, [Next]_vars
    PROVE  Steady
<1> USE DEF Steady, IInv, TypeOK, Clock
<1>1. ASSUME NEW r \in Requests, NEW kind \in {"me", "logout"},
             NEW cookie \in Issued \cup {Forged, NoToken},
             NEW bearer \in Issued \cup {Forged, NoToken},
             Arrive(r, kind, cookie, bearer)
      PROVE  Steady
  BY <1>1 DEF Arrive, Local, Issued
<1>2. ASSUME NEW r \in Requests, AuthSelect(r)
      PROVE  Steady
  <2>1. /\ UNCHANGED <<now, sessions, active, req>> /\ pc[r] = "select"
        /\ pc' = [pc EXCEPT ![r] = pc'[r]]
        /\ \A q \in Requests : q # r => at'[q] = at[q]
    BY <1>2 DEF AuthSelect
  <2>2. pc'[r] = "touch" => /\ at'[r] = now
                            /\ ~Rejected(Row(req[r].token))
    BY <1>2 DEF AuthSelect
  <2>3. pc'[r] = "touch" =>
            /\ at'[r] = now /\ req[r].token \in Issued
            /\ now <= sessions[req[r].token].last_seen_at + IDLE
    BY <2>2, NotRejected, TimeoutAssumption DEF Rejected, SessionRow, Timestamp
  <2>4. \A q \in Requests : q # r /\ pc'[q] = "touch" => pc[q] = "touch" /\ req[q].token \in Issued
    BY <2>1 DEF Local
  <2> QED
    BY <2>1, <2>3, <2>4 DEF Issued
<1>3. ASSUME NEW r \in Requests, Touch(r)
      PROVE  Steady
  BY <1>3 DEF Touch, TouchedRow, Local, Issued, SessionRow
<1>4. ASSUME NEW r \in Requests, LoadUser(r) \/ LogoutSelect(r) \/ LogoutAudit(r) \/ Error(r)
      PROVE  Steady
  BY <1>4 DEF LoadUser, NextAfterUser, LogoutSelect, LogoutAudit, LastCommit, Error, Local, Issued
<1>5. ASSUME NEW r \in Requests, RevokeCommit(r)
      PROVE  Steady
  BY <1>5 DEF RevokeCommit, RevokedRow, Local, Issued, SessionRow, NULL
<1>6. ASSUME NEW r \in Requests, NEW u \in Users, NEW transport \in Transports \cup {"any"},
             RevokeAllSelect(r, u, transport)
      PROVE  Steady
  BY <1>6 DEF RevokeAllSelect, Local, Issued
<1>7. ASSUME NEW r \in Requests, RevokeAllCommit(r)
      PROVE  Steady
  <2>1. \A s \in Issued : sessions[s] \in SessionRow /\ at[r] # NULL
    BY DEF Issued, NULL
  <2>2. \A s \in Issued : /\ sessions'[s].user = sessions[s].user
                          /\ sessions'[s].expires_at = sessions[s].expires_at
                          /\ sessions'[s].last_seen_at = sessions[s].last_seen_at
                          /\ sessions[s].revoked_at # NULL => sessions'[s].revoked_at # NULL
    BY <1>7, <2>1 DEF RevokeAllCommit, RevokedRow, Issued, SessionRow
  <2>3. \A s \in Issued : s \in Issued'
    BY <2>2 DEF Issued
  <2>4. \A q \in Requests : pc'[q] = "touch" => pc[q] = "touch" /\ req[q].token \in Issued
    BY <1>7 DEF RevokeAllCommit, LastCommit, Local
  <2> QED
    <3> HIDE DEF IInv, TypeOK
    <3>1. UNCHANGED <<now, active, req, at>> /\ now \in Nat
      BY <1>7 DEF RevokeAllCommit, IInv, TypeOK
    <3> QED
      BY <2>2, <2>3, <2>4, <3>1
<1>8. ASSUME NEW s \in Tokens, NEW u \in Users, NEW transport \in Transports,
             NEW start \in 1..now, NEW created \in 1..now, Issue(s, u, transport, start, created)
      PROVE  Steady
  BY <1>8 DEF Issue, Local, Issued
<1>9. CASE Tick \/ (\E u \in Users : Deactivate(u)) \/ UNCHANGED vars
  BY <1>9 DEF Tick, Deactivate, vars, Local, Issued
<1> QED
  BY <1>1, <1>2, <1>3, <1>4, <1>5, <1>6, <1>7, <1>8, <1>9 DEF Next, Handle

\* Only a touch writes last_seen_at of a row that is there.
LEMMA TouchOnly ==
    ASSUME IInv, [Next]_vars, NEW s \in Issued,
           sessions'[s].last_seen_at # sessions[s].last_seen_at
    PROVE  \E r \in Requests : Touch(r) /\ req[r].token = s
<1> USE DEF Issued, IInv, TypeOK
<1>1. ASSUME NEW r \in Requests, Touch(r)
      PROVE  req[r].token = s
  BY <1>1 DEF Touch
<1>2. ASSUME NEW r \in Requests, RevokeCommit(r) \/ RevokeAllCommit(r)
      PROVE  FALSE
  <2>1. sessions'[s] \in {sessions[s], RevokedRow(sessions[s], at[r])}
    BY <1>2 DEF RevokeCommit, RevokeAllCommit
  <2> QED
    BY <2>1, RevokedFacts
<1>3. ASSUME NEW t \in Tokens, NEW u \in Users, NEW transport \in Transports,
             NEW start \in 1..now, NEW created \in 1..now, Issue(t, u, transport, start, created)
      PROVE  FALSE
  BY <1>3 DEF Issue
<1>4. sessions' # sessions
  OBVIOUS
<1> QED
  BY <1>1, <1>2, <1>3, <1>4 DEF Next, Handle, Arrive, AuthSelect, LoadUser, LogoutSelect,
     LogoutAudit, RevokeAllSelect, Error, Deactivate, Tick, vars

\* The touches under way stay as recent as the idle timeout.
LEMMA PendingKept ==
    ASSUME LATENCY <= IDLE, IInv, IInv', Fate, [Next]_vars, NEW q \in Requests
    PROVE  Pending(q)'
<1> SUFFICES ASSUME pc'[q] = "touch"
             PROVE  at'[q] <= sessions'[req'[q].token].last_seen_at + IDLE
  BY DEF Pending
<1> DEFINE token == req[q].token
<1>1. Steady
  BY StepSteady
<1>2. /\ token \in Issued /\ req'[q] = req[q] /\ token \in Tokens
      /\ sessions[token].last_seen_at \in Nat /\ at[q] \in Nat /\ at'[q] \in Nat
  BY <1>1 DEF Steady, Issued, IInv, TypeOK, Clock, SessionRow, Timestamp
<1>3. CASE ~(pc[q] = "touch" /\ at'[q] = at[q])
  BY <1>1, <1>2, <1>3 DEF Steady
<1>4. CASE pc[q] = "touch" /\ at'[q] = at[q]
  <2>1. at[q] <= sessions[token].last_seen_at + IDLE
    BY <1>4 DEF Fate, Pending
  <2>2. CASE sessions'[token].last_seen_at = sessions[token].last_seen_at
    BY <1>2, <1>4, <2>1, <2>2
  <2>3. CASE sessions'[token].last_seen_at # sessions[token].last_seen_at
    <3>1. PICK r \in Requests : Touch(r) /\ req[r].token = token
      BY <1>1, <1>2, <2>3, TouchOnly
    <3>2. sessions'[token].last_seen_at = at[r]
      BY <1>2, <3>1 DEF Touch, TouchedRow, IInv, TypeOK, SessionRow
    <3>3. at[r] \in Nat /\ now \in Nat /\ at[q] <= now /\ now <= at[r] + LATENCY
      BY <1>4, <3>1 DEF Touch, IInv, TypeOK, Local, Clock
    <3> QED
      BY <1>2, <1>4, <3>2, <3>3, TimeoutAssumption
  <2> QED
    BY <2>2, <2>3
<1> QED
  BY <1>3, <1>4

\* A request whose handler does not move is as doomed as before.
LEMMA DoomedKept ==
    ASSUME IInv, Fate, Steady, NEW q \in Requests,
           pc'[q] = pc[q], req'[q] = req[q], q \in doomed' => q \in doomed
    PROVE  Doomed(q)'
<1> DEFINE token == req[q].token
<1>1. CASE q \notin doomed
  BY <1>1 DEF Doomed
<1>2. CASE q \in doomed /\ pc[q] = "select"
  <2>1. token \in Issued \cup {Forged, NoToken} /\ Buried(token)
    BY <1>2 DEF IInv, TypeOK, Local, Request, Carried, Fate, Doomed
  <2>2. Buried(token)'
    BY <2>1, BuriedKept
  <2> QED
    BY <1>2, <2>2 DEF Doomed, Buried, Idled
<1>3. CASE q \in doomed /\ pc[q] \in {"touch", "user"}
  <2>1. token \in Issued /\ Row(token) = sessions[token] /\ Row(token)' = sessions'[token]
        /\ Row(token).user \notin active
    BY <1>3 DEF IInv, TypeOK, Local, Row, Issued, Fate, Doomed
  <2> QED
    BY <1>3, <2>1 DEF Doomed, Row, Steady
<1> QED
  BY <1>1, <1>2, <1>3 DEF Fate, Doomed

\* A request that comes in with a dead session finds it dead when it looks.
LEMMA DoomedArrives ==
    ASSUME LATENCY <= IDLE, IInv, Fate, NEW r \in Requests, NEW kind \in {"me", "logout"},
           NEW cookie \in Issued \cup {Forged, NoToken},
           NEW bearer \in Issued \cup {Forged, NoToken},
           Arrive(r, kind, cookie, bearer)
    PROVE  Doomed(r)'
<1> DEFINE token == TokenOf(cookie, bearer)
<1>1. pc[r] = "idle" /\ r \notin doomed
  BY DEF Arrive, Fate, Doomed
<1>2. SUFFICES ASSUME r \in doomed'
               PROVE  Doomed(r)'
  BY DEF Doomed
<1>3. /\ UNCHANGED <<now, sessions, active>> /\ Dead(Row(token))
      /\ pc' = [pc EXCEPT ![r] = "select"] /\ req'[r].token = token
  <2> DEFINE carried == [NoRequest EXCEPT !.kind = kind, !.token = token,
                                          !.cookie = cookie # NoToken]
  <2>1. carried.token = token
    BY DEF NoRequest
  <2>2. req' = [req EXCEPT ![r] = carried]
    BY DEF Arrive
  <2>3. req'[r].token = token
    BY <2>1, <2>2 DEF IInv, TypeOK
  <2> QED
    BY <1>1, <1>2, <2>3 DEF Arrive
<1>4. token \in Issued \cup {Forged, NoToken} /\ pc'[r] = "select"
  BY <1>3 DEF TokenOf, IInv, TypeOK
<1>5. Buried(token)'
  <2>1. CASE now > Row(token).last_seen_at + IDLE + LATENCY
    <3>1. ASSUME NEW q \in Requests, pc[q] = "touch", req[q].token = token
          PROVE  FALSE
      <4>1. /\ Row(token) = sessions[token] /\ sessions[token].last_seen_at \in Nat
            /\ at[q] \in Nat /\ now \in Nat
        BY <3>1 DEF IInv, TypeOK, Local, Issued, Row, SessionRow, Timestamp, Clock
      <4>2. at[q] <= sessions[token].last_seen_at + IDLE /\ now <= at[q] + LATENCY
        BY <3>1 DEF Fate, Pending, IInv, Local
      <4> QED
        BY <2>1, <4>1, <4>2, TimeoutAssumption
    <3>2. Row(token).last_seen_at \in Nat /\ now \in Nat
      BY DEF Row, NoRow, NULL, IInv, TypeOK, SessionRow, Timestamp, Clock
    <3>3. now > Row(token).last_seen_at + IDLE
      BY <2>1, <3>2, TimeoutAssumption
    <3>4. \A q \in Requests : pc'[q] = "touch" => pc[q] = "touch" /\ req'[q] = req[q]
      BY <1>3 DEF Arrive, IInv, TypeOK
    <3> QED
      BY <1>3, <3>1, <3>3, <3>4 DEF Buried, Idled, Row
  <2> QED
    BY <1>3, <2>1 DEF Dead, Buried, Row
<1> QED
  BY <1>3, <1>4, <1>5 DEF Doomed, Buried, Idled

\* The steps that read the row of a doomed request, or its account, refuse it.
LEMMA DoomedSteps ==
    ASSUME IInv, Fate, NEW r \in Requests, r \in doomed,
           \/ AuthSelect(r) \/ Touch(r) \/ LoadUser(r) \/ LogoutSelect(r) \/ RevokeCommit(r)
           \/ LogoutAudit(r) \/ RevokeAllCommit(r) \/ Error(r)
    PROVE  Doomed(r)'
<1>1. CASE AuthSelect(r)
  <2> DEFINE row == Row(req[r].token)
  <2>1. /\ pc[r] = "select" /\ Buried(req[r].token) /\ pc'[r] \in {"401", "touch", "user"}
        /\ pc'[r] \in {"touch", "user"} => ~Rejected(row)
        /\ UNCHANGED <<sessions, active, req, now>>
    BY <1>1 DEF AuthSelect, Fate, Doomed, IInv, TypeOK
  <2>2. CASE ~Rejected(row)
    <3>1. row \in SessionRow
      BY <2>2, NotRejected DEF IInv
    <3>2. row.user \notin active
      BY <2>1, <2>2, <3>1, TimeoutAssumption
      DEF Rejected, Buried, Idled, SessionRow, Timestamp, IInv, TypeOK, Clock
    <3> QED
      BY <2>1, <3>2 DEF Doomed, Row
  <2> QED
    BY <2>1, <2>2 DEF Doomed
<1>2. CASE Touch(r)
  <2>1. /\ req[r].token \in Issued /\ Row(req[r].token).user \notin active
        /\ sessions[req[r].token] \in SessionRow /\ req[r].token \in Tokens
        /\ UNCHANGED <<active, req>> /\ pc'[r] = "user"
    BY <1>2 DEF Touch, Fate, Doomed, IInv, TypeOK, Local, Issued
  <2>2. sessions'[req[r].token].user = sessions[req[r].token].user
    BY <1>2, <2>1 DEF Touch, TouchedRow, SessionRow, IInv, TypeOK
  <2> QED
    BY <2>1, <2>2 DEF Doomed, Row
<1>3. CASE LoadUser(r)
  <2>1. Row(req[r].token).user \notin active
    BY <1>3 DEF LoadUser, Fate, Doomed
  <2> QED
    BY <1>3, <2>1 DEF LoadUser, NextAfterUser, Doomed, IInv, TypeOK
<1>4. CASE Error(r)
  BY <1>4 DEF Error, Doomed, IInv, TypeOK
<1>5. ASSUME LogoutSelect(r) \/ RevokeCommit(r) \/ LogoutAudit(r) \/ RevokeAllCommit(r)
      PROVE  FALSE
  BY <1>5 DEF LogoutSelect, RevokeCommit, LogoutAudit, RevokeAllCommit, Fate, Doomed
<1> QED
  BY <1>1, <1>2, <1>3, <1>4, <1>5

\* Every step leaves every doomed request doomed.
LEMMA FateKept ==
    ASSUME LATENCY <= IDLE, IInv, IInv', Fate, [Next]_vars
    PROVE  Fate'
<1> SUFFICES ASSUME NEW q \in Requests
             PROVE  Doomed(q)'
  BY PendingKept DEF Fate
<1>1. Steady
  BY StepSteady
<1>2. ASSUME NEW r \in Requests, NEW kind \in {"me", "logout"},
             NEW cookie \in Issued \cup {Forged, NoToken},
             NEW bearer \in Issued \cup {Forged, NoToken},
             Arrive(r, kind, cookie, bearer)
      PROVE  Doomed(q)'
  <2>1. q # r => /\ pc'[q] = pc[q] /\ req'[q] = req[q]
                 /\ q \in doomed' => q \in doomed
    BY <1>2 DEF Arrive, IInv, TypeOK
  <2> QED
    BY <1>1, <1>2, <2>1, DoomedArrives, DoomedKept
<1>3. ASSUME NEW r \in Requests,
             \/ AuthSelect(r) \/ Touch(r) \/ LoadUser(r) \/ LogoutSelect(r) \/ RevokeCommit(r)
             \/ LogoutAudit(r) \/ RevokeAllCommit(r) \/ Error(r)
      PROVE  Doomed(q)'
  <2>1. doomed' = doomed /\ (q # r => pc'[q] = pc[q] /\ req'[q] = req[q])
    BY <1>3 DEF AuthSelect, Touch, LoadUser, LogoutSelect, RevokeCommit, LogoutAudit,
                RevokeAllCommit, LastCommit, Error, IInv, TypeOK
  <2>2. CASE q # r
    BY <1>1, <2>1, <2>2, DoomedKept
  <2>3. CASE q = r /\ r \in doomed
    BY <1>3, <2>3, DoomedSteps
  <2>4. CASE q \notin doomed
    BY <2>1, <2>4 DEF Doomed
  <2> QED
    BY <2>2, <2>3, <2>4
<1>4. ASSUME NEW r \in Requests, NEW u \in Users, NEW transport \in Transports \cup {"any"},
             RevokeAllSelect(r, u, transport)
      PROVE  Doomed(q)'
  <2>1. /\ doomed' = doomed /\ (q # r => pc'[q] = pc[q] /\ req'[q] = req[q])
        /\ r \notin doomed
    BY <1>4 DEF RevokeAllSelect, IInv, TypeOK, Fate, Doomed
  <2>2. CASE q # r
    BY <1>1, <2>1, <2>2, DoomedKept
  <2>3. CASE q = r
    BY <2>1, <2>3 DEF Doomed
  <2> QED
    BY <2>2, <2>3
<1>5. ASSUME UNCHANGED <<pc, req, doomed>>
      PROVE  Doomed(q)'
  BY <1>1, <1>5, DoomedKept
<1> QED
  BY <1>2, <1>3, <1>4, <1>5 DEF Next, Handle, Issue, Deactivate, Tick, vars

\* If no statement is under way for longer than the idle timeout, a request
\* whose session or account was dead when it came in is never served, however
\* touches, revocations and other requests overlap with it.
THEOREM DoomedAreRefused ==
    ASSUME LATENCY <= IDLE
    PROVE  Spec => []DoomedNeverServed
<1>1. Init => Fate
  BY DEF Init, Fate, Pending, Doomed
<1>2. Fate /\ IInv => DoomedNeverServed
  BY DEF Fate, Doomed, DoomedNeverServed, IInv, TypeOK
<1>3. IInv /\ IInv' /\ Fate /\ [Next]_vars => Fate'
  BY FateKept
<1> QED
  BY <1>1, <1>2, <1>3, Invariance, PTL DEF Spec

=============================================================================
