------------------------------- MODULE ApiKeys -------------------------------
(***************************************************************************)
(* Drone API keys: verification (app/auth/api_key.py, get_current_drone of *)
(* app/auth/dependencies.py) and the operator scripts that mint and revoke *)
(* keys (scripts/mint_key.py, scripts/revoke_key.py), each in a database   *)
(* session of its own, interleaved statement by statement.                 *)
(*                                                                         *)
(* func.now() is the start of the transaction in PostgreSQL, so the times  *)
(* that are stored are older than the commit that stores them.  An UPDATE  *)
(* evaluates its WHERE on the rows as committed when it runs, and its      *)
(* COMMIT follows: one step.                                               *)
(***************************************************************************)
EXTENDS Naturals, FiniteSets

CONSTANTS
    Keys,       \* secrets the server can generate; the row stores the hash
    NoKey,      \* a secret no row stores the hash of
    Drones,
    NoDrone,    \* drone_id of a row that does not exist
    Prefixes,   \* what the 8 hex digits of a prefix can be
    NoPrefix,   \* no X-API-Key header, or one that parse_key rejects
    Requests,   \* requests to the ingest endpoint
    Minters,    \* terminals where mint_key.py is run
    Revokers,   \* terminals where revoke_key.py is run
    DEBOUNCE,   \* LAST_USED_DEBOUNCE_SECONDS
    MAX_TIME    \* bound of the clock

ASSUME KeyAssumption == NoKey \notin Keys
ASSUME DroneAssumption == NoDrone \notin Drones
ASSUME PrefixAssumption == NoPrefix \notin Prefixes
ASSUME DebounceAssumption == DEBOUNCE \in Nat
ASSUME TimeAssumption == MAX_TIME \in Nat \ {0}
ASSUME ProcessAssumption ==
    /\ Requests \cap Minters = {}
    /\ Requests \cap Revokers = {}
    /\ Minters \cap Revokers = {}

VARIABLES
    now,      \* the clock
    keys,     \* table drone_api_keys
    active,   \* drones with is_active
    pc,       \* where a request or a script stands
    raw,      \* the prefix and the secret a request presents
    drone,    \* the drone a script was started for
    began,    \* when the open transaction of a request or script began
    reason,   \* why a request was refused, as logged
    dead,     \* history: requests whose key was revoked before they came
    killed    \* history: when the revocation of a key was committed

vars == <<now, keys, active, pc, raw, drone, began, reason, dead, killed>>

NULL == 0
Timestamp == Nat
Clock == 1..MAX_TIME
Processes == Requests \cup Minters \cup Revokers

KeyRow == [drone: Drones \cup {NoDrone}, prefix: Prefixes \cup {NoPrefix},
           last_used_at: Timestamp, revoked_at: Timestamp]
NoRow == [drone |-> NoDrone, prefix |-> NoPrefix, last_used_at |-> NULL, revoked_at |-> NULL]

Raw == [prefix: Prefixes \cup {NoPrefix}, secret: Keys \cup {NoKey}]
Malformed == [prefix |-> NoPrefix, secret |-> NoKey]

Reasons == {"bad_format", "unknown_prefix", "hash_mismatch", "revoked_key", "inactive_drone"}
States == {"idle", "select", "touch", "200", "401", "500",
           "insert", "update", "done", "refused", "failed"}

Init ==
    /\ now = 1
    /\ keys = [k \in Keys |-> NoRow]
    /\ active = Drones
    /\ pc = [p \in Processes |-> "idle"]
    /\ raw = [r \in Requests |-> Malformed]
    /\ drone = [p \in Minters \cup Revokers |-> NoDrone]
    /\ began = [p \in Processes |-> 1]
    /\ reason = [r \in Requests |-> "none"]
    /\ dead = {}
    /\ killed = [k \in Keys |-> NULL]

Issued == {k \in Keys : keys[k].drone # NoDrone}

\* A COMMIT took effect; if its reply is lost it raises all the same.
Committed(p, answer, failure) ==
    \E place \in {answer, failure} : pc' = [pc EXCEPT ![p] = place]

-----------------------------------------------------------------------------
(* verify_api_key.                                                         *)

\* A request comes in: with a key that was minted, with a made-up secret
\* under some prefix, or with nothing parse_key accepts.
Present(r, presented) ==
    /\ pc[r] = "idle"
    /\ raw' = [raw EXCEPT ![r] = presented]
    /\ dead' = IF presented.secret \in Keys /\ keys[presented.secret].revoked_at # NULL
               THEN dead \cup {r} ELSE dead
    /\ \/ /\ presented.prefix = NoPrefix
          /\ pc' = [pc EXCEPT ![r] = "401"]
          /\ reason' = [reason EXCEPT ![r] = "bad_format"]
       \/ /\ presented.prefix # NoPrefix
          /\ pc' = [pc EXCEPT ![r] = "select"]
          /\ UNCHANGED reason
    /\ UNCHANGED <<now, keys, active, drone, began, killed>>

\* The verdict on the rows selected by prefix, in the order of the code: the
\* reason of the refusal, or "none".
UnderPrefix(prefix) == {k \in Issued : keys[k].prefix = prefix}

\* mutant: the reason of a wrong secret is not one of the documented five
Verdict_vague(prefix, k) ==
    CASE UnderPrefix(prefix) = {} -> "unknown_prefix"
      [] UnderPrefix(prefix) # {} /\ k \notin UnderPrefix(prefix) -> "invalid"
      [] k \in UnderPrefix(prefix) /\ keys[k].revoked_at # NULL -> "revoked_key"
      [] k \in UnderPrefix(prefix) /\ keys[k].revoked_at = NULL ->
             IF keys[k].drone \in active THEN "none" ELSE "inactive_drone"
\* mutant: an inactive drone hides that its key is revoked
Verdict_inactive_first(prefix, k) ==
    CASE UnderPrefix(prefix) = {} -> "unknown_prefix"
      [] UnderPrefix(prefix) # {} /\ k \notin UnderPrefix(prefix) -> "hash_mismatch"
      [] k \in UnderPrefix(prefix) /\ keys[k].drone \notin active -> "inactive_drone"
      [] k \in UnderPrefix(prefix) /\ keys[k].drone \in active ->
             IF keys[k].revoked_at = NULL THEN "none" ELSE "revoked_key"
\* mutant: revocation is not looked at
Verdict_unrevoked(prefix, k) ==
    CASE UnderPrefix(prefix) = {} -> "unknown_prefix"
      [] UnderPrefix(prefix) # {} /\ k \notin UnderPrefix(prefix) -> "hash_mismatch"
      [] k \in UnderPrefix(prefix) ->
             IF keys[k].drone \in active THEN "none" ELSE "inactive_drone"
Verdict(prefix, k) ==
    CASE UnderPrefix(prefix) = {} -> "unknown_prefix"
      [] UnderPrefix(prefix) # {} /\ k \notin UnderPrefix(prefix) -> "hash_mismatch"
      [] k \in UnderPrefix(prefix) /\ keys[k].revoked_at # NULL -> "revoked_key"
      [] k \in UnderPrefix(prefix) /\ keys[k].revoked_at = NULL ->
             IF keys[k].drone \in active THEN "none" ELSE "inactive_drone"

VerifySelect(r) ==
    /\ pc[r] = "select"
    /\ LET verdict == Verdict(raw[r].prefix, raw[r].secret)
       IN  /\ reason' = [reason EXCEPT ![r] = verdict]
           /\ pc' = [pc EXCEPT ![r] = IF verdict = "none" THEN "touch" ELSE "401"]
           /\ began' = IF verdict = "none" THEN [began EXCEPT ![r] = now] ELSE began
    /\ UNCHANGED <<now, keys, active, raw, drone, dead, killed>>

\* The WHERE of the debounced UPDATE, on the row as it is when it runs.
\* mutant: the debounce only looks for an unused key or an older stamp
Due_older(row, t) == row.last_used_at = NULL \/ row.last_used_at < t
Due(row, t) == row.last_used_at = NULL \/ row.last_used_at + DEBOUNCE < t

VerifyTouch(r) ==
    /\ pc[r] = "touch"
    /\ keys' = [keys EXCEPT ![raw[r].secret] =
          IF Due(@, began[r]) THEN [@ EXCEPT !.last_used_at = began[r]] ELSE @]
    /\ Committed(r, "200", "500")
    /\ UNCHANGED <<now, active, raw, drone, began, reason, dead, killed>>

-----------------------------------------------------------------------------
(* mint_key.py.  The script can be run again on the same terminal.          *)

AtPrompt == {"idle", "done", "refused", "failed"}

\* mutant: only a key that has been used counts as existing
ActiveKeys_used(d) ==
    {k \in Issued : keys[k].drone = d /\ keys[k].revoked_at = NULL /\ keys[k].last_used_at # NULL}
ActiveKeys(d) == {k \in Issued : keys[k].drone = d /\ keys[k].revoked_at = NULL}

\* scalar_one_or_none: none lets the mint go on, one is the ValueError, more
\* than one is MultipleResultsFound; the script ends with a traceback in both.
MintSelect(m, d) ==
    /\ pc[m] \in AtPrompt
    /\ drone' = [drone EXCEPT ![m] = d]
    /\ pc' = [pc EXCEPT ![m] =
          CASE Cardinality(ActiveKeys(d)) = 0 -> "insert"
            [] Cardinality(ActiveKeys(d)) = 1 -> "refused"
            [] OTHER -> "failed"]
    /\ UNCHANGED <<now, keys, active, raw, began, reason, dead, killed>>

\* generate_api_key draws a fresh secret; its prefix may be in use already.
MintInsert(m, k, prefix) ==
    /\ pc[m] = "insert"
    /\ k \notin Issued
    /\ keys' = [keys EXCEPT ![k] = [NoRow EXCEPT !.drone = drone[m], !.prefix = prefix]]
    /\ Committed(m, "done", "failed")
    /\ UNCHANGED <<now, active, raw, drone, began, reason, dead, killed>>

-----------------------------------------------------------------------------
(* revoke_key.py.                                                          *)

\* The UPDATE of both modes leaves a revoked row alone.
Revoke(chosen, t) ==
    /\ keys' = [k \in Keys |-> IF k \in chosen /\ keys[k].revoked_at = NULL
                               THEN [keys[k] EXCEPT !.revoked_at = t] ELSE keys[k]]
    /\ killed' = [k \in Keys |-> IF k \in chosen /\ keys[k].revoked_at = NULL
                                 THEN now ELSE killed[k]]

\* --prefix: the UPDATE is the first statement of its transaction.
RevokeByPrefix(v, prefix) ==
    /\ pc[v] \in AtPrompt
    /\ Revoke(UnderPrefix(prefix), now)
    /\ Committed(v, "done", "failed")
    /\ UNCHANGED <<now, active, raw, drone, began, reason, dead>>

\* --drone-slug: the transaction begins with the SELECTs of org and drone.
RevokeSelect(v, d) ==
    /\ pc[v] \in AtPrompt
    /\ drone' = [drone EXCEPT ![v] = d]
    /\ began' = [began EXCEPT ![v] = now]
    /\ pc' = [pc EXCEPT ![v] = "update"]
    /\ UNCHANGED <<now, keys, active, raw, reason, dead, killed>>

RevokeByDrone(v) ==
    /\ pc[v] = "update"
    /\ Revoke({k \in Issued : keys[k].drone = drone[v]}, began[v])
    /\ Committed(v, "done", "failed")
    /\ UNCHANGED <<now, active, raw, drone, began, reason, dead>>

-----------------------------------------------------------------------------
\* A statement fails or the process dies; its transaction is rolled back.
Error(p) ==
    /\ pc[p] \in {"select", "touch", "insert", "update"}
    /\ pc' = [pc EXCEPT ![p] = IF p \in Requests THEN "500" ELSE "failed"]
    /\ UNCHANGED <<now, keys, active, raw, drone, began, reason, dead, killed>>

\* An operator (de)activates a drone by SQL: no code under src does.
SetActive(d) ==
    /\ active' = IF d \in active THEN active \ {d} ELSE active \cup {d}
    /\ UNCHANGED <<now, keys, pc, raw, drone, began, reason, dead, killed>>

Tick ==
    /\ now < MAX_TIME
    /\ now' = now + 1
    /\ UNCHANGED <<keys, active, pc, raw, drone, began, reason, dead, killed>>

Minted == {[prefix |-> keys[k].prefix, secret |-> k] : k \in Issued}
MadeUp == {Malformed} \cup [prefix: Prefixes, secret: {NoKey}]

Next ==
    \/ \E r \in Requests :
          \/ \E presented \in Minted \cup MadeUp : Present(r, presented)
          \/ VerifySelect(r)
          \/ VerifyTouch(r)
    \/ \E m \in Minters :
          \/ \E d \in Drones : MintSelect(m, d)
          \/ \E k \in Keys, prefix \in Prefixes : MintInsert(m, k, prefix)
    \/ \E v \in Revokers :
          \/ \E prefix \in Prefixes : RevokeByPrefix(v, prefix)
          \/ \E d \in Drones : RevokeSelect(v, d)
          \/ RevokeByDrone(v)
    \/ \E p \in Processes : Error(p)
    \/ \E d \in Drones : SetActive(d)
    \/ Tick

Spec == Init /\ [][Next]_vars

-----------------------------------------------------------------------------
(* Properties.                                                             *)

\* Each variable keeps the shape of its table or of its process state.
TypeOK ==
    /\ now \in Clock
    /\ keys \in [Keys -> KeyRow]
    /\ active \subseteq Drones
    /\ pc \in [Processes -> States]
    /\ raw \in [Requests -> Raw]
    /\ drone \in [Minters \cup Revokers -> Drones \cup {NoDrone}]
    /\ began \in [Processes -> Clock]
    /\ reason \in [Requests -> Reasons \cup {"none"}]
    /\ dead \subseteq Requests
    /\ killed \in [Keys -> Timestamp]

\* revoke_key.py:2 "Takes effect immediately": a request that comes after the
\* revocation of its key is never served, and the log names the revocation as
\* the reason even if its drone is inactive too (api_key.py:115-130).
RevocationImmediate ==
    \A r \in dead : /\ pc[r] # "200"
                    /\ pc[r] = "401" => reason[r] = "revoked_key"

\* A revoked key shows no use that began after its revocation was committed,
\* although verification stamps the row in a later statement than the one that
\* read it (api_key.py:115, 132-143).
NoUseAfterRevocation ==
    \A k \in Keys : keys[k].revoked_at # NULL => keys[k].last_used_at <= killed[k]

\* last_used_at never moves back, and moves at most once per debounce window,
\* however the updates of overlapping requests are ordered: each UPDATE
\* re-evaluates its condition on the row it finds (api_key.py:132-140).
LastUsedDebounced ==
    [][\A k \in Keys :
        keys'[k].last_used_at # keys[k].last_used_at =>
            \/ keys[k].last_used_at = NULL
            \/ keys'[k].last_used_at > keys[k].last_used_at + DEBOUNCE]_vars

\* A drone has at most one key that is not revoked (mint_key.py:32-40, "active
\* api key for the Drone available, revoke it first").
AtMostOneActiveKey ==
    \A j, k \in Keys :
        (/\ keys[j].drone = keys[k].drone /\ keys[k].drone # NoDrone
         /\ keys[j].revoked_at = NULL /\ keys[k].revoked_at = NULL)
        => j = k

(***************************************************************************)
(* API keys implement the revocable credential.                            *)
(***************************************************************************)
CredentialState(row) ==
    IF row.drone = NoDrone THEN "absent"
    ELSE IF row.revoked_at = NULL THEN "live" ELSE "revoked"

Cred == INSTANCE Credential WITH
    Credentials <- Keys,
    NoCredential <- NoKey,
    state <- [k \in Keys |-> CredentialState(keys[k])],
    accepted <- [r \in Requests |->
        IF pc[r] \in {"touch", "200"} THEN raw[r].secret ELSE NoKey],
    answer <- [r \in Requests |->
        CASE pc[r] = "200" -> "served"
          [] pc[r] \in {"401", "500"} -> "refused"
          [] OTHER -> "none"]

CredentialSpec == Cred!Spec
=============================================================================
