--------------------------- MODULE ApiKeysProofs ---------------------------
(***************************************************************************)
(* Proofs about ApiKeys for any number of keys, drones, prefixes, requests *)
(* and terminals.  The inductive invariant follows a key from the SELECT   *)
(* that accepted it to the UPDATE that stamps it: what can happen to the   *)
(* row in between is a revocation, and that is later than the SELECT.      *)
(***************************************************************************)
EXTENDS ApiKeys, TLAPS, FiniteSetTheorems

\* A row that was never inserted is blank; one that was has a real prefix.
Rows ==
    \A k \in Keys :
        /\ keys[k].drone = NoDrone => keys[k] = NoRow
        /\ keys[k].drone # NoDrone => keys[k].prefix \in Prefixes
        /\ keys[k].last_used_at <= now

\* A request presents either a secret under the prefix it was minted with, or
\* a secret no row stores.
Carries ==
    \A r \in Requests : raw[r].secret \in Keys =>
        /\ raw[r].secret \in Issued
        /\ raw[r].prefix = keys[raw[r].secret].prefix

\* A script that is about to insert was started for a drone.
Minting == \A m \in Minters : pc[m] = "insert" => drone[m] \in Drones

\* Between SELECT and UPDATE: the key exists, and if it was revoked meanwhile
\* then not before the transaction began.
Touching ==
    \A r \in Requests :
        /\ began[r] <= now
        /\ pc[r] \in {"touch", "200"} => raw[r].secret \in Issued
        /\ pc[r] = "touch" /\ keys[raw[r].secret].revoked_at # NULL
               => began[r] <= killed[raw[r].secret]

\* A request that came with a revoked key has not been accepted.
Refused ==
    \A r \in dead :
        /\ raw[r].secret \in Keys
        /\ keys[raw[r].secret].revoked_at # NULL
        /\ pc[r] \in {"select", "401", "500"}
        /\ pc[r] = "401" => reason[r] = "revoked_key"

IInv ==
    /\ TypeOK
    /\ Rows
    /\ Carries
    /\ Minting
    /\ Touching
    /\ Refused
    /\ NoUseAfterRevocation

-----------------------------------------------------------------------------
\* The verdict: acceptance needs a row that is not revoked, and a revoked row
\* is refused as revoked whatever the drone.
LEMMA VerdictFacts ==
    ASSUME NEW prefix, NEW k
    PROVE  /\ Verdict(prefix, k) \in Reasons \cup {"none"}
           /\ Verdict(prefix, k) = "none" => k \in Issued /\ keys[k].revoked_at = NULL
           /\ k \in UnderPrefix(prefix) /\ keys[k].revoked_at # NULL
                  => Verdict(prefix, k) = "revoked_key"
<1> DEFINE rows == UnderPrefix(prefix)
           revoked == keys[k].revoked_at # NULL
<1>1. CASE rows = {}
  BY <1>1 DEF Verdict, Reasons
<1>2. CASE rows # {} /\ k \notin rows
  BY <1>2 DEF Verdict, Reasons
<1>3. CASE k \in rows /\ revoked
  BY <1>3 DEF Verdict, Reasons
<1>4. CASE k \in rows /\ ~revoked
  BY <1>4 DEF Verdict, Reasons, UnderPrefix
<1> QED
  BY <1>1, <1>2, <1>3, <1>4

\* What a revocation does to each row.
LEMMA RevokeRows ==
    ASSUME IInv, NEW chosen \in SUBSET Issued, NEW t \in Clock, Revoke(chosen, t)
    PROVE  /\ keys' \in [Keys -> KeyRow] /\ killed' \in [Keys -> Timestamp]
           /\ \A k \in Keys :
                 /\ keys'[k].drone = keys[k].drone
                 /\ keys'[k].prefix = keys[k].prefix
                 /\ keys'[k].last_used_at = keys[k].last_used_at
                 /\ IF k \in chosen /\ keys[k].revoked_at = NULL
                    THEN keys'[k].revoked_at = t /\ killed'[k] = now
                    ELSE keys'[k] = keys[k] /\ killed'[k] = killed[k]
<1>1. \A k \in Keys : [keys[k] EXCEPT !.revoked_at = t] \in KeyRow
  BY DEF IInv, TypeOK, KeyRow, Timestamp, Clock
<1>2. keys' \in [Keys -> KeyRow] /\ killed' \in [Keys -> Timestamp]
  BY <1>1 DEF IInv, TypeOK, Revoke, Clock, Timestamp
<1>3. ASSUME NEW k \in Keys
      PROVE  /\ keys'[k].drone = keys[k].drone
             /\ keys'[k].prefix = keys[k].prefix
             /\ keys'[k].last_used_at = keys[k].last_used_at
             /\ IF k \in chosen /\ keys[k].revoked_at = NULL
                THEN keys'[k].revoked_at = t /\ killed'[k] = now
                ELSE keys'[k] = keys[k] /\ killed'[k] = killed[k]
  <2>1. keys[k] \in KeyRow
    BY DEF IInv, TypeOK
  <2> QED
    BY <2>1 DEF Revoke, KeyRow
<1> QED
  BY <1>2, <1>3

\* The initial state satisfies the invariant.
THEOREM InitIInv == Init => IInv
<1> SUFFICES ASSUME Init
             PROVE  IInv
  OBVIOUS
<1>1. TypeOK
  BY TimeAssumption DEF Init, TypeOK, Clock, KeyRow, NoRow, Timestamp, NULL, Raw,
     Malformed, States, Processes
<1>2. Rows
  BY DEF Init, Rows, NoRow, NULL
<1>3. Carries /\ Minting /\ Touching /\ Refused /\ NoUseAfterRevocation
  BY KeyAssumption DEF Init, Carries, Minting, Touching, Refused, NoUseAfterRevocation,
     Malformed, NoRow, NULL, Processes
<1> QED
  BY <1>1, <1>2, <1>3 DEF IInv

-----------------------------------------------------------------------------
(* One lemma per action.                                                    *)

LEMMA PresentKeeps ==
    ASSUME IInv, NEW r \in Requests, NEW presented \in Minted \cup MadeUp,
           Present(r, presented)
    PROVE  IInv'
<1>1. presented \in Raw
  BY KeyAssumption DEF Minted, MadeUp, Malformed, Raw, Issued, IInv, TypeOK, KeyRow
<1>2. presented.secret \in Keys =>
        /\ presented.secret \in Issued
        /\ presented.prefix = keys[presented.secret].prefix
        /\ presented.prefix # NoPrefix
  BY KeyAssumption, PrefixAssumption DEF Minted, MadeUp, Malformed, Issued, IInv, Rows
<1>3. /\ pc[r] = "idle" /\ raw' = [raw EXCEPT ![r] = presented]
      /\ UNCHANGED <<now, keys, active, drone, began, killed>>
      /\ dead' \subseteq dead \cup {r}
      /\ pc' = [pc EXCEPT ![r] = pc'[r]] /\ pc'[r] \in {"401", "select"}
      /\ reason' \in [Requests -> Reasons \cup {"none"}]
      /\ \A q \in Requests : q # r => reason'[q] = reason[q]
      /\ r \in dead' => /\ presented.secret \in Keys
                        /\ keys[presented.secret].revoked_at # NULL
                        /\ pc'[r] = "select"
  BY <1>2 DEF Present, IInv, TypeOK, Processes, Reasons, Refused
<1>4. TypeOK'
  BY <1>1, <1>3 DEF IInv, TypeOK, States
<1>5. (Rows /\ Minting /\ NoUseAfterRevocation)'
  BY <1>3, ProcessAssumption DEF IInv, TypeOK, Rows, Minting, NoUseAfterRevocation, Processes
<1>6. Carries'
  BY <1>1, <1>2, <1>3 DEF IInv, TypeOK, Carries, Issued
<1>7. Touching'
  BY <1>3 DEF IInv, TypeOK, Touching, Issued, Processes
<1>8. Refused'
  BY <1>3 DEF IInv, TypeOK, Refused, Processes
<1> QED
  BY <1>4, <1>5, <1>6, <1>7, <1>8 DEF IInv

LEMMA VerifySelectKeeps ==
    ASSUME IInv, NEW r \in Requests, VerifySelect(r)
    PROVE  IInv'
<1> DEFINE verdict == Verdict(raw[r].prefix, raw[r].secret)
<1>1. /\ verdict \in Reasons \cup {"none"}
      /\ verdict = "none" => /\ raw[r].secret \in Issued
                             /\ keys[raw[r].secret].revoked_at = NULL
  BY VerdictFacts
<1>2. r \in dead => verdict = "revoked_key"
  <2> SUFFICES ASSUME r \in dead
               PROVE  verdict = "revoked_key"
    OBVIOUS
  <2>1. raw[r].secret \in UnderPrefix(raw[r].prefix) /\ keys[raw[r].secret].revoked_at # NULL
    BY DEF IInv, Refused, Carries, UnderPrefix
  <2> QED
    BY <2>1, VerdictFacts
<1>3. /\ pc[r] = "select"
      /\ reason' = [reason EXCEPT ![r] = verdict]
      /\ pc' = [pc EXCEPT ![r] = IF verdict = "none" THEN "touch" ELSE "401"]
      /\ began' = IF verdict = "none" THEN [began EXCEPT ![r] = now] ELSE began
      /\ UNCHANGED <<now, keys, active, raw, drone, dead, killed>>
  BY DEF VerifySelect
<1> HIDE DEF verdict
<1>4. TypeOK'
  BY <1>1, <1>3 DEF IInv, TypeOK, States, Processes
<1>5. (Rows /\ Minting /\ NoUseAfterRevocation /\ Carries)'
  BY <1>3, ProcessAssumption
  DEF IInv, TypeOK, Rows, Minting, NoUseAfterRevocation, Carries, Issued, Processes
<1>6. Touching'
  <2> SUFFICES ASSUME NEW q \in Requests
               PROVE  /\ began'[q] <= now
                      /\ pc'[q] \in {"touch", "200"} => raw[q].secret \in Issued
                      /\ pc'[q] = "touch" /\ keys[raw[q].secret].revoked_at # NULL
                             => began'[q] <= killed[raw[q].secret]
    BY <1>3 DEF Touching, Issued
  <2>1. CASE q = r
    BY <1>1, <1>3, <2>1 DEF IInv, TypeOK, Touching, Processes, Clock
  <2>2. CASE q # r
    BY <1>3, <2>2 DEF IInv, TypeOK, Touching, Processes
  <2> QED
    BY <2>1, <2>2
<1>7. Refused'
  BY <1>2, <1>3 DEF IInv, TypeOK, Refused, Processes
<1> QED
  BY <1>4, <1>5, <1>6, <1>7 DEF IInv

LEMMA VerifyTouchKeeps ==
    ASSUME IInv, NEW r \in Requests, VerifyTouch(r)
    PROVE  IInv'
<1> DEFINE s == raw[r].secret
           row == IF Due(keys[s], began[r])
                  THEN [keys[s] EXCEPT !.last_used_at = began[r]] ELSE keys[s]
<1>1. s \in Keys /\ s \in Issued /\ keys[s] \in KeyRow /\ began[r] \in Clock /\ began[r] <= now
  BY DEF VerifyTouch, IInv, TypeOK, Touching, Issued, Processes
<1>2. /\ row \in KeyRow
      /\ row.drone = keys[s].drone /\ row.prefix = keys[s].prefix
      /\ row.revoked_at = keys[s].revoked_at
      /\ row.last_used_at \in {keys[s].last_used_at, began[r]}
  BY <1>1 DEF KeyRow, Timestamp, Clock
<1>3. PICK answer \in {"200", "500"} :
      /\ pc[r] = "touch"
      /\ keys' = [keys EXCEPT ![s] = row]
      /\ pc' = [pc EXCEPT ![r] = answer]
      /\ UNCHANGED <<now, active, raw, drone, began, reason, dead, killed>>
  BY DEF VerifyTouch, Committed
<1> HIDE DEF row
<1>4. /\ \A k \in Keys : /\ keys'[k].drone = keys[k].drone
                         /\ keys'[k].prefix = keys[k].prefix
                         /\ keys'[k].revoked_at = keys[k].revoked_at
                         /\ k # s => keys'[k] = keys[k]
      /\ keys'[s] = row
  BY <1>1, <1>2, <1>3 DEF IInv, TypeOK
<1>5. TypeOK'
  BY <1>1, <1>2, <1>3 DEF IInv, TypeOK, States
<1>6. Rows'
  BY <1>1, <1>2, <1>3, <1>4 DEF IInv, Rows, Issued
<1>7. (Carries /\ Minting)'
  BY <1>3, <1>4, ProcessAssumption DEF IInv, TypeOK, Carries, Minting, Issued, Processes
<1>8. Touching'
  BY <1>3, <1>4, <1>1 DEF IInv, TypeOK, Touching, Issued, Processes
<1>9. Refused'
  BY <1>3, <1>4 DEF IInv, TypeOK, Refused, Processes
<1>10. NoUseAfterRevocation'
  BY <1>1, <1>2, <1>3, <1>4 DEF IInv, NoUseAfterRevocation, Touching
<1> QED
  BY <1>5, <1>6, <1>7, <1>8, <1>9, <1>10 DEF IInv

LEMMA MintSelectKeeps ==
    ASSUME IInv, NEW m \in Minters, NEW d \in Drones, MintSelect(m, d)
    PROVE  IInv'
<1> DEFINE next == CASE Cardinality(ActiveKeys(d)) = 0 -> "insert"
                     [] Cardinality(ActiveKeys(d)) = 1 -> "refused"
                     [] OTHER -> "failed"
<1>1. next \in {"insert", "refused", "failed"}
  OBVIOUS
<1>2. /\ drone' = [drone EXCEPT ![m] = d]
      /\ pc' = [pc EXCEPT ![m] = next]
      /\ UNCHANGED <<now, keys, active, raw, began, reason, dead, killed>>
  BY DEF MintSelect
<1> HIDE DEF next
<1>3. TypeOK'
  BY <1>1, <1>2 DEF IInv, TypeOK, States
<1>4. (Rows /\ Carries /\ NoUseAfterRevocation)'
  BY <1>2 DEF IInv, Rows, Carries, NoUseAfterRevocation, Issued
<1>5. Minting'
  BY <1>2 DEF IInv, TypeOK, Minting, Processes
<1>6. \A r \in Requests : pc'[r] = pc[r]
  BY <1>2, ProcessAssumption DEF IInv, TypeOK, Processes
<1>7. (Touching /\ Refused)'
  BY <1>2, <1>6 DEF IInv, TypeOK, Touching, Refused, Issued
<1> QED
  BY <1>3, <1>4, <1>5, <1>7 DEF IInv

LEMMA MintInsertKeeps ==
    ASSUME IInv, NEW m \in Minters, NEW k \in Keys, NEW prefix \in Prefixes,
           MintInsert(m, k, prefix)
    PROVE  IInv'
<1> DEFINE row == [NoRow EXCEPT !.drone = drone[m], !.prefix = prefix]
<1>1. drone[m] \in Drones /\ k \notin Issued
  BY DEF MintInsert, IInv, Minting
<1>2. /\ row \in KeyRow /\ row.drone \in Drones /\ row.prefix \in Prefixes
      /\ row.last_used_at = NULL /\ row.revoked_at = NULL
  BY <1>1 DEF NoRow, KeyRow, Timestamp, NULL
<1>3. PICK place \in {"done", "failed"} :
      /\ keys' = [keys EXCEPT ![k] = row]
      /\ pc' = [pc EXCEPT ![m] = place]
      /\ UNCHANGED <<now, active, raw, drone, began, reason, dead, killed>>
  BY DEF MintInsert, Committed
<1> HIDE DEF row
<1>4. keys'[k] = row /\ \A j \in Keys : j # k => keys'[j] = keys[j]
  BY <1>3 DEF IInv, TypeOK
<1>5. \A r \in Requests : pc'[r] = pc[r]
  BY <1>3, ProcessAssumption DEF IInv, TypeOK, Processes
<1>6. \A r \in Requests : raw[r].secret \in Keys => raw[r].secret # k
  BY <1>1 DEF IInv, Carries
<1>7. TypeOK'
  BY <1>2, <1>3 DEF IInv, TypeOK, States
<1>8. Rows'
  BY <1>2, <1>3, <1>4, DroneAssumption DEF IInv, TypeOK, Rows, Clock, NULL
<1>9. Carries'
  BY <1>3, <1>4, <1>6 DEF IInv, Carries, Issued
<1>10. Minting'
  BY <1>3 DEF IInv, TypeOK, Minting, Processes
<1>11. Touching'
  BY <1>3, <1>4, <1>5, <1>6 DEF IInv, TypeOK, Touching, Issued
<1>12. Refused'
  BY <1>3, <1>4, <1>5, <1>6 DEF IInv, TypeOK, Refused
<1>13. NoUseAfterRevocation'
  BY <1>2, <1>3, <1>4 DEF IInv, NoUseAfterRevocation
<1> QED
  BY <1>7, <1>8, <1>9, <1>10, <1>11, <1>12, <1>13 DEF IInv

\* Both modes of the script; only the time they store differs.
LEMMA RevokeKeeps ==
    ASSUME IInv, NEW v \in Revokers, NEW chosen \in SUBSET Issued, NEW t \in Clock,
           Revoke(chosen, t), Committed(v, "done", "failed"),
           UNCHANGED <<now, active, raw, drone, began, reason, dead>>
    PROVE  IInv'
<1>1. /\ keys' \in [Keys -> KeyRow] /\ killed' \in [Keys -> Timestamp]
      /\ \A k \in Keys :
            /\ keys'[k].drone = keys[k].drone
            /\ keys'[k].prefix = keys[k].prefix
            /\ keys'[k].last_used_at = keys[k].last_used_at
            /\ IF k \in chosen /\ keys[k].revoked_at = NULL
               THEN keys'[k].revoked_at = t /\ killed'[k] = now
               ELSE keys'[k] = keys[k] /\ killed'[k] = killed[k]
  BY RevokeRows
<1>2. \A r \in Requests \cup Minters : pc'[r] = pc[r]
  BY ProcessAssumption DEF Committed, IInv, TypeOK, Processes
<1>3. t # NULL
  BY DEF Clock, NULL
<1>4. TypeOK'
  BY <1>1 DEF Committed, IInv, TypeOK, States
<1>5. Rows'
  BY <1>1 DEF IInv, TypeOK, Rows, Issued
<1>6. Issued' = Issued
  BY <1>1 DEF Issued
<1>7. (Carries /\ Minting)'
  BY <1>1, <1>2, <1>6 DEF IInv, Carries, Minting
<1>8. Touching'
  <2> SUFFICES ASSUME NEW r \in Requests
               PROVE  /\ began[r] <= now
                      /\ pc[r] \in {"touch", "200"} => raw[r].secret \in Issued
                      /\ pc[r] = "touch" /\ keys'[raw[r].secret].revoked_at # NULL
                             => began[r] <= killed'[raw[r].secret]
    BY <1>2, <1>6 DEF Touching
  <2>1. /\ began[r] <= now
        /\ pc[r] \in {"touch", "200"} => raw[r].secret \in Issued /\ raw[r].secret \in Keys
        /\ pc[r] = "touch" /\ keys[raw[r].secret].revoked_at # NULL
               => began[r] <= killed[raw[r].secret]
    BY DEF IInv, Touching, Issued
  <2> QED
    BY <1>1, <2>1
<1>9. Refused'
  BY <1>1, <1>2, <1>3 DEF IInv, TypeOK, Refused
<1>10. NoUseAfterRevocation'
  BY <1>1 DEF IInv, Rows, NoUseAfterRevocation
<1> QED
  BY <1>4, <1>5, <1>7, <1>8, <1>9, <1>10 DEF IInv

LEMMA RevokeSelectKeeps ==
    ASSUME IInv, NEW v \in Revokers, NEW d \in Drones, RevokeSelect(v, d)
    PROVE  IInv'
<1> USE DEF IInv, RevokeSelect
<1>1. TypeOK'
  BY DEF TypeOK, States, Processes
<1>2. (Rows /\ Carries /\ NoUseAfterRevocation)'
  BY DEF Rows, Carries, NoUseAfterRevocation, Issued
<1>3. \A p \in Requests \cup Minters : pc'[p] = pc[p] /\ began'[p] = began[p]
  BY ProcessAssumption DEF TypeOK, Processes
<1>4. Minting'
  BY <1>3, ProcessAssumption DEF TypeOK, Minting
<1>5. Touching'
  BY <1>3 DEF Touching, Issued
<1>6. Refused'
  BY <1>3 DEF TypeOK, Refused
<1> QED
  BY <1>1, <1>2, <1>4, <1>5, <1>6

LEMMA ErrorKeeps ==
    ASSUME IInv, NEW p \in Processes, Error(p)
    PROVE  IInv'
<1> USE DEF IInv, Error
<1>1. TypeOK'
  BY DEF TypeOK, States
<1>2. (Rows /\ Carries /\ NoUseAfterRevocation)'
  BY DEF Rows, Carries, NoUseAfterRevocation, Issued
<1>3. Minting'
  BY DEF TypeOK, Minting, Processes
<1>4. Touching'
  BY DEF TypeOK, Touching, Issued, Processes
<1>5. Refused'
  BY DEF TypeOK, Refused, Processes
<1> QED
  BY <1>1, <1>2, <1>3, <1>4, <1>5

LEMMA EnvironmentKeeps ==
    ASSUME IInv, Tick \/ (\E d \in Drones : SetActive(d)) \/ UNCHANGED vars
    PROVE  IInv'
<1>1. /\ UNCHANGED <<keys, pc, raw, drone, began, reason, dead, killed>>
      /\ now' \in Clock /\ now <= now'
      /\ active' \subseteq Drones
  BY TimeAssumption DEF IInv, TypeOK, Tick, SetActive, vars, Clock
<1>2. TypeOK'
  BY <1>1 DEF IInv, TypeOK
<1>3. (Carries /\ Minting /\ Refused /\ NoUseAfterRevocation)'
  BY <1>1 DEF IInv, Carries, Minting, Refused, NoUseAfterRevocation, Issued
<1>4. Rows'
  BY <1>1 DEF IInv, TypeOK, Rows, KeyRow, Timestamp, Clock
<1>5. Touching'
  BY <1>1 DEF IInv, TypeOK, Touching, Issued, Clock, Processes
<1> QED
  BY <1>2, <1>3, <1>4, <1>5 DEF IInv

\* Every step keeps the invariant.
THEOREM NextKeeps == IInv /\ [Next]_vars => IInv'
<1> SUFFICES ASSUME IInv, [Next]_vars
             PROVE  IInv'
  OBVIOUS
<1>1. ASSUME NEW v \in Revokers, NEW prefix \in Prefixes, RevokeByPrefix(v, prefix)
      PROVE  IInv'
  <2>1. UnderPrefix(prefix) \in SUBSET Issued /\ now \in Clock
    BY DEF UnderPrefix, IInv, TypeOK
  <2> QED
    BY <1>1, <2>1, RevokeKeeps DEF RevokeByPrefix
<1>2. ASSUME NEW v \in Revokers, RevokeByDrone(v)
      PROVE  IInv'
  <2>1. began[v] \in Clock
    BY DEF IInv, TypeOK, Processes
  <2> QED
    BY <1>2, <2>1, RevokeKeeps DEF RevokeByDrone
<1> QED
  BY <1>1, <1>2, PresentKeeps, VerifySelectKeeps, VerifyTouchKeeps, MintSelectKeeps,
     MintInsertKeeps, RevokeSelectKeeps, ErrorKeeps, EnvironmentKeeps
  DEF Next

\* IInv holds in every reachable state.
THEOREM Invariance == Spec => []IInv
BY InitIInv, NextKeeps, PTL DEF Spec

-----------------------------------------------------------------------------
(* Consequences.                                                            *)

\* Tables and process states keep their types.
THEOREM TypeCorrect == Spec => []TypeOK
BY Invariance, PTL DEF IInv

\* A request that comes with a revoked key is refused, and as revoked.
THEOREM RevokedAtOnce == Spec => []RevocationImmediate
<1>1. IInv => RevocationImmediate
  BY DEF IInv, Refused, RevocationImmediate
<1> QED
  BY <1>1, Invariance, PTL

\* The stamp of a revoked key is not later than its revocation.
THEOREM NoLaterUse == Spec => []NoUseAfterRevocation
BY Invariance, PTL DEF IInv

\* last_used_at moves only forward and at most once per DEBOUNCE.
THEOREM Debounced == Spec => LastUsedDebounced
<1> DEFINE Once == \A k \in Keys :
        keys'[k].last_used_at # keys[k].last_used_at =>
            \/ keys[k].last_used_at = NULL
            \/ keys'[k].last_used_at > keys[k].last_used_at + DEBOUNCE
<1>1. ASSUME IInv, [Next]_vars
      PROVE  [Once]_vars
  <2>1. ASSUME NEW r \in Requests, VerifyTouch(r)
        PROVE  Once
    <3>1. raw[r].secret \in Keys /\ keys[raw[r].secret] \in KeyRow /\ began[r] \in Nat
      BY <1>1, <2>1 DEF VerifyTouch, IInv, TypeOK, Touching, Issued, Processes, Clock
    <3> QED
      BY <1>1, <2>1, <3>1, DebounceAssumption DEF VerifyTouch, IInv, TypeOK, Due, KeyRow, Timestamp
  <2>2. ASSUME NEW m \in Minters, NEW k \in Keys, NEW prefix \in Prefixes,
               MintInsert(m, k, prefix)
        PROVE  Once
    <3>1. keys[k].last_used_at = NULL
      BY <1>1, <2>2 DEF MintInsert, IInv, Rows, Issued, NoRow
    <3>2. \A j \in Keys : j # k => keys'[j] = keys[j]
      BY <1>1, <2>2 DEF MintInsert, IInv, TypeOK
    <3> QED
      BY <3>1, <3>2
  <2>3. ASSUME NEW chosen \in SUBSET Issued, NEW t \in Clock, Revoke(chosen, t)
        PROVE  Once
    BY <1>1, <2>3, RevokeRows
  <2>4. ASSUME NEW v \in Revokers, NEW prefix \in Prefixes, RevokeByPrefix(v, prefix)
        PROVE  Once
    <3>1. UnderPrefix(prefix) \in SUBSET Issued /\ now \in Clock
      BY <1>1 DEF UnderPrefix, IInv, TypeOK
    <3> QED
      BY <2>3, <2>4, <3>1 DEF RevokeByPrefix
  <2>5. ASSUME NEW v \in Revokers, RevokeByDrone(v)
        PROVE  Once
    <3>1. began[v] \in Clock
      BY <1>1 DEF IInv, TypeOK, Processes
    <3> QED
      BY <2>3, <2>5, <3>1 DEF RevokeByDrone
  <2>6. CASE UNCHANGED keys
    BY <2>6
  <2> HIDE DEF Once
  <2> QED
    BY <1>1, <2>1, <2>2, <2>4, <2>5, <2>6
    DEF Next, Present, VerifySelect, MintSelect, RevokeSelect, Error, SetActive, Tick, vars
<1> QED
  BY <1>1, Invariance, PTL DEF Spec, LastUsedDebounced

-----------------------------------------------------------------------------
(* Refinement: the life of a key row and of a request is that of Credential. *)

\* What a request and the table look like through the refinement mapping.
AcceptedWith(r) == IF pc[r] \in {"touch", "200"} THEN raw[r].secret ELSE NoKey
AnswerOf(r) ==
    CASE pc[r] = "200" -> "served"
      [] pc[r] \in {"401", "500"} -> "refused"
      [] OTHER -> "none"

\* No row changes its state, and request q looks as before.
SameRows ==
    \A k \in Keys : CredentialState(keys[k])' = CredentialState(keys[k])
SameRequest(q) == AcceptedWith(q)' = AcceptedWith(q) /\ AnswerOf(q)' = AnswerOf(q)

\* The actions of Credential in these words.
LEMMA Stutters ==
    ASSUME SameRows, \A q \in Requests : SameRequest(q)
    PROVE  UNCHANGED Cred!vars
BY DEF Cred!vars, SameRows, SameRequest, AcceptedWith, AnswerOf

LEMMA Accepts ==
    ASSUME NEW r \in Requests, NEW c \in Keys, SameRows,
           \A q \in Requests \ {r} : SameRequest(q),
           AnswerOf(r) = "none", AnswerOf(r)' = "none",
           AcceptedWith(r) = NoKey, AcceptedWith(r)' = c,
           CredentialState(keys[c]) = "live"
    PROVE  Cred!Accept(r, c)
BY DEF Cred!Accept, SameRows, SameRequest, AcceptedWith, AnswerOf

LEMMA Serves ==
    ASSUME NEW r \in Requests, SameRows,
           \A q \in Requests \ {r} : SameRequest(q),
           AnswerOf(r) = "none", AnswerOf(r)' = "served",
           AcceptedWith(r) # NoKey, AcceptedWith(r)' = AcceptedWith(r)
    PROVE  Cred!Serve(r)
BY DEF Cred!Serve, SameRows, SameRequest, AcceptedWith, AnswerOf

LEMMA Refuses ==
    ASSUME NEW r \in Requests, SameRows,
           \A q \in Requests \ {r} : SameRequest(q),
           AnswerOf(r) = "none", AnswerOf(r)' = "refused",
           AcceptedWith(r)' = NoKey
    PROVE  Cred!Refuse(r)
BY DEF Cred!Refuse, SameRows, SameRequest, AcceptedWith, AnswerOf

LEMMA Issues ==
    ASSUME NEW k \in Keys, \A q \in Requests : SameRequest(q),
           CredentialState(keys[k]) = "absent", CredentialState(keys[k])' = "live",
           \A j \in Keys \ {k} : CredentialState(keys[j])' = CredentialState(keys[j])
    PROVE  Cred!Issue(k)
BY DEF Cred!Issue, SameRequest, AcceptedWith, AnswerOf

LEMMA Revokes ==
    ASSUME NEW C \in SUBSET Keys, \A q \in Requests : SameRequest(q),
           \A k \in C : CredentialState(keys[k]) # "absent",
           \A k \in Keys : CredentialState(keys[k])'
                = IF k \in C THEN "revoked" ELSE CredentialState(keys[k])
    PROVE  Cred!Revoke(C)
BY DEF Cred!Revoke, SameRequest, AcceptedWith, AnswerOf

\* A step of request r leaves the other requests alone.
LEMMA OthersSame ==
    ASSUME IInv, NEW r \in Requests, NEW status, pc' = [pc EXCEPT ![r] = status],
           \A q \in Requests \ {r} : raw'[q] = raw[q]
    PROVE  \A q \in Requests \ {r} : SameRequest(q)
BY DEF IInv, TypeOK, Processes, SameRequest, AcceptedWith, AnswerOf

\* A step of a script leaves every request alone.
LEMMA RequestsSame ==
    ASSUME IInv, NEW p \in Minters \cup Revokers, NEW status,
           pc' = [pc EXCEPT ![p] = status], UNCHANGED raw
    PROVE  \A q \in Requests : SameRequest(q)
BY ProcessAssumption DEF IInv, TypeOK, Processes, SameRequest, AcceptedWith, AnswerOf

\* A revocation of issued rows at a time that is not NULL.
LEMMA RevokeMaps ==
    ASSUME IInv, NEW v \in Revokers, NEW chosen \in SUBSET Issued, NEW t \in Clock,
           Revoke(chosen, t), Committed(v, "done", "failed"), UNCHANGED raw
    PROVE  Cred!Next
<1> DEFINE C == {k \in chosen : keys[k].revoked_at = NULL}
<1>1. C \in SUBSET Keys /\ \A k \in C : CredentialState(keys[k]) # "absent"
  BY DEF Issued, CredentialState
<1>2. \A k \in Keys : CredentialState(keys[k])'
          = IF k \in C THEN "revoked" ELSE CredentialState(keys[k])
  <2>1. t # NULL /\ \A k \in C : keys[k].drone # NoDrone
    BY DEF Clock, NULL, Issued
  <2>2. \A k \in Keys :
          /\ keys'[k].drone = keys[k].drone
          /\ IF k \in C THEN keys'[k].revoked_at = t ELSE keys'[k] = keys[k]
    BY RevokeRows
  <2> HIDE DEF C
  <2> QED
    BY <2>1, <2>2 DEF CredentialState
<1>3. \A q \in Requests : SameRequest(q)
  BY RequestsSame DEF Committed
<1> HIDE DEF C
<1>4. Cred!Revoke(C)
  BY <1>1, <1>2, <1>3, Revokes
<1> QED
  BY <1>1, <1>4 DEF Cred!Next, Cred!Revoke

\* Every step of ApiKeys is a step of Credential or changes nothing there.
LEMMA StepMaps ==
    ASSUME IInv, [Next]_vars
    PROVE  [Cred!Next]_(Cred!vars)
<1>1. ASSUME NEW r \in Requests, NEW presented \in Minted \cup MadeUp, Present(r, presented)
      PROVE  Cred!Next \/ UNCHANGED Cred!vars
  <2>1. /\ SameRows /\ \A q \in Requests \ {r} : SameRequest(q)
        /\ pc[r] = "idle" /\ pc'[r] \in {"401", "select"}
    <3>1. UNCHANGED keys /\ \A q \in Requests \ {r} : pc'[q] = pc[q] /\ raw'[q] = raw[q]
      BY <1>1 DEF Present, IInv, TypeOK, Processes
    <3> QED
      BY <1>1, <3>1 DEF Present, SameRows, SameRequest, AcceptedWith, AnswerOf, IInv,
                        TypeOK, Processes, CredentialState
  <2>2. CASE pc'[r] = "401"
    <3>1. Cred!Refuse(r)
      BY <2>1, <2>2, Refuses DEF AcceptedWith, AnswerOf
    <3> QED
      BY <3>1 DEF Cred!Next, Cred!Refuse
  <2>3. CASE pc'[r] = "select"
    BY <2>1, <2>3, Stutters DEF SameRequest, AcceptedWith, AnswerOf
  <2> QED
    BY <2>1, <2>2, <2>3
<1>2. ASSUME NEW r \in Requests, VerifySelect(r)
      PROVE  Cred!Next
  <2> DEFINE verdict == Verdict(raw[r].prefix, raw[r].secret)
  <2>1. /\ SameRows /\ \A q \in Requests \ {r} : SameRequest(q)
        /\ pc[r] = "select" /\ raw' = raw
        /\ pc'[r] = IF verdict = "none" THEN "touch" ELSE "401"
    BY <1>2, OthersSame DEF VerifySelect, SameRows, IInv, TypeOK, Processes, CredentialState
  <2>2. CASE verdict = "none"
    <3>1. PICK c \in Keys : c = raw[r].secret /\ CredentialState(keys[c]) = "live"
      BY <2>2, VerdictFacts DEF CredentialState, Issued
    <3>2. /\ AnswerOf(r) = "none" /\ AnswerOf(r)' = "none"
          /\ AcceptedWith(r) = NoKey /\ AcceptedWith(r)' = c
      BY <2>1, <2>2, <3>1 DEF AcceptedWith, AnswerOf
    <3>3. Cred!Accept(r, c)
      BY <2>1, <3>1, <3>2, Accepts
    <3> QED
      BY <3>3 DEF Cred!Next, Cred!Accept
  <2>3. CASE verdict # "none"
    <3>1. Cred!Refuse(r)
      BY <2>1, <2>3, Refuses DEF AcceptedWith, AnswerOf
    <3> QED
      BY <3>1 DEF Cred!Next, Cred!Refuse
  <2> QED
    BY <2>2, <2>3
<1>3. ASSUME NEW r \in Requests, VerifyTouch(r)
      PROVE  Cred!Next
  <2>1. /\ pc[r] = "touch" /\ pc'[r] \in {"200", "500"} /\ raw' = raw
        /\ raw[r].secret \in Keys
        /\ \A q \in Requests \ {r} : SameRequest(q)
    BY <1>3, OthersSame DEF VerifyTouch, Committed, IInv, TypeOK, Touching, Issued, Processes
  <2>2. SameRows
    <3>1. \A k \in Keys : keys[k] \in KeyRow
      BY DEF IInv, TypeOK
    <3> QED
      BY <1>3, <3>1 DEF VerifyTouch, SameRows, CredentialState, KeyRow, IInv, TypeOK
  <2>3. CASE pc'[r] = "200"
    <3>1. Cred!Serve(r)
      BY <2>1, <2>2, <2>3, KeyAssumption, Serves DEF AcceptedWith, AnswerOf
    <3> QED
      BY <3>1 DEF Cred!Next, Cred!Serve
  <2>4. CASE pc'[r] = "500"
    <3>1. Cred!Refuse(r)
      BY <2>1, <2>2, <2>4, Refuses DEF AcceptedWith, AnswerOf
    <3> QED
      BY <3>1 DEF Cred!Next, Cred!Refuse
  <2> QED
    BY <2>1, <2>3, <2>4
<1>4. ASSUME NEW m \in Minters, NEW d \in Drones, MintSelect(m, d)
      PROVE  UNCHANGED Cred!vars
  BY <1>4, RequestsSame, Stutters DEF MintSelect, SameRows, CredentialState
<1>5. ASSUME NEW m \in Minters, NEW k \in Keys, NEW prefix \in Prefixes, MintInsert(m, k, prefix)
      PROVE  Cred!Next
  <2>1. \A q \in Requests : SameRequest(q)
    BY <1>5, RequestsSame DEF MintInsert, Committed
  <2>2. /\ CredentialState(keys[k]) = "absent" /\ CredentialState(keys[k])' = "live"
        /\ \A j \in Keys \ {k} : CredentialState(keys[j])' = CredentialState(keys[j])
    <3>1. drone[m] \in Drones /\ k \notin Issued
      BY <1>5 DEF MintInsert, IInv, Minting
    <3>2. /\ keys'[k] = [NoRow EXCEPT !.drone = drone[m], !.prefix = prefix]
          /\ \A j \in Keys \ {k} : keys'[j] = keys[j]
      BY <1>5 DEF MintInsert, IInv, TypeOK
    <3> QED
      BY <3>1, <3>2, DroneAssumption DEF CredentialState, Issued, NoRow, NULL
  <2>3. Cred!Issue(k)
    BY <2>1, <2>2, Issues
  <2> QED
    BY <2>3 DEF Cred!Next, Cred!Issue
<1>6. ASSUME NEW v \in Revokers, NEW prefix \in Prefixes, RevokeByPrefix(v, prefix)
      PROVE  Cred!Next
  <2>1. UnderPrefix(prefix) \in SUBSET Issued /\ now \in Clock
    BY DEF UnderPrefix, IInv, TypeOK
  <2> QED
    BY <1>6, <2>1, RevokeMaps DEF RevokeByPrefix
<1>7. ASSUME NEW v \in Revokers, RevokeByDrone(v)
      PROVE  Cred!Next
  <2>1. began[v] \in Clock
    BY DEF IInv, TypeOK, Processes
  <2> QED
    BY <1>7, <2>1, RevokeMaps DEF RevokeByDrone
<1>8. ASSUME NEW v \in Revokers, NEW d \in Drones, RevokeSelect(v, d)
      PROVE  UNCHANGED Cred!vars
  BY <1>8, RequestsSame, Stutters DEF RevokeSelect, SameRows, CredentialState
<1>9. ASSUME NEW r \in Requests, Error(r)
      PROVE  Cred!Next
  <2>1. /\ SameRows /\ \A q \in Requests \ {r} : SameRequest(q)
        /\ pc[r] \in {"select", "touch", "insert", "update"} /\ pc'[r] = "500"
    BY <1>9, OthersSame DEF Error, SameRows, CredentialState, IInv, TypeOK, Processes
  <2>2. Cred!Refuse(r)
    BY <2>1, Refuses DEF AcceptedWith, AnswerOf
  <2> QED
    BY <2>2 DEF Cred!Next, Cred!Refuse
<1>10. ASSUME NEW p \in Minters \cup Revokers, Error(p)
       PROVE  UNCHANGED Cred!vars
  BY <1>10, RequestsSame, Stutters DEF Error, SameRows, CredentialState
<1>11. CASE Tick \/ (\E d \in Drones : SetActive(d)) \/ UNCHANGED vars
  BY <1>11, Stutters DEF Tick, SetActive, vars, SameRows, SameRequest, AcceptedWith,
                         AnswerOf, CredentialState
<1> QED
  BY <1>1, <1>2, <1>3, <1>4, <1>5, <1>6, <1>7, <1>8, <1>9, <1>10, <1>11 DEF Next, Processes

\* API keys implement the revocable credential: a request is served only if
\* it was accepted with a key that was live while it was being handled, and
\* revocation is for good.
THEOREM KeysAreCredentials == Spec => CredentialSpec
<1>1. Init => Cred!Init
  BY DEF Init, Cred!Init, CredentialState, NoRow, Processes
<1> QED
  BY <1>1, StepMaps, Invariance, PTL DEF Spec, CredentialSpec, Cred!Spec

-----------------------------------------------------------------------------
(* One mint terminal.  The check and the insert of mint_key.py are separate *)
(* transactions; with nobody else minting in between, what the check found  *)
(* still holds when the row is inserted, because revocations only help.     *)

\* While a script is about to insert, its drone has no active key.
Vacant ==
    \A m \in Minters, k \in Keys :
        pc[m] = "insert" /\ keys[k].drone = drone[m] => keys[k].revoked_at # NULL

\* A step that issues nothing, unrevokes nothing and sends no script to its
\* insert keeps both.
LEMMA NothingMinted ==
    ASSUME AtMostOneActiveKey, Vacant,
           \A k \in Keys : /\ keys'[k].drone = keys[k].drone
                           /\ keys[k].revoked_at # NULL => keys'[k].revoked_at # NULL,
           \A m \in Minters : pc'[m] = "insert" => pc[m] = "insert" /\ drone'[m] = drone[m]
    PROVE  (AtMostOneActiveKey /\ Vacant)'
BY DEF AtMostOneActiveKey, Vacant

LEMMA SelectsVacant ==
    ASSUME IsFiniteSet(Keys), IInv, AtMostOneActiveKey, Vacant,
           NEW m \in Minters, NEW d \in Drones, MintSelect(m, d)
    PROVE  (AtMostOneActiveKey /\ Vacant)'
<1>1. AtMostOneActiveKey'
  BY DEF MintSelect, AtMostOneActiveKey
<1>2. ASSUME pc'[m] = "insert"
      PROVE  ActiveKeys(d) = {}
  <2>1. Cardinality(ActiveKeys(d)) = 0
    BY <1>2 DEF MintSelect, IInv, TypeOK, Processes
  <2>2. ActiveKeys(d) \subseteq Keys
    BY DEF ActiveKeys, Issued
  <2>3. IsFiniteSet(ActiveKeys(d))
    BY <2>2, FS_Subset
  <2> QED
    BY <2>1, <2>3, FS_EmptySet
<1>3. ASSUME NEW n \in Minters, NEW k \in Keys, pc'[n] = "insert", keys[k].drone = drone'[n]
      PROVE  keys[k].revoked_at # NULL
  <2>1. CASE n = m
    <3>1. ActiveKeys(d) = {} /\ keys[k].drone = d
      BY <1>2, <1>3, <2>1 DEF MintSelect, IInv, TypeOK
    <3> QED
      BY <3>1, DroneAssumption DEF ActiveKeys, Issued
  <2>2. CASE n # m
    BY <1>3, <2>2 DEF MintSelect, Vacant, IInv, TypeOK, Processes
  <2> QED
    BY <2>1, <2>2
<1>4. keys' = keys
  BY DEF MintSelect
<1>5. Vacant'
  BY <1>3, <1>4 DEF Vacant
<1> QED
  BY <1>1, <1>5

LEMMA InsertsAlone ==
    ASSUME \A m, n \in Minters : m = n, IInv, AtMostOneActiveKey, Vacant,
           NEW m \in Minters, NEW k \in Keys, NEW prefix \in Prefixes,
           MintInsert(m, k, prefix)
    PROVE  (AtMostOneActiveKey /\ Vacant)'
<1>1. /\ keys'[k].drone = drone[m]
      /\ \A j \in Keys \ {k} : keys'[j] = keys[j]
      /\ \A j \in Keys : keys[j].drone = drone[m] => keys[j].revoked_at # NULL
  BY DEF MintInsert, NoRow, IInv, TypeOK, Vacant
<1>2. AtMostOneActiveKey'
  BY <1>1 DEF AtMostOneActiveKey
<1>3. \A n \in Minters : pc'[n] # "insert"
  BY DEF MintInsert, Committed, IInv, TypeOK, Processes
<1> QED
  BY <1>2, <1>3 DEF Vacant

LEMMA AloneKeeps ==
    ASSUME \A m, n \in Minters : m = n, IsFiniteSet(Keys)
    PROVE  IInv /\ AtMostOneActiveKey /\ Vacant /\ [Next]_vars => (AtMostOneActiveKey /\ Vacant)'
<1> SUFFICES ASSUME IInv, AtMostOneActiveKey, Vacant, [Next]_vars
             PROVE  (AtMostOneActiveKey /\ Vacant)'
  OBVIOUS
<1>1. ASSUME NEW r \in Requests, NEW presented, Present(r, presented)
      PROVE  (AtMostOneActiveKey /\ Vacant)'
  BY <1>1, NothingMinted DEF Present, IInv, TypeOK, Processes
<1>2. ASSUME NEW r \in Requests, VerifySelect(r)
      PROVE  (AtMostOneActiveKey /\ Vacant)'
  BY <1>2, NothingMinted DEF VerifySelect, IInv, TypeOK, Processes
<1>3. ASSUME NEW r \in Requests, VerifyTouch(r)
      PROVE  (AtMostOneActiveKey /\ Vacant)'
  <2>1. ASSUME NEW k \in Keys
        PROVE  keys'[k].drone = keys[k].drone /\ keys'[k].revoked_at = keys[k].revoked_at
    <3>1. keys[k] \in KeyRow
      BY DEF IInv, TypeOK
    <3> QED
      BY <1>3, <3>1 DEF VerifyTouch, KeyRow, IInv, TypeOK
  <2> QED
    BY <1>3, <2>1, NothingMinted DEF VerifyTouch, Committed, IInv, TypeOK, Processes
<1>4. ASSUME NEW m \in Minters, NEW d \in Drones, MintSelect(m, d)
      PROVE  (AtMostOneActiveKey /\ Vacant)'
  BY <1>4, SelectsVacant
<1>5. ASSUME NEW m \in Minters, NEW k \in Keys, NEW prefix \in Prefixes, MintInsert(m, k, prefix)
      PROVE  (AtMostOneActiveKey /\ Vacant)'
  BY <1>5, InsertsAlone
<1>6. ASSUME NEW v \in Revokers, NEW chosen \in SUBSET Issued, NEW t \in Clock,
             Revoke(chosen, t), Committed(v, "done", "failed"), UNCHANGED drone
      PROVE  (AtMostOneActiveKey /\ Vacant)'
  <2>1. \A k \in Keys : /\ keys'[k].drone = keys[k].drone
                        /\ keys[k].revoked_at # NULL => keys'[k].revoked_at # NULL
    BY <1>6, RevokeRows DEF Clock, NULL
  <2> QED
    BY <1>6, <2>1, NothingMinted DEF Committed, IInv, TypeOK, Processes
<1>7. ASSUME NEW v \in Revokers, NEW prefix \in Prefixes, RevokeByPrefix(v, prefix)
      PROVE  (AtMostOneActiveKey /\ Vacant)'
  <2>1. UnderPrefix(prefix) \in SUBSET Issued /\ now \in Clock
    BY DEF UnderPrefix, IInv, TypeOK
  <2> QED
    BY <1>6, <1>7, <2>1 DEF RevokeByPrefix
<1>8. ASSUME NEW v \in Revokers, RevokeByDrone(v)
      PROVE  (AtMostOneActiveKey /\ Vacant)'
  <2>1. began[v] \in Clock
    BY DEF IInv, TypeOK, Processes
  <2> QED
    BY <1>6, <1>8, <2>1 DEF RevokeByDrone
<1>9. ASSUME NEW v \in Revokers, NEW d \in Drones, RevokeSelect(v, d)
      PROVE  (AtMostOneActiveKey /\ Vacant)'
  <2>1. \A m \in Minters : pc'[m] = pc[m] /\ drone'[m] = drone[m]
    BY <1>9, ProcessAssumption DEF RevokeSelect, IInv, TypeOK, Processes
  <2> QED
    BY <1>9, <2>1, NothingMinted DEF RevokeSelect
<1>10. ASSUME NEW p \in Processes, Error(p)
       PROVE  (AtMostOneActiveKey /\ Vacant)'
  BY <1>10, NothingMinted DEF Error, IInv, TypeOK, Processes
<1>11. CASE Tick \/ (\E d \in Drones : SetActive(d)) \/ UNCHANGED vars
  BY <1>11, NothingMinted DEF Tick, SetActive, vars
<1> QED
  BY <1>1, <1>2, <1>3, <1>4, <1>5, <1>7, <1>8, <1>9, <1>10, <1>11 DEF Next

\* Minting from one terminal only, a drone never has two active keys, whatever
\* requests and revocations run beside it.
THEOREM OneActiveKey ==
    ASSUME \A m, n \in Minters : m = n, IsFiniteSet(Keys)
    PROVE  Spec => []AtMostOneActiveKey
<1>1. Init => AtMostOneActiveKey /\ Vacant
  BY DEF Init, AtMostOneActiveKey, Vacant, NoRow, Processes
<1> QED
  BY <1>1, AloneKeeps, Invariance, PTL DEF Spec

=============================================================================
