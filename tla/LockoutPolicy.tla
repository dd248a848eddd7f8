--------------------------- MODULE LockoutPolicy ---------------------------
(***************************************************************************)
(* What the docstring of app/auth/login.py (lines 7-11) promises about an  *)
(* account, without tables, transactions or requests: THRESHOLD misses in  *)
(* a row lock it for DURATION, the count restarts with the lock, and a hit *)
(* clears both.  An attempt is judged at some moment t not later than now. *)
(***************************************************************************)
EXTENDS Naturals

CONSTANTS Users, THRESHOLD, DURATION

VARIABLES now, misses, until

Init ==
    /\ now = 1
    /\ misses = [u \in Users |-> 0]
    /\ until = [u \in Users |-> 0]

\* A wrong password at t, while the account was not locked.
Miss(u, t) ==
    /\ until[u] <= t
    /\ IF misses[u] + 1 >= THRESHOLD
       THEN /\ misses' = [misses EXCEPT ![u] = 0]
            /\ until' = [until EXCEPT ![u] = t + DURATION]
       ELSE /\ misses' = [misses EXCEPT ![u] = @ + 1]
            /\ until' = until
    /\ now' = now

\* The right password at t, while the account was not locked.
Hit(u, t) ==
    /\ until[u] <= t
    /\ misses' = [misses EXCEPT ![u] = 0]
    /\ until' = [until EXCEPT ![u] = 0]
    /\ now' = now

Tick == now' = now + 1 /\ UNCHANGED <<misses, until>>

Next ==
    \/ \E u \in Users, t \in 1..now : Miss(u, t) \/ Hit(u, t)
    \/ Tick

Spec == Init /\ [][Next]_<<now, misses, until>>
=============================================================================
