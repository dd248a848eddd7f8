----------------------------- MODULE Credential -----------------------------
(***************************************************************************)
(* What a revocable credential promises, whether it is a session token     *)
(* (app/auth/session.py) or a drone API key (app/auth/api_key.py): it is   *)
(* issued once, revocation is permanent, and a request is served only if   *)
(* the credential it carries was live at some moment while the request was *)
(* being handled.                                                          *)
(***************************************************************************)
CONSTANTS Credentials, Requests, NoCredential

VARIABLES
    state,     \* absent, live or revoked
    accepted,  \* the credential a request was accepted with
    answer     \* what became of the request

vars == <<state, accepted, answer>>

Init ==
    /\ state = [c \in Credentials |-> "absent"]
    /\ accepted = [r \in Requests |-> NoCredential]
    /\ answer = [r \in Requests |-> "none"]

Issue(c) ==
    /\ state[c] = "absent"
    /\ state' = [state EXCEPT ![c] = "live"]
    /\ UNCHANGED <<accepted, answer>>

\* Any number of issued credentials at once.
Revoke(C) ==
    /\ \A c \in C : state[c] # "absent"
    /\ state' = [c \in Credentials |-> IF c \in C THEN "revoked" ELSE state[c]]
    /\ UNCHANGED <<accepted, answer>>

Accept(r, c) ==
    /\ answer[r] = "none"
    /\ accepted[r] = NoCredential
    /\ state[c] = "live"
    /\ accepted' = [accepted EXCEPT ![r] = c]
    /\ UNCHANGED <<state, answer>>

Serve(r) ==
    /\ answer[r] = "none"
    /\ accepted[r] # NoCredential
    /\ answer' = [answer EXCEPT ![r] = "served"]
    /\ UNCHANGED <<state, accepted>>

Refuse(r) ==
    /\ answer[r] = "none"
    /\ answer' = [answer EXCEPT ![r] = "refused"]
    /\ accepted' = [accepted EXCEPT ![r] = NoCredential]
    /\ UNCHANGED state

Next ==
    \/ \E c \in Credentials : Issue(c)
    \/ \E C \in SUBSET Credentials : Revoke(C)
    \/ \E r \in Requests : \/ \E c \in Credentials : Accept(r, c)
                           \/ Serve(r)
                           \/ Refuse(r)

Spec == Init /\ [][Next]_vars
=============================================================================
