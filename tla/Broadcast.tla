----------------------------- MODULE Broadcast -----------------------------
(***************************************************************************)
(* What live telemetry promises, without keys, requests, inboxes, Redis or *)
(* its failures: a channel per drone to which every message is published   *)
(* at most once and only at its end, and readers that join a channel at    *)
(* its end and are shown from there on each message in turn.               *)
(***************************************************************************)
EXTENDS Naturals, Sequences

CONSTANTS Channels, Messages, Readers, NoChannel

VARIABLES
    published,  \* the messages of a channel, oldest first
    follows,    \* the channel of a reader
    place,      \* how many messages of its channel a reader is past
    shown       \* what a reader was shown

Init ==
    /\ published = [c \in Channels |-> <<>>]
    /\ follows = [s \in Readers |-> NoChannel]
    /\ place = [s \in Readers |-> 0]
    /\ shown = [s \in Readers |-> <<>>]

Publish(c, m) ==
    /\ \A other \in Channels : \A i \in 1..Len(published[other]) : published[other][i] # m
    /\ published' = [published EXCEPT ![c] = Append(@, m)]
    /\ UNCHANGED <<follows, place, shown>>

Join(s, c) ==
    /\ follows[s] = NoChannel
    /\ follows' = [follows EXCEPT ![s] = c]
    /\ place' = [place EXCEPT ![s] = Len(published[c])]
    /\ UNCHANGED <<published, shown>>

Show(s) ==
    /\ follows[s] # NoChannel
    /\ place[s] < Len(published[follows[s]])
    /\ place' = [place EXCEPT ![s] = @ + 1]
    /\ shown' = [shown EXCEPT ![s] = Append(@, published[follows[s]][place[s] + 1])]
    /\ UNCHANGED <<published, follows>>

Next ==
    \/ \E c \in Channels : \/ \E m \in Messages : Publish(c, m)
                           \/ \E s \in Readers : Join(s, c)
    \/ \E s \in Readers : Show(s)

Spec == Init /\ [][Next]_<<published, follows, place, shown>>
=============================================================================
