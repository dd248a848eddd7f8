------------------------------ MODULE Telemetry ------------------------------
(***************************************************************************)
(* Live telemetry: the ingest route (app/api/v1/ingest.py), the SSE stream *)
(* (app/api/v1/stream.py) and the Redis server between them, one key and   *)
(* one channel per drone.                                                  *)
(*                                                                         *)
(* The ingest route stands on get_current_drone, which appears here as the *)
(* revocable credential of module Credential that ApiKeys implements:      *)
(* "served" means that the dependency returned the drone of the key.       *)
(*                                                                         *)
(* A message is named by the request that carries it.  A channel is the    *)
(* sequence of all that was ever published on it; what Redis has sent to a *)
(* stream and the generator has not read is the stream's inbox.            *)
(***************************************************************************)
EXTENDS Integers, Sequences, FiniteSets

CONSTANTS
    Keys,
    NoKey,
    Drones,
    Requests,   \* requests to the ingest route
    NoMessage,
    Streams,    \* connections to the stream route
    NoDrone

ASSUME KeyAssumption == NoKey \notin Keys
ASSUME DroneAssumption == NoDrone \notin Drones
ASSUME MessageAssumption == NoMessage \notin Requests
ASSUME ProcessAssumption == Requests \cap Streams = {}

VARIABLES
    state,     \* Credential: the keys
    accepted,  \* Credential: the key a request was accepted with
    answer,    \* Credential: what get_current_drone answered
    owner,     \* drone_id of the keys
    carries,   \* the key a request carries
    pc,        \* where a request or a stream stands
    stored,    \* the message under "drone:{id}:telemetry"
    channel,   \* the messages published on "drone:{id}:telemetry"
    watches,   \* the drone of a stream
    subscribed, \* the streams Redis knows as subscribers
    inbox,     \* what Redis sent to a stream
    shown,     \* what a stream sent to its client
    since,     \* history: the length of the channel when Redis subscribed it
    late,      \* history: requests whose key was revoked before they came
    mixed      \* history: drones with a failed command or overlapping requests

cred == <<state, accepted, answer>>
redis == <<stored, channel>>
streams == <<watches, subscribed, inbox, shown, since>>
vars == <<cred, owner, carries, pc, redis, streams, late, mixed>>

Cred == INSTANCE Credential WITH Credentials <- Keys, NoCredential <- NoKey

IngestStates == {"idle", "auth", "validate", "set", "publish", "200", "401", "422", "500"}
StreamStates == {"idle", "listening", "unsubscribe", "close", "done", "failed"}

\* What Redis sends to a subscriber: the confirmation or a message.
Confirmation == [type |-> "subscribe", data |-> NoMessage]
Message(r) == [type |-> "message", data |-> r]
NotYet == 0 - 1
Pushes == {Confirmation} \cup {Message(r) : r \in Requests}

Init ==
    /\ Cred!Init
    /\ owner \in [Keys -> Drones]
    /\ carries = [r \in Requests |-> NoKey]
    /\ pc = [p \in Requests \cup Streams |-> "idle"]
    /\ stored = [d \in Drones |-> NoMessage]
    /\ channel = [d \in Drones |-> <<>>]
    /\ watches = [s \in Streams |-> NoDrone]
    /\ subscribed = {}
    /\ inbox = [s \in Streams |-> <<>>]
    /\ shown = [s \in Streams |-> <<>>]
    /\ since = [s \in Streams |-> NotYet]
    /\ late = {}
    /\ mixed = {}

Go(p, place) == pc' = [pc EXCEPT ![p] = place]

\* The drone get_current_drone returned.
\* mutant: one name for the key and the channel of all drones
Subject_shared(r) == CHOOSE d \in Drones : TRUE
Subject(r) == owner[accepted[r]]

-----------------------------------------------------------------------------
(* Keys: mint_key.py and revoke_key.py, see module ApiKeys.                *)

IssueKey(k) ==
    /\ Cred!Issue(k)
    /\ UNCHANGED <<owner, carries, pc, redis, streams, late, mixed>>

RevokeKey(k) ==
    /\ state[k] = "live"
    /\ Cred!Revoke({k})
    /\ UNCHANGED <<owner, carries, pc, redis, streams, late, mixed>>

-----------------------------------------------------------------------------
(* ingest_telemetry.                                                       *)

Arrive(r, k) ==
    /\ pc[r] = "idle"
    /\ Go(r, "auth")
    /\ carries' = [carries EXCEPT ![r] = k]
    /\ late' = IF k \in Keys /\ state[k] = "revoked" THEN late \cup {r} ELSE late
    /\ UNCHANGED <<cred, owner, redis, streams, mixed>>

\* verify_api_key selects a live key.
\* mutant: revocation is not looked at
Accept_any(r, k) ==
    /\ state[k] # "absent"
    /\ accepted' = [accepted EXCEPT ![r] = k]
    /\ UNCHANGED <<state, answer>>
Accept(r, k) == Cred!Accept(r, k)
AcceptKey(r) ==
    /\ pc[r] = "auth"
    /\ accepted[r] = NoKey
    /\ carries[r] \in Keys
    /\ Accept(r, carries[r])
    /\ UNCHANGED <<owner, carries, pc, redis, streams, late, mixed>>

\* The drone is returned.  FastAPI solves the dependencies before it reports
\* on the fields of the body: an unauthenticated request is not validated.
ReturnDrone(r) ==
    /\ pc[r] = "auth"
    /\ Cred!Serve(r)
    /\ Go(r, "validate")
    /\ UNCHANGED <<owner, carries, redis, streams, late, mixed>>

RefuseKey(r) ==
    /\ pc[r] = "auth"
    /\ Cred!Refuse(r)
    /\ \E refusal \in {"401", "500"} : Go(r, refusal)
    /\ UNCHANGED <<owner, carries, redis, streams, late, mixed>>

Validate(r) ==
    /\ pc[r] = "validate"
    /\ \E verdict \in {"set", "422"} : Go(r, verdict)
    /\ UNCHANGED <<cred, owner, carries, redis, streams, late, mixed>>

\* What a RedisError leads to: a log line and the answer 200.
\* mutant: the error is not caught
Dropped_raised == "500"
Dropped == "200"

Overlaps(r) == \E q \in Requests \ {r} : pc[q] = "publish" /\ Subject(q) = Subject(r)

\* SET with ex=10.
\* mutant: a value that is still there is not replaced
StoredBySet_nx(r) == [stored EXCEPT ![Subject(r)] = IF @ = NoMessage THEN r ELSE @]
StoredBySet(r) == [stored EXCEPT ![Subject(r)] = r]
SetValue(r) ==
    /\ pc[r] = "set"
    /\ stored' = StoredBySet(r)
    /\ Go(r, "publish")
    /\ mixed' = IF Overlaps(r) THEN mixed \cup {Subject(r)} ELSE mixed
    /\ UNCHANGED <<cred, owner, carries, channel, streams, late>>

\* SET raises: Redis did not get the command, or its reply was lost.
SetFails(r) ==
    /\ pc[r] = "set"
    /\ stored' \in {stored, StoredBySet(r)}
    /\ Go(r, Dropped)
    /\ mixed' = mixed \cup {Subject(r)}
    /\ UNCHANGED <<cred, owner, carries, channel, streams, late>>

\* PUBLISH: Redis appends the message to the inbox of every subscriber.
Published(r) ==
    /\ channel' = [channel EXCEPT ![Subject(r)] = Append(@, r)]
    /\ inbox' = [s \in Streams |-> IF s \in subscribed /\ watches[s] = Subject(r)
                                   THEN Append(inbox[s], Message(r)) ELSE inbox[s]]

Publish(r) ==
    /\ pc[r] = "publish"
    /\ Published(r)
    /\ Go(r, "200")
    /\ UNCHANGED <<cred, owner, carries, stored, watches, subscribed, shown, since, late, mixed>>

PublishFails(r) ==
    /\ pc[r] = "publish"
    /\ Published(r) \/ UNCHANGED <<channel, inbox>>
    /\ Go(r, Dropped)
    /\ mixed' = mixed \cup {Subject(r)}
    /\ UNCHANGED <<cred, owner, carries, stored, watches, subscribed, shown, since, late>>

\* Ten seconds without a SET.
Expire(d) ==
    /\ stored[d] # NoMessage
    /\ stored' = [stored EXCEPT ![d] = NoMessage]
    /\ UNCHANGED <<cred, owner, carries, pc, channel, streams, late, mixed>>

-----------------------------------------------------------------------------
(* telemetry_generator.                                                    *)

\* subscribe sends the command and does not wait for the confirmation.
Connect(s, d) ==
    /\ pc[s] = "idle"
    /\ watches' = [watches EXCEPT ![s] = d]
    /\ \E place \in {"listening", "failed"} : Go(s, place)
    /\ UNCHANGED <<cred, owner, carries, redis, subscribed, inbox, shown, since, late, mixed>>

\* Redis gets to the command.
Subscribed(s) ==
    /\ pc[s] = "listening"
    /\ s \notin subscribed
    /\ since[s] = NotYet
    /\ subscribed' = subscribed \cup {s}
    /\ since' = [since EXCEPT ![s] = Len(channel[watches[s]])]
    /\ inbox' = [inbox EXCEPT ![s] = Append(@, Confirmation)]
    /\ UNCHANGED <<cred, owner, carries, pc, redis, watches, shown, late, mixed>>

\* listen yields what Redis pushed, and messages go to the client.
\* mutant: the confirmation is sent to the client as well
Sent_all(s) == Append(shown[s], Head(inbox[s]).data)
\* mutant: only messages of pattern subscriptions are sent
Sent_pattern(s) == IF Head(inbox[s]).type = "pmessage"
                   THEN Append(shown[s], Head(inbox[s]).data) ELSE shown[s]
Sent(s) == IF Head(inbox[s]).type = "message"
           THEN Append(shown[s], Head(inbox[s]).data) ELSE shown[s]
Relay(s) ==
    /\ pc[s] = "listening"
    /\ inbox[s] # <<>>
    /\ inbox' = [inbox EXCEPT ![s] = Tail(@)]
    /\ shown' = [shown EXCEPT ![s] = Sent(s)]
    /\ UNCHANGED <<cred, owner, carries, pc, redis, watches, subscribed, since, late, mixed>>

\* The client leaves, or the connection to Redis is lost (a slow client is
\* dropped by Redis): the generator runs its finally block.
Leave(s) ==
    /\ pc[s] = "listening"
    /\ Go(s, "unsubscribe")
    /\ \/ UNCHANGED <<subscribed, inbox>>
       \/ /\ subscribed' = subscribed \ {s}
          /\ inbox' = [inbox EXCEPT ![s] = <<>>]
    /\ UNCHANGED <<cred, owner, carries, redis, watches, shown, since, late, mixed>>

\* If unsubscribe raises, close is not called.
Unsubscribe(s) ==
    /\ pc[s] = "unsubscribe"
    /\ \/ /\ Go(s, "close")
          /\ subscribed' = subscribed \ {s}
       \/ /\ Go(s, "failed")
          /\ subscribed' \in {subscribed, subscribed \ {s}}
    /\ UNCHANGED <<cred, owner, carries, redis, watches, inbox, shown, since, late, mixed>>

Close(s) ==
    /\ pc[s] = "close"
    /\ \E place \in {"done", "failed"} : Go(s, place)
    /\ UNCHANGED <<cred, owner, carries, redis, streams, late, mixed>>

-----------------------------------------------------------------------------
\* What the event loop and Redis go on with once a request has come in.
Continue(r) ==
    \/ AcceptKey(r)
    \/ ReturnDrone(r)
    \/ RefuseKey(r)
    \/ Validate(r)
    \/ SetValue(r)
    \/ SetFails(r)
    \/ Publish(r)
    \/ PublishFails(r)

Next ==
    \/ \E k \in Keys : IssueKey(k) \/ RevokeKey(k)
    \/ \E r \in Requests :
          \/ \E k \in Keys \cup {NoKey} : Arrive(r, k)
          \/ Continue(r)
    \/ \E d \in Drones : Expire(d)
    \/ \E s \in Streams :
          \/ \E d \in Drones : Connect(s, d)
          \/ Subscribed(s)
          \/ Relay(s)
          \/ Leave(s)
          \/ Unsubscribe(s)
          \/ Close(s)

Spec == Init /\ [][Next]_vars

\* Redis answers or the connection breaks, and clients read their stream.
FairSpec ==
    /\ Spec
    /\ \A r \in Requests : WF_vars(Continue(r))
    /\ \A s \in Streams : WF_vars(Relay(s))

-----------------------------------------------------------------------------
(* Properties.                                                             *)

\* Each variable keeps the shape of its table or of its process state.
TypeOK ==
    /\ state \in [Keys -> {"absent", "live", "revoked"}]
    /\ accepted \in [Requests -> Keys \cup {NoKey}]
    /\ answer \in [Requests -> {"none", "served", "refused"}]
    /\ owner \in [Keys -> Drones]
    /\ carries \in [Requests -> Keys \cup {NoKey}]
    /\ pc \in [Requests \cup Streams -> IngestStates \cup StreamStates]
    /\ stored \in [Drones -> Requests \cup {NoMessage}]
    /\ channel \in [Drones -> Seq(Requests)]
    /\ watches \in [Streams -> Drones \cup {NoDrone}]
    /\ subscribed \subseteq Streams
    /\ inbox \in [Streams -> Seq(Pushes)]
    /\ shown \in [Streams -> Seq(Requests)]
    /\ since \in [Streams -> Nat \cup {NotYet}]
    /\ late \subseteq Requests
    /\ mixed \subseteq Drones

\* What is stored or published for a drone came with a key of that drone that
\* was live when the request was handled (dependencies.py:29-30, "the drone_id
\* for downstream handlers comes from the returned Drone") and that nobody had
\* revoked before it came (revoke_key.py:2 "Takes effect immediately"): a stream
\* shows no telemetry of another drone and none of a revoked key.
Attributed ==
    \A d \in Drones : \A r \in Requests :
        (stored[d] = r \/ \E i \in DOMAIN channel[d] : channel[d][i] = r)
            => answer[r] = "served" /\ owner[accepted[r]] = d /\ r \notin late

\* A stream shows the messages of its drone in the order of their publication
\* from the moment Redis subscribed it: none twice, none left out in between,
\* however the rest of the stream's life goes (stream.py:20-23).
ShownInOrder ==
    \A s \in Streams : shown[s] # <<>> =>
        /\ since[s] + Len(shown[s]) <= Len(channel[watches[s]])
        /\ \A i \in DOMAIN shown[s] : shown[s][i] = channel[watches[s]][since[s] + i]

\* The stored value is the last message published, unless it expired, a command
\* failed, or two requests of the drone overlapped: SET and PUBLISH are two
\* commands (ingest.py:28-29).
StoredIsLatest ==
    \A d \in Drones \ mixed :
        (\A r \in Requests : pc[r] = "publish" => Subject(r) # d) /\ stored[d] # NoMessage =>
            /\ channel[d] # <<>>
            /\ stored[d] = channel[d][Len(channel[d])]

\* ingest.py:22-24 "Redis failures are logged and dropped, not surfaced as 5xx":
\* a request whose key was accepted is answered 200, or 422 for its body.
FireAndForget ==
    \A r \in Requests : answer[r] = "served" ~> pc[r] \in {"200", "422"}

\* A message Redis has sent to a stream is shown, unless the stream ends.
EventuallyShown ==
    \A s \in Streams, r \in Requests :
        (\E i \in DOMAIN inbox[s] : inbox[s][i].data = r)
            ~> \/ \E i \in DOMAIN shown[s] : shown[s][i] = r
               \/ pc[s] # "listening"

(***************************************************************************)
(* The broadcast that Telemetry implements, whatever fails and overlaps: a *)
(* reader joins when Redis subscribes it.                                  *)
(***************************************************************************)
Joined == [s \in Streams |-> IF since[s] = NotYet THEN NoDrone ELSE watches[s]]
Place == [s \in Streams |-> IF since[s] = NotYet THEN 0 ELSE since[s] + Len(shown[s])]

Feed == INSTANCE Broadcast WITH
    Channels <- Drones,
    Messages <- Requests,
    Readers <- Streams,
    NoChannel <- NoDrone,
    published <- channel,
    follows <- Joined,
    place <- Place

\* A stream shows each message of its drone that was published since Redis
\* subscribed it, in the order of publication: none twice, none left out in
\* between, none of another drone, none taken back; and no request publishes
\* twice, also where a command failed after Redis ran it (stream.py:20-23,
\* ingest.py:28-34).
FeedSpec == Feed!Spec
=============================================================================
