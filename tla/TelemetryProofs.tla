-------------------------- MODULE TelemetryProofs --------------------------
(***************************************************************************)
(* Proofs about Telemetry for every set of keys, drones, requests and      *)
(* streams.  The inductive invariant says whose message a request may      *)
(* still publish, how far an inbox is behind its channel, and what may be  *)
(* stored while a message is not published.                                *)
(***************************************************************************)
EXTENDS Telemetry, SequenceTheorems, TLAPS

\* A request that was accepted carried a live key.
Accepted(r) ==
    /\ pc[r] \in IngestStates
    /\ pc[r] = "idle" => r \notin late /\ accepted[r] = NoKey
    /\ pc[r] \in {"idle", "auth"} => answer[r] = "none"
    /\ pc[r] \in {"validate", "set", "publish"} => answer[r] = "served"
    /\ answer[r] = "served" => accepted[r] \in Keys
    /\ accepted[r] # NoKey => r \notin late
    /\ r \in late => carries[r] \in Keys /\ state[carries[r]] = "revoked"

AuthInv == (\A r \in Requests : Accepted(r)) /\ Attributed

\* The inbox of a stream is the channel from where the stream is, after the
\* confirmation if h is 1, and as long as Redis knows the stream, all of it.
Behind(s, h) ==
    LET c == channel[watches[s]]
        at == since[s] + Len(shown[s])
    IN  /\ h = 1 => shown[s] = <<>> /\ inbox[s] # <<>> /\ inbox[s][1] = Confirmation
        /\ \A i \in 1..Len(inbox[s]) : i > h => inbox[s][i] = Message(c[at + i - h])
        /\ at + Len(inbox[s]) - h <= Len(c)
        /\ s \in subscribed => at + Len(inbox[s]) - h = Len(c)

Relayed(s) ==
    /\ pc[s] \in StreamStates
    /\ pc[s] = "idle" => since[s] = NotYet
    /\ pc[s] # "idle" => watches[s] \in Drones
    /\ since[s] = NotYet => inbox[s] = <<>> /\ shown[s] = <<>> /\ s \notin subscribed
    /\ since[s] # NotYet => \E h \in {0, 1} : Behind(s, h)
    /\ \A i \in 1..Len(shown[s]) : shown[s][i] = channel[watches[s]][since[s] + i]

\* Until a message is published it alone may be stored.
Fresh(d) ==
    d \notin mixed =>
        /\ \A r, q \in Requests :
              /\ pc[r] = "publish" /\ Subject(r) = d
              /\ pc[q] = "publish" /\ Subject(q) = d
              => r = q
        /\ \A r \in Requests :
              pc[r] = "publish" /\ Subject(r) = d => stored[d] \in {r, NoMessage}
        /\ (\A r \in Requests : pc[r] = "publish" => Subject(r) # d) /\ stored[d] # NoMessage =>
              channel[d] # <<>> /\ stored[d] = channel[d][Len(channel[d])]

IInv ==
    /\ TypeOK
    /\ AuthInv
    /\ \A s \in Streams : Relayed(s)
    /\ \A d \in Drones : Fresh(d)

\* The initial state satisfies the invariant.
THEOREM InitIInv == Init => IInv
<1> SUFFICES ASSUME Init
             PROVE  IInv
  OBVIOUS
<1> USE DEF Init, Cred!Init
<1>1. TypeOK
  BY DEF TypeOK, IngestStates, StreamStates
<1>2. AuthInv
  BY MessageAssumption, ProcessAssumption DEF AuthInv, Accepted, Attributed, IngestStates
<1>3. \A s \in Streams : Relayed(s)
  BY ProcessAssumption DEF Relayed, StreamStates
<1>4. \A d \in Drones : Fresh(d)
  BY DEF Fresh
<1> QED
  BY <1>1, <1>2, <1>3, <1>4 DEF IInv

-----------------------------------------------------------------------------
(* Sequences.                                                              *)

LEMMA AppendFacts ==
    ASSUME NEW S, NEW seq \in Seq(S), NEW e \in S
    PROVE  /\ Append(seq, e) \in Seq(S) /\ Append(seq, e) # <<>>
           /\ Len(seq) \in Nat /\ Len(Append(seq, e)) = Len(seq) + 1
           /\ DOMAIN seq = 1..Len(seq) /\ DOMAIN Append(seq, e) = 1..(Len(seq) + 1)
           /\ Append(seq, e)[Len(seq) + 1] = e
           /\ \A i \in 1..Len(seq) : Append(seq, e)[i] = seq[i]
<1>1. /\ Append(seq, e) \in Seq(S) /\ Len(seq) \in Nat
      /\ Len(Append(seq, e)) = Len(seq) + 1
      /\ Append(seq, e)[Len(seq) + 1] = e
      /\ \A i \in 1..Len(seq) : Append(seq, e)[i] = seq[i]
  OBVIOUS
<1>2. DOMAIN seq = 1..Len(seq) /\ DOMAIN Append(seq, e) = 1..(Len(seq) + 1)
  BY <1>1, LenProperties
<1>3. Append(seq, e) # <<>>
  BY <1>1, EmptySeq
<1> QED
  BY <1>1, <1>2, <1>3

LEMMA TailFacts ==
    ASSUME NEW S, NEW seq \in Seq(S), seq # <<>>
    PROVE  /\ Head(seq) = seq[1] /\ Tail(seq) \in Seq(S)
           /\ Len(seq) \in Nat \ {0} /\ Len(Tail(seq)) = Len(seq) - 1
           /\ \A i \in 1..(Len(seq) - 1) : Tail(seq)[i] = seq[i + 1]
<1>1. Len(seq) \in Nat \ {0}
  BY EmptySeq
<1>2. Head(seq) = seq[1] /\ Tail(seq) \in Seq(S) /\ Len(Tail(seq)) = Len(seq) - 1
      /\ \A i \in 1..(Len(seq) - 1) : Tail(seq)[i] = seq[i + 1]
  OBVIOUS
<1> QED
  BY <1>1, <1>2

-----------------------------------------------------------------------------
(* What a step leaves alone.                                               *)

\* The streams see only what is published and what Redis does for them.
LEMMA StreamsRest ==
    ASSUME IInv, UNCHANGED <<channel, streams>>, \A s \in Streams : pc'[s] = pc[s]
    PROVE  \A s \in Streams : Relayed(s)'
BY DEF IInv, Relayed, Behind, streams

\* A step of a stream does not concern the requests.
LEMMA RequestsRest ==
    ASSUME IInv, UNCHANGED <<cred, owner, carries, redis, late, mixed>>,
           \A r \in Requests : pc'[r] = pc[r]
    PROVE  AuthInv' /\ \A d \in Drones : Fresh(d)'
<1>1. AuthInv'
  BY DEF IInv, AuthInv, Accepted, Attributed, cred, redis
<1>2. ASSUME NEW d \in Drones
      PROVE  Fresh(d)'
  BY DEF IInv, Fresh, Subject, cred, redis
<1> QED
  BY <1>1, <1>2

\* What is stored stays fresh when no request comes to publish or leaves it.
LEMMA FreshRest ==
    ASSUME IInv, UNCHANGED <<owner, redis, mixed>>,
           \A r \in Requests : pc'[r] = "publish" <=> pc[r] = "publish",
           \A r \in Requests : pc[r] = "publish" => accepted'[r] = accepted[r]
    PROVE  \A d \in Drones : Fresh(d)'
<1> SUFFICES ASSUME NEW d \in Drones
             PROVE  Fresh(d)'
  OBVIOUS
<1>1. \A r \in Requests : pc[r] = "publish" => Subject(r)' = Subject(r)
  BY DEF Subject
<1> QED
  BY <1>1 DEF IInv, Fresh, redis

-----------------------------------------------------------------------------
(* Keys, and a request up to its telemetry.                                *)

LEMMA KeysKeep ==
    ASSUME IInv, NEW k \in Keys, IssueKey(k) \/ RevokeKey(k)
    PROVE  IInv'
<1> USE DEF IssueKey, RevokeKey, Cred!Issue, Cred!Revoke
<1>1. TypeOK'
  BY DEF IInv, TypeOK, redis, streams
<1>2. AuthInv'
  BY DEF IInv, TypeOK, AuthInv, Accepted, Attributed, redis
<1>3. \A s \in Streams : Relayed(s)'
  BY StreamsRest DEF redis
<1>4. \A d \in Drones : Fresh(d)'
  BY FreshRest
<1> QED
  BY <1>1, <1>2, <1>3, <1>4 DEF IInv

LEMMA ArriveKeeps ==
    ASSUME IInv, NEW r \in Requests, NEW k \in Keys \cup {NoKey}, Arrive(r, k)
    PROVE  IInv'
<1> USE DEF Arrive, Go
<1>1. TypeOK'
  BY DEF IInv, TypeOK, cred, redis, streams, IngestStates
<1>2. AuthInv'
  BY DEF IInv, TypeOK, AuthInv, Accepted, Attributed, cred, redis, IngestStates
<1>3. \A s \in Streams : Relayed(s)'
  BY StreamsRest, ProcessAssumption DEF IInv, TypeOK, redis
<1>4. \A d \in Drones : Fresh(d)'
  BY FreshRest DEF IInv, TypeOK, cred
<1> QED
  BY <1>1, <1>2, <1>3, <1>4 DEF IInv

LEMMA AuthenticationKeeps ==
    ASSUME IInv, NEW r \in Requests, AcceptKey(r) \/ ReturnDrone(r) \/ RefuseKey(r)
    PROVE  IInv'
<1> USE DEF AcceptKey, ReturnDrone, RefuseKey, Accept, Go, Cred!Accept, Cred!Serve, Cred!Refuse
<1>1. TypeOK'
  <2>1. /\ state' = state
        /\ accepted' \in [Requests -> Keys \cup {NoKey}]
        /\ answer' \in [Requests -> {"none", "served", "refused"}]
    BY DEF IInv, TypeOK
  <2>2. pc' \in [Requests \cup Streams -> IngestStates \cup StreamStates]
    BY DEF IInv, TypeOK, IngestStates
  <2> QED
    BY <2>1, <2>2 DEF IInv, TypeOK, redis, streams
<1>2. \A q \in Requests : Accepted(q)'
  BY KeyAssumption DEF IInv, TypeOK, AuthInv, Accepted, IngestStates
<1>3. Attributed'
  BY DEF IInv, TypeOK, AuthInv, Attributed, redis
<1>4. \A s \in Streams : Relayed(s)'
  BY StreamsRest, ProcessAssumption DEF IInv, TypeOK, redis
<1>5. \A d \in Drones : Fresh(d)'
  BY FreshRest DEF IInv, TypeOK
<1> QED
  BY <1>1, <1>2, <1>3, <1>4, <1>5 DEF IInv, AuthInv

LEMMA ValidateKeeps ==
    ASSUME IInv, NEW r \in Requests, Validate(r)
    PROVE  IInv'
<1> USE DEF Validate, Go
<1>1. TypeOK'
  BY DEF IInv, TypeOK, cred, redis, streams, IngestStates
<1>2. AuthInv'
  BY DEF IInv, TypeOK, AuthInv, Accepted, Attributed, cred, redis, IngestStates
<1>3. \A s \in Streams : Relayed(s)'
  BY StreamsRest, ProcessAssumption DEF IInv, TypeOK, redis
<1>4. \A d \in Drones : Fresh(d)'
  BY FreshRest DEF IInv, TypeOK, cred
<1> QED
  BY <1>1, <1>2, <1>3, <1>4 DEF IInv

-----------------------------------------------------------------------------
(* SET and its expiry.                                                     *)

LEMMA SubjectIsDrone ==
    ASSUME TypeOK, NEW r \in Requests, Accepted(r), pc[r] \in {"set", "publish"}
    PROVE  /\ Subject(r) \in Drones
           /\ answer[r] = "served" /\ owner[accepted[r]] = Subject(r) /\ r \notin late
BY KeyAssumption DEF TypeOK, Accepted, Subject

LEMMA SetKeeps ==
    ASSUME IInv, NEW r \in Requests, SetValue(r) \/ SetFails(r)
    PROVE  IInv'
<1>0. /\ pc[r] = "set" /\ pc' = [pc EXCEPT ![r] = IF SetValue(r) THEN "publish" ELSE "200"]
      /\ stored' \in {stored, [stored EXCEPT ![Subject(r)] = r]}
      /\ UNCHANGED <<cred, owner, carries, channel, streams, late>>
      /\ mixed' \in {mixed, mixed \cup {Subject(r)}}
  <2>1. CASE SetValue(r)
    BY <2>1 DEF SetValue, Go, StoredBySet
  <2>2. CASE SetFails(r) /\ ~SetValue(r)
    BY <2>2 DEF SetFails, Dropped, Go, StoredBySet
  <2> QED
    BY <2>1, <2>2
<1>1. /\ Subject(r) \in Drones
      /\ answer[r] = "served" /\ owner[accepted[r]] = Subject(r) /\ r \notin late
  BY <1>0, SubjectIsDrone DEF IInv, AuthInv
<1>2. TypeOK'
  BY <1>0, <1>1 DEF IInv, TypeOK, cred, streams, IngestStates
<1>3. \A q \in Requests : Accepted(q)'
  BY <1>0, <1>1 DEF IInv, TypeOK, AuthInv, Accepted, cred, IngestStates
<1>4. Attributed'
  BY <1>0, <1>1, MessageAssumption DEF IInv, TypeOK, AuthInv, Attributed, cred
<1>5. \A s \in Streams : Relayed(s)'
  BY <1>0, StreamsRest, ProcessAssumption DEF IInv, TypeOK
<1>6. ASSUME NEW d \in Drones
      PROVE  Fresh(d)'
  <2>1. \A q \in Requests : Subject(q)' = Subject(q)
    BY <1>0 DEF Subject, cred
  <2>2. CASE d # Subject(r)
    <3>1. stored'[d] = stored[d] /\ channel' = channel /\ (d \in mixed <=> d \in mixed')
      BY <1>0, <1>1, <2>2 DEF IInv, TypeOK
    <3>2. \A q \in Requests : Subject(q) = d => pc'[q] = pc[q]
      BY <1>0, <2>2 DEF IInv, TypeOK
    <3> QED
      BY <2>1, <3>1, <3>2 DEF IInv, Fresh
  <2>3. CASE d = Subject(r) /\ SetValue(r) /\ ~Overlaps(r)
    <3>1. stored'[d] = r /\ pc'[r] = "publish"
      BY <1>0, <1>1, <2>3 DEF SetValue, StoredBySet, IInv, TypeOK
    <3>2. \A q \in Requests : pc'[q] = "publish" /\ Subject(q) = d => q = r
      BY <1>0, <2>3 DEF Overlaps, IInv, TypeOK
    <3> QED
      BY <1>0, <2>1, <2>3, <3>1, <3>2 DEF Fresh
  <2>4. CASE d = Subject(r) /\ ~(SetValue(r) /\ ~Overlaps(r))
    <3>1. d \in mixed'
      BY <2>4 DEF SetValue, SetFails
    <3> QED
      BY <3>1 DEF Fresh
  <2> QED
    BY <2>2, <2>3, <2>4
<1> QED
  BY <1>2, <1>3, <1>4, <1>5, <1>6 DEF IInv, AuthInv

LEMMA ExpireKeeps ==
    ASSUME IInv, NEW d \in Drones, Expire(d)
    PROVE  IInv'
<1> USE DEF Expire
<1>1. TypeOK'
  BY DEF IInv, TypeOK, cred, streams
<1>2. AuthInv'
  BY MessageAssumption DEF IInv, TypeOK, AuthInv, Accepted, Attributed, cred
<1>3. \A s \in Streams : Relayed(s)'
  BY StreamsRest
<1>4. \A x \in Drones : Fresh(x)'
  BY DEF IInv, TypeOK, Fresh, Subject, cred
<1> QED
  BY <1>1, <1>2, <1>3, <1>4 DEF IInv

-----------------------------------------------------------------------------
(* PUBLISH: the channel and the inboxes of its subscribers grow together.  *)

\* A stream of the drone that Redis knows gets the message, the others not.
LEMMA PublishedKeeps ==
    ASSUME IInv, NEW r \in Requests, Subject(r) \in Drones, Published(r),
           UNCHANGED <<watches, subscribed, shown, since>>, \A s \in Streams : pc'[s] = pc[s]
    PROVE  \A s \in Streams : Relayed(s)'
<1> SUFFICES ASSUME NEW s \in Streams
             PROVE  Relayed(s)'
  OBVIOUS
<1>0. TypeOK /\ Relayed(s)
  BY DEF IInv
<1> DEFINE c == channel[watches[s]]
           at == since[s] + Len(shown[s])
<1>1. channel' = [channel EXCEPT ![Subject(r)] = Append(@, r)]
      /\ inbox'[s] = IF s \in subscribed /\ watches[s] = Subject(r)
                     THEN Append(inbox[s], Message(r)) ELSE inbox[s]
  BY DEF Published
<1>2. CASE since[s] = NotYet
  BY <1>0, <1>1, <1>2 DEF Relayed
<1>3. CASE since[s] # NotYet
  <2>1. /\ since[s] \in Nat /\ inbox[s] \in Seq(Pushes) /\ shown[s] \in Seq(Requests)
        /\ watches[s] \in Drones /\ c \in Seq(Requests)
    BY <1>0, <1>3 DEF TypeOK, Relayed
  <2>2. PICK h \in {0, 1} : Behind(s, h)
    BY <1>0, <1>3 DEF Relayed
  <2>3. at + Len(inbox[s]) - h <= Len(c)
    BY <2>2 DEF Behind
  <2>0. at \in Nat /\ Len(inbox[s]) \in Nat /\ Len(c) \in Nat
    <3>1. Len(shown[s]) \in Nat /\ Len(inbox[s]) \in Nat /\ Len(c) \in Nat
      BY <2>1, LenProperties
    <3> HIDE DEF c
    <3> QED
      BY <2>1, <3>1
  <2>4. Len(shown[s]) + since[s] <= Len(c)
    <3>1. Len(inbox[s]) - h >= 0
      BY <2>1, <2>2 DEF Behind
    <3> QED
      BY <2>1, <2>3, <3>1
  <2>5. CASE watches[s] # Subject(r)
    <3>1. channel'[watches[s]] = c /\ inbox'[s] = inbox[s]
      BY <1>0, <1>1, <2>1, <2>5 DEF TypeOK
    <3>2. Behind(s, h)'
      BY <2>2, <3>1 DEF Behind
    <3> QED
      BY <1>0, <1>3, <3>1, <3>2 DEF Relayed
  <2>6. CASE watches[s] = Subject(r)
    <3>1. /\ channel'[watches[s]] = Append(c, r)
          /\ Len(Append(c, r)) = Len(c) + 1
          /\ Append(c, r)[Len(c) + 1] = r
          /\ \A i \in 1..Len(c) : Append(c, r)[i] = c[i]
      BY <1>0, <1>1, <2>1, <2>6 DEF TypeOK
    <3>2. \A i \in 1..Len(shown[s]) : shown[s][i] = channel'[watches[s]][since[s] + i]
      <4> TAKE i \in 1..Len(shown[s])
      <4>1. since[s] + i \in 1..Len(c)
        BY <2>1, <2>4
      <4> QED
        BY <1>0, <3>1, <4>1 DEF Relayed
    <3>3. \A i \in 1..Len(inbox[s]) : i > h =>
             at + i - h \in 1..Len(c) /\ inbox[s][i] = Message(c[at + i - h])
      <4> TAKE i \in 1..Len(inbox[s])
      <4> HAVE i > h
      <4>1. inbox[s][i] = Message(c[at + i - h])
        BY <2>2 DEF Behind
      <4>2. at + i - h \in 1..Len(c)
        <5> HIDE DEF at, c
        <5> QED
          BY <2>0, <2>3
      <4> QED
        BY <4>1, <4>2
    <3>4. Behind(s, h)'
      <4>1. CASE s \in subscribed
        <5>1. /\ inbox'[s] = Append(inbox[s], Message(r))
              /\ Len(inbox'[s]) = Len(inbox[s]) + 1
              /\ inbox'[s][Len(inbox[s]) + 1] = Message(r)
              /\ \A i \in 1..Len(inbox[s]) : inbox'[s][i] = inbox[s][i]
          <6>1. Message(r) \in Pushes
            BY DEF Pushes
          <6> QED
            BY <1>1, <2>1, <2>6, <4>1, <6>1
        <5>2. at + Len(inbox[s]) - h = Len(c)
          BY <2>2, <4>1 DEF Behind
        <5>3. h = 1 => shown[s] = <<>> /\ inbox'[s] # <<>> /\ inbox'[s][1] = Confirmation
          <6>1. h = 1 => shown[s] = <<>> /\ inbox[s] # <<>> /\ inbox[s][1] = Confirmation
            BY <2>2 DEF Behind
          <6>2. inbox[s] # <<>> => 1 \in 1..Len(inbox[s])
            BY <2>1
          <6>3. inbox'[s] # <<>>
            BY <2>0, <5>1, EmptySeq
          <6> QED
            BY <5>1, <6>1, <6>2, <6>3
        <5>4. \A i \in 1..Len(inbox'[s]) : i > h =>
                 inbox'[s][i] = Message(channel'[watches[s]][at + i - h])
          <6> SUFFICES ASSUME NEW i \in 1..Len(inbox'[s]), i > h
                       PROVE  inbox'[s][i] = Message(channel'[watches[s]][at + i - h])
            OBVIOUS
          <6>1. CASE i \in 1..Len(inbox[s])
            BY <3>1, <3>3, <5>1, <6>1
          <6>2. CASE i = Len(inbox[s]) + 1
            <7>1. at + i - h = Len(c) + 1
              <8> HIDE DEF at, c
              <8> QED
                BY <2>0, <5>2, <6>2
            <7> QED
              BY <3>1, <5>1, <6>2, <7>1
          <6> QED
            BY <2>1, <5>1, <6>1, <6>2
        <5>5. at + Len(inbox'[s]) - h = Len(channel'[watches[s]])
          <6> HIDE DEF at, c
          <6> QED
            BY <2>0, <3>1, <5>1, <5>2
        <5>6. at + Len(inbox'[s]) - h <= Len(channel'[watches[s]])
          <6>1. Len(inbox'[s]) \in Nat /\ Len(channel'[watches[s]]) \in Nat
            BY <2>0, <3>1, <5>1
          <6> HIDE DEF at, c
          <6> QED
            BY <2>0, <5>5, <6>1
        <5> QED
          BY <5>3, <5>4, <5>5, <5>6 DEF Behind
      <4>2. CASE s \notin subscribed
        <5>1. inbox'[s] = inbox[s]
          BY <1>1, <4>2
        <5>2. at + Len(inbox[s]) - h <= Len(channel'[watches[s]])
          <6> HIDE DEF at, c
          <6> QED
            BY <2>0, <2>3, <3>1
        <5> QED
          BY <2>2, <3>1, <3>3, <4>2, <5>1, <5>2 DEF Behind
      <4> QED
        BY <4>1, <4>2
    <3> QED
      BY <1>0, <1>3, <3>2, <3>4 DEF Relayed
  <2> QED
    BY <2>5, <2>6
<1> QED
  BY <1>2, <1>3

LEMMA PublishKeeps ==
    ASSUME IInv, NEW r \in Requests, Publish(r) \/ PublishFails(r)
    PROVE  IInv'
<1>0. /\ pc[r] = "publish" /\ pc' = [pc EXCEPT ![r] = "200"]
      /\ Published(r) \/ UNCHANGED <<channel, inbox>>
      /\ UNCHANGED <<cred, owner, carries, stored, watches, subscribed, shown, since, late>>
      /\ mixed' \in {mixed, mixed \cup {Subject(r)}}
      /\ ~Published(r) => Subject(r) \in mixed'
  BY DEF Publish, PublishFails, Dropped, Go
<1>1. /\ Subject(r) \in Drones
      /\ answer[r] = "served" /\ owner[accepted[r]] = Subject(r) /\ r \notin late
  BY <1>0, SubjectIsDrone DEF IInv, AuthInv
<1> DEFINE d == Subject(r)
<1>2. channel[d] \in Seq(Requests)
  BY <1>1 DEF IInv, TypeOK
<1>3. channel' = channel \/ channel' = [channel EXCEPT ![d] = Append(channel[d], r)]
  BY <1>0 DEF Published
<1>4. /\ Append(channel[d], r) \in Seq(Requests)
      /\ Append(channel[d], r) # <<>>
      /\ Append(channel[d], r)[Len(Append(channel[d], r))] = r
      /\ \A i \in DOMAIN Append(channel[d], r) :
            \/ Append(channel[d], r)[i] = r
            \/ i \in DOMAIN channel[d] /\ Append(channel[d], r)[i] = channel[d][i]
  <2> HIDE DEF d
  <2>1. \A i \in 1..(Len(channel[d]) + 1) : i \in 1..Len(channel[d]) \/ i = Len(channel[d]) + 1
    BY <1>2, AppendFacts
  <2> QED
    BY <1>2, <2>1, AppendFacts
<1>5. TypeOK'
  <2>1. channel' \in [Drones -> Seq(Requests)]
    <3> HIDE DEF d
    <3> QED
      BY <1>3, <1>4 DEF IInv, TypeOK
  <2>2. inbox' \in [Streams -> Seq(Pushes)]
    <3>1. Message(r) \in Pushes
      BY DEF Pushes
    <3>2. \A s \in Streams : inbox[s] \in Seq(Pushes) /\ Append(inbox[s], Message(r)) \in Seq(Pushes)
      BY <3>1 DEF IInv, TypeOK
    <3>3. CASE UNCHANGED inbox
      BY <3>3 DEF IInv, TypeOK
    <3>4. CASE Published(r)
      BY <3>2, <3>4 DEF Published
    <3> QED
      BY <1>0, <3>3, <3>4
  <2>3. pc' \in [Requests \cup Streams -> IngestStates \cup StreamStates]
    BY <1>0 DEF IInv, TypeOK, IngestStates
  <2>4. mixed' \subseteq Drones
    BY <1>0, <1>1 DEF IInv, TypeOK
  <2> QED
    BY <1>0, <2>1, <2>2, <2>3, <2>4 DEF IInv, TypeOK, cred
<1>6. \A q \in Requests : Accepted(q)'
  BY <1>0, <1>1 DEF IInv, TypeOK, AuthInv, Accepted, cred, IngestStates
<1>7. Attributed'
  <2> SUFFICES ASSUME NEW x \in Drones, NEW q \in Requests,
                      stored[x] = q \/ \E i \in DOMAIN channel'[x] : channel'[x][i] = q
               PROVE  answer[q] = "served" /\ owner[accepted[q]] = x /\ q \notin late
    BY <1>0 DEF Attributed, cred
  <2>1. CASE stored[x] = q \/ \E i \in DOMAIN channel[x] : channel[x][i] = q
    BY <2>1 DEF IInv, AuthInv, Attributed
  <2>2. CASE x = d /\ q = r
    BY <1>1, <2>2
  <2>3. CASE \E i \in DOMAIN channel'[x] : channel'[x][i] = q
    <3>1. CASE channel'[x] = channel[x]
      BY <2>1, <2>3, <3>1
    <3>2. CASE channel'[x] # channel[x]
      <4>1. x = d /\ channel'[x] = Append(channel[d], r)
        BY <1>1, <1>3, <3>2 DEF IInv, TypeOK
      <4> HIDE DEF d
      <4> QED
        BY <1>4, <2>1, <2>2, <2>3, <4>1
    <3> QED
      BY <3>1, <3>2
  <2> QED
    BY <2>1, <2>3
<1>8. \A s \in Streams : Relayed(s)'
  <2>1. \A s \in Streams : pc'[s] = pc[s]
    BY <1>0, ProcessAssumption DEF IInv, TypeOK
  <2>2. CASE Published(r)
    BY <1>0, <1>1, <2>1, <2>2, PublishedKeeps
  <2>3. CASE UNCHANGED <<channel, inbox>>
    BY <1>0, <2>1, <2>3, StreamsRest DEF streams
  <2> QED
    BY <1>0, <2>2, <2>3
<1>9. ASSUME NEW x \in Drones
      PROVE  Fresh(x)'
  <2>1. \A q \in Requests : Subject(q)' = Subject(q)
    BY <1>0 DEF Subject, cred
  <2>2. CASE x # d
    <3>1. stored'[x] = stored[x] /\ channel'[x] = channel[x] /\ (x \in mixed <=> x \in mixed')
      BY <1>0, <1>3, <2>2 DEF IInv, TypeOK
    <3>2. \A q \in Requests : Subject(q) = x => pc'[q] = pc[q]
      BY <1>0, <2>2 DEF IInv, TypeOK
    <3> QED
      BY <2>1, <3>1, <3>2 DEF IInv, Fresh
  <2>3. CASE x = d /\ x \notin mixed'
    <3>1. Published(r) /\ x \notin mixed
      BY <1>0, <2>3
    <3>2. channel'[x] = Append(channel[d], r)
      BY <1>1, <2>3, <3>1 DEF Published, IInv, TypeOK
    <3>3. channel'[x] # <<>> /\ channel'[x][Len(channel'[x])] = r
      <4> HIDE DEF d
      <4> QED
        BY <1>4, <3>2
    <3>4. stored'[x] \in {r, NoMessage}
      BY <1>0, <2>3, <3>1 DEF IInv, Fresh
    <3>5. \A q \in Requests : pc'[q] = "publish" => pc[q] = "publish" /\ q # r
      BY <1>0 DEF IInv, TypeOK
    <3>6. \A q \in Requests : pc'[q] = "publish" => Subject(q) # x
      BY <1>0, <2>3, <3>1, <3>5 DEF IInv, Fresh
    <3> HIDE DEF d
    <3> QED
      BY <2>1, <3>3, <3>4, <3>6 DEF Fresh
  <2>4. CASE x \in mixed'
    BY <2>4 DEF Fresh
  <2> QED
    BY <2>2, <2>3, <2>4
<1> QED
  BY <1>5, <1>6, <1>7, <1>8, <1>9 DEF IInv, AuthInv

-----------------------------------------------------------------------------
(* The streams.                                                            *)

LEMMA ConnectKeeps ==
    ASSUME IInv, NEW s \in Streams, NEW d \in Drones, Connect(s, d)
    PROVE  IInv'
<1> USE DEF Connect, Go
<1>1. TypeOK'
  BY DEF IInv, TypeOK, cred, redis, StreamStates
<1>2. AuthInv' /\ \A x \in Drones : Fresh(x)'
  BY RequestsRest, ProcessAssumption DEF IInv, TypeOK
<1>3. ASSUME NEW x \in Streams
      PROVE  Relayed(x)'
  <2>1. CASE x = s
    <3>1. since[s] = NotYet /\ inbox[s] = <<>> /\ shown[s] = <<>> /\ s \notin subscribed
      BY DEF IInv, Relayed
    <3>2. pc'[s] \in {"listening", "failed"} /\ watches'[s] = d
      BY DEF IInv, TypeOK
    <3> QED
      BY <2>1, <3>1, <3>2 DEF Relayed, StreamStates
  <2>2. CASE x # s
    <3>1. pc'[x] = pc[x] /\ watches'[x] = watches[x]
      BY <2>2 DEF IInv, TypeOK
    <3> QED
      BY <3>1 DEF IInv, Relayed, Behind, redis
  <2> QED
    BY <2>1, <2>2
<1> QED
  BY <1>1, <1>2, <1>3 DEF IInv

LEMMA SubscribedKeeps ==
    ASSUME IInv, NEW s \in Streams, Subscribed(s)
    PROVE  IInv'
<1> USE DEF Subscribed
<1>0. /\ inbox[s] = <<>> /\ shown[s] = <<>> /\ watches[s] \in Drones
      /\ channel[watches[s]] \in Seq(Requests) /\ Len(channel[watches[s]]) \in Nat
  <2>1. watches[s] \in Drones /\ inbox[s] = <<>> /\ shown[s] = <<>>
    BY DEF IInv, Relayed
  <2> QED
    BY <2>1, LenProperties DEF IInv, TypeOK
<1>1. inbox'[s] = <<Confirmation>> /\ since'[s] = Len(channel[watches[s]])
  BY <1>0 DEF IInv, TypeOK
<1>2. TypeOK'
  <2>1. Confirmation \in Pushes
    BY DEF Pushes
  <2>2. inbox' \in [Streams -> Seq(Pushes)]
    BY <2>1 DEF IInv, TypeOK
  <2>3. since' \in [Streams -> Nat \cup {NotYet}]
    BY <1>0 DEF IInv, TypeOK
  <2> QED
    BY <2>2, <2>3 DEF IInv, TypeOK, cred, redis
<1>3. AuthInv' /\ \A x \in Drones : Fresh(x)'
  BY RequestsRest
<1>4. ASSUME NEW x \in Streams
      PROVE  Relayed(x)'
  <2>1. CASE x = s
    <3>1. Behind(s, 1)'
      <4>1. Len(shown[s]) = 0 /\ Len(inbox'[s]) = 1 /\ inbox'[s] # <<>> /\ inbox'[s][1] = Confirmation
        <5>1. /\ Len(<<Confirmation>>) = 1 /\ <<Confirmation>>[1] = Confirmation
              /\ <<Confirmation>> # <<>>
          OBVIOUS
        <5> QED
          BY <1>0, <1>1, <5>1
      <4> QED
        BY <1>0, <1>1, <4>1 DEF Behind, redis
    <3>2. since'[s] # NotYet
      BY <1>0, <1>1 DEF NotYet
    <3>3. Len(shown[s]) = 0
      BY <1>0
    <3> QED
      BY <1>0, <2>1, <3>1, <3>2, <3>3 DEF IInv, Relayed
  <2>2. CASE x # s
    <3>1. inbox'[x] = inbox[x] /\ since'[x] = since[x] /\ (x \in subscribed' <=> x \in subscribed)
      BY <2>2 DEF IInv, TypeOK
    <3> QED
      BY <3>1 DEF IInv, Relayed, Behind, redis
  <2> QED
    BY <2>1, <2>2
<1> QED
  BY <1>2, <1>3, <1>4 DEF IInv

\* Behind, of the values it is about.
Lags(inb, sh, c, from, all, h) ==
    /\ h = 1 => sh = <<>> /\ inb # <<>> /\ inb[1] = Confirmation
    /\ \A i \in 1..Len(inb) : i > h => inb[i] = Message(c[from + Len(sh) + i - h])
    /\ from + Len(sh) + Len(inb) - h <= Len(c)
    /\ all => from + Len(sh) + Len(inb) - h = Len(c)

Follows(sh, c, from) == \A i \in 1..Len(sh) : sh[i] = c[from + i]

LEMMA RelayConfirmation ==
    ASSUME NEW inb \in Seq(Pushes), NEW sh \in Seq(Requests), NEW c \in Seq(Requests),
           NEW from \in Nat, NEW all \in BOOLEAN, inb # <<>>, Lags(inb, sh, c, from, all, 1)
    PROVE  Head(inb) = Confirmation /\ Lags(Tail(inb), sh, c, from, all, 0)
<1>1. /\ Head(inb) = inb[1] /\ Len(inb) \in Nat \ {0} /\ Len(Tail(inb)) = Len(inb) - 1
      /\ \A i \in 1..(Len(inb) - 1) : Tail(inb)[i] = inb[i + 1]
  BY TailFacts
<1>2. Len(sh) \in Nat /\ Len(c) \in Nat
  BY LenProperties
<1>3. ASSUME NEW i \in 1..Len(Tail(inb))
      PROVE  Tail(inb)[i] = Message(c[from + Len(sh) + i - 0])
  <2>1. i \in 1..(Len(inb) - 1) /\ i + 1 \in 1..Len(inb) /\ i + 1 > 1
        /\ from + Len(sh) + (i + 1) - 1 = from + Len(sh) + i - 0
    BY <1>1, <1>2
  <2>2. inb[i + 1] = Message(c[from + Len(sh) + (i + 1) - 1])
    BY <2>1 DEF Lags
  <2> QED
    BY <1>1, <2>1, <2>2
<1>4. /\ from + Len(sh) + Len(Tail(inb)) - 0 <= Len(c)
      /\ all => from + Len(sh) + Len(Tail(inb)) - 0 = Len(c)
  BY <1>1, <1>2 DEF Lags
<1> QED
  BY <1>1, <1>3, <1>4 DEF Lags

LEMMA RelayMessage ==
    ASSUME NEW inb \in Seq(Pushes), NEW sh \in Seq(Requests), NEW c \in Seq(Requests),
           NEW from \in Nat, NEW all \in BOOLEAN, inb # <<>>, Lags(inb, sh, c, from, all, 0),
           Follows(sh, c, from)
    PROVE  \E r \in Requests : /\ Head(inb) = Message(r)
                               /\ Lags(Tail(inb), Append(sh, r), c, from, all, 0)
                               /\ Follows(Append(sh, r), c, from)
<1>1. /\ Head(inb) = inb[1] /\ Len(inb) \in Nat \ {0} /\ Len(Tail(inb)) = Len(inb) - 1
      /\ \A i \in 1..(Len(inb) - 1) : Tail(inb)[i] = inb[i + 1]
  BY TailFacts
<1>2. Len(sh) \in Nat /\ Len(c) \in Nat
  BY LenProperties
<1>3. from + Len(sh) + Len(inb) - 0 <= Len(c)
  BY DEF Lags
<1>4. from + Len(sh) + 1 \in 1..Len(c) /\ from + Len(sh) + 1 = from + Len(sh) + 1 - 0 /\ 1 \in 1..Len(inb)
  BY <1>1, <1>2, <1>3
<1> DEFINE r == c[from + Len(sh) + 1]
<1>5. r \in Requests
  BY <1>4, ElementOfSeq
<1>6. Head(inb) = Message(r)
  BY <1>1, <1>4 DEF Lags
<1> HIDE DEF r
<1>7. /\ Len(Append(sh, r)) = Len(sh) + 1
      /\ Append(sh, r)[Len(sh) + 1] = r
      /\ \A i \in 1..Len(sh) : Append(sh, r)[i] = sh[i]
  BY <1>5, AppendFacts
<1>8. Follows(Append(sh, r), c, from)
  <2>1. ASSUME NEW i \in 1..(Len(sh) + 1)
        PROVE  Append(sh, r)[i] = c[from + i]
    <3>1. CASE i \in 1..Len(sh)
      BY <1>7, <3>1 DEF Follows
    <3>2. CASE i = Len(sh) + 1
      <4>1. from + i = from + Len(sh) + 1
        BY <1>2, <3>2
      <4> QED
        BY <1>7, <3>2, <4>1 DEF r
    <3> QED
      BY <1>2, <3>1, <3>2
  <2> QED
    BY <1>7, <2>1 DEF Follows
<1>9. ASSUME NEW i \in 1..Len(Tail(inb))
      PROVE  Tail(inb)[i] = Message(c[from + Len(Append(sh, r)) + i - 0])
  <2>1. i \in 1..(Len(inb) - 1) /\ i + 1 \in 1..Len(inb) /\ i + 1 > 0
        /\ from + Len(sh) + (i + 1) - 0 = from + Len(Append(sh, r)) + i - 0
    BY <1>1, <1>2, <1>7
  <2>2. inb[i + 1] = Message(c[from + Len(sh) + (i + 1) - 0])
    BY <2>1 DEF Lags
  <2> QED
    BY <1>1, <2>1, <2>2
<1>10. /\ from + Len(Append(sh, r)) + Len(Tail(inb)) - 0 <= Len(c)
       /\ all => from + Len(Append(sh, r)) + Len(Tail(inb)) - 0 = Len(c)
  BY <1>1, <1>2, <1>7 DEF Lags
<1>11. Lags(Tail(inb), Append(sh, r), c, from, all, 0)
  BY <1>9, <1>10 DEF Lags
<1> QED
  BY <1>5, <1>6, <1>8, <1>11

LEMMA RelayKeeps ==
    ASSUME IInv, NEW s \in Streams, Relay(s)
    PROVE  IInv'
<1> DEFINE c == channel[watches[s]]
           all == s \in subscribed
<1>0. /\ since[s] \in Nat /\ inbox[s] \in Seq(Pushes) /\ inbox[s] # <<>>
      /\ shown[s] \in Seq(Requests) /\ watches[s] \in Drones /\ c \in Seq(Requests)
  <2>1. since[s] # NotYet /\ watches[s] \in Drones /\ inbox[s] # <<>>
    BY DEF IInv, Relayed, Relay
  <2> QED
    BY <2>1 DEF IInv, TypeOK
<1>1. PICK front \in {0, 1} : Lags(inbox[s], shown[s], c, since[s], all, front)
  BY <1>0 DEF IInv, Relayed, Behind, Lags, Relay
<1>2. Follows(shown[s], c, since[s])
  BY DEF IInv, Relayed, Follows
<1>3. /\ inbox' = [inbox EXCEPT ![s] = Tail(inbox[s])]
      /\ shown' = [shown EXCEPT ![s] = Sent(s)]
      /\ UNCHANGED <<cred, owner, carries, pc, redis, watches, subscribed, since, late, mixed>>
  BY DEF Relay
<1>4. /\ Sent(s) \in Seq(Requests)
      /\ Lags(Tail(inbox[s]), Sent(s), c, since[s], all, 0)
      /\ Follows(Sent(s), c, since[s])
  <2> HIDE DEF c, all
  <2>0. all \in BOOLEAN
    BY DEF all
  <2>1. CASE front = 1
    <3>1. Head(inbox[s]) = Confirmation /\ Lags(Tail(inbox[s]), shown[s], c, since[s], all, 0)
      BY <1>0, <1>1, <2>0, <2>1, RelayConfirmation
    <3>2. Sent(s) = shown[s]
      BY <3>1 DEF Sent, Confirmation
    <3> QED
      BY <1>0, <1>2, <3>1, <3>2
  <2>2. CASE front = 0
    <3>1. PICK r \in Requests : /\ Head(inbox[s]) = Message(r)
                                /\ Lags(Tail(inbox[s]), Append(shown[s], r), c, since[s], all, 0)
                                /\ Follows(Append(shown[s], r), c, since[s])
      BY <1>0, <1>1, <1>2, <2>0, <2>2, RelayMessage
    <3>2. Sent(s) = Append(shown[s], r)
      BY <3>1 DEF Sent, Message
    <3> QED
      BY <1>0, <3>1, <3>2, AppendFacts
  <2> QED
    BY <2>1, <2>2
<1>5. inbox'[s] = Tail(inbox[s]) /\ shown'[s] = Sent(s) /\ Tail(inbox[s]) \in Seq(Pushes)
  BY <1>0, <1>3, TailFacts DEF IInv, TypeOK
<1>6. TypeOK'
  BY <1>3, <1>4, <1>5 DEF IInv, TypeOK, cred, redis
<1>7. AuthInv' /\ \A x \in Drones : Fresh(x)'
  BY <1>3, RequestsRest
<1>8. Relayed(s)'
  <2>1. c' = c /\ since'[s] = since[s] /\ (s \in subscribed' <=> s \in subscribed)
    BY <1>3 DEF redis
  <2>2. (\E h \in {0, 1} : Behind(s, h))'
    <3>1. Behind(s, 0)'
      BY <1>4, <1>5, <2>1 DEF Lags, Behind
    <3> QED
      BY <3>1
  <2>3. since[s] # NotYet
    BY <1>0 DEF NotYet
  <2>4. /\ pc'[s] \in StreamStates /\ pc'[s] # "idle" /\ watches'[s] \in Drones
        /\ since'[s] # NotYet
    BY <1>0, <1>3, <2>3 DEF IInv, Relayed, Relay
  <2>5. \A i \in 1..Len(shown'[s]) : shown'[s][i] = channel'[watches'[s]][since'[s] + i]
    BY <1>4, <1>5, <2>1 DEF Follows
  <2> HIDE DEF c, all
  <2> QED
    BY <2>2, <2>4, <2>5 DEF Relayed
<1>9. ASSUME NEW x \in Streams \ {s}
      PROVE  Relayed(x)'
  <2>1. inbox'[x] = inbox[x] /\ shown'[x] = shown[x]
    BY <1>3 DEF IInv, TypeOK
  <2> QED
    BY <1>3, <2>1 DEF IInv, Relayed, Behind, redis
<1>10. \A x \in Streams : Relayed(x)'
  BY <1>8, <1>9
<1> QED
  BY <1>6, <1>7, <1>10 DEF IInv

\* A stream that ends shows nothing any more, and its inbox may be dropped.
LEMMA EndKeeps ==
    ASSUME IInv, NEW s \in Streams, Leave(s) \/ Unsubscribe(s) \/ Close(s)
    PROVE  IInv'
<1>0. /\ pc[s] \in {"listening", "unsubscribe", "close"}
      /\ \E place \in {"unsubscribe", "close", "failed", "done"} : pc' = [pc EXCEPT ![s] = place]
      /\ subscribed' \in {subscribed, subscribed \ {s}}
      /\ inbox' = inbox \/ (subscribed' = subscribed \ {s} /\ inbox' = [inbox EXCEPT ![s] = <<>>])
      /\ UNCHANGED <<cred, owner, carries, redis, watches, shown, since, late, mixed>>
  BY DEF Leave, Unsubscribe, Close, Go, streams
<1>1. TypeOK'
  <2>1. inbox' \in [Streams -> Seq(Pushes)]
    <3>1. <<>> \in Seq(Pushes)
      BY EmptySeq
    <3>2. inbox \in [Streams -> Seq(Pushes)]
      BY DEF IInv, TypeOK
    <3> QED
      BY <1>0, <3>1, <3>2
  <2>2. pc' \in [Requests \cup Streams -> IngestStates \cup StreamStates]
    BY <1>0 DEF IInv, TypeOK, StreamStates
  <2> QED
    BY <1>0, <2>1, <2>2 DEF IInv, TypeOK, cred, redis
<1>2. AuthInv' /\ \A x \in Drones : Fresh(x)'
  <2>1. \A r \in Requests : pc'[r] = pc[r]
    BY <1>0, ProcessAssumption DEF IInv, TypeOK
  <2> QED
    BY <1>0, <2>1, RequestsRest
<1>3. ASSUME NEW x \in Streams
      PROVE  Relayed(x)'
  <2>0. /\ pc'[x] \in StreamStates /\ (pc'[x] = "idle" <=> pc[x] = "idle")
        /\ x \in subscribed' => x \in subscribed
    BY <1>0 DEF IInv, TypeOK, Relayed, StreamStates
  <2>1. CASE inbox'[x] = inbox[x]
    BY <1>0, <2>0, <2>1 DEF IInv, Relayed, Behind, redis
  <2>2. CASE inbox'[x] # inbox[x]
    <3>1. x = s /\ inbox'[s] = <<>> /\ s \notin subscribed'
      BY <1>0, <2>2 DEF IInv, TypeOK
    <3>2. ASSUME since[s] # NotYet
          PROVE  Behind(s, 0)'
      <4>1. PICK h \in {0, 1} : Behind(s, h)
        BY <3>2 DEF IInv, Relayed
      <4>2. watches[s] \in Drones
        BY <1>0 DEF IInv, Relayed
      <4>3. /\ since[s] \in Nat /\ Len(shown[s]) \in Nat /\ Len(inbox[s]) \in Nat
            /\ Len(channel[watches[s]]) \in Nat
        BY <3>2, <4>2, LenProperties DEF IInv, TypeOK
      <4>4. Len(inbox[s]) - h >= 0
        <5>1. h = 1 => Len(inbox[s]) # 0
          BY <4>1, EmptySeq DEF Behind, IInv, TypeOK
        <5> QED
          BY <4>3, <5>1
      <4>5. since[s] + Len(shown[s]) + Len(inbox[s]) - h <= Len(channel[watches[s]])
        BY <4>1 DEF Behind
      <4>6. since[s] + Len(shown[s]) + 0 - 0 <= Len(channel[watches[s]])
        BY <4>3, <4>4, <4>5
      <4>7. Len(inbox'[s]) = 0
        BY <3>1
      <4> QED
        BY <1>0, <3>1, <4>6, <4>7 DEF Behind, redis
    <3> QED
      BY <1>0, <2>0, <3>1, <3>2 DEF IInv, Relayed, redis
  <2> QED
    BY <2>1, <2>2
<1> QED
  BY <1>1, <1>2, <1>3 DEF IInv

-----------------------------------------------------------------------------
(* The theorems.                                                           *)

\* Every step preserves the invariant.
THEOREM NextKeeps == IInv /\ [Next]_vars => IInv'
<1>1. ASSUME IInv, UNCHANGED vars
      PROVE  IInv'
  <2>1. TypeOK'
    BY <1>1 DEF vars, cred, redis, streams, IInv, TypeOK
  <2>2. AuthInv' /\ \A d \in Drones : Fresh(d)'
    BY <1>1, RequestsRest DEF vars
  <2>3. \A s \in Streams : Relayed(s)'
    BY <1>1, StreamsRest DEF vars, redis
  <2> QED
    BY <2>1, <2>2, <2>3 DEF IInv
<1> QED
  BY <1>1, KeysKeep, ArriveKeeps, AuthenticationKeeps, ValidateKeeps, SetKeeps, ExpireKeeps,
     PublishKeeps, ConnectKeeps, SubscribedKeeps, RelayKeeps, EndKeeps DEF Next, Continue

THEOREM Invariance == Spec => []IInv
BY InitIInv, NextKeeps, PTL DEF Spec

THEOREM TypeCorrect == Spec => []TypeOK
BY Invariance, PTL DEF IInv

\* Telemetry is attributed to the drone of a key that was live.
THEOREM TelemetryAttributed == Spec => []Attributed
BY Invariance, PTL DEF IInv, AuthInv

\* A stream shows a gapless part of its channel, in order.
THEOREM StreamsInOrder == Spec => []ShownInOrder
<1>1. ASSUME IInv, NEW s \in Streams, shown[s] # <<>>
      PROVE  /\ since[s] + Len(shown[s]) <= Len(channel[watches[s]])
             /\ \A i \in DOMAIN shown[s] : shown[s][i] = channel[watches[s]][since[s] + i]
  <2>1. since[s] # NotYet /\ watches[s] \in Drones
    BY <1>1 DEF IInv, Relayed
  <2>2. /\ since[s] \in Nat /\ Len(shown[s]) \in Nat /\ Len(inbox[s]) \in Nat
        /\ Len(channel[watches[s]]) \in Nat /\ DOMAIN shown[s] = 1..Len(shown[s])
    BY <1>1, <2>1, LenProperties DEF IInv, TypeOK
  <2>3. PICK h \in {0, 1} : Behind(s, h)
    BY <1>1, <2>1 DEF IInv, Relayed
  <2>4. h = 1 => Len(inbox[s]) # 0
    BY <1>1, <2>3, EmptySeq DEF Behind, IInv, TypeOK
  <2>5. since[s] + Len(shown[s]) + Len(inbox[s]) - h <= Len(channel[watches[s]])
    BY <2>3 DEF Behind
  <2>6. since[s] + Len(shown[s]) <= Len(channel[watches[s]])
    BY <2>2, <2>4, <2>5
  <2> QED
    BY <1>1, <2>2, <2>6 DEF IInv, Relayed
<1>2. IInv => ShownInOrder
  BY <1>1 DEF ShownInOrder
<1> QED
  BY Invariance, <1>2, PTL

\* The stored value is the last one published.
THEOREM LatestStored == Spec => []StoredIsLatest
<1>1. IInv => StoredIsLatest
  BY DEF IInv, Fresh, StoredIsLatest
<1> QED
  BY Invariance, <1>1, PTL

\* What can be said of FireAndForget without fairness: a request whose key was
\* accepted sees neither a 401 nor a 500, whatever becomes of Redis
\* (ingest.py:22-24).
NeverSurfaced ==
    \A r \in Requests :
        answer[r] = "served" => pc[r] \in {"validate", "set", "publish", "200", "422"}

THEOREM FailuresDropped == Spec => []NeverSurfaced
<1>1. Init => NeverSurfaced
  BY DEF Init, Cred!Init, NeverSurfaced
<1>2. ASSUME IInv, NeverSurfaced, [Next]_vars
      PROVE  NeverSurfaced'
  <2>1. ASSUME NEW r \in Requests, Continue(r) \/ \E k \in Keys \cup {NoKey} : Arrive(r, k)
        PROVE  NeverSurfaced'
    <3>1. \A q \in Requests : q # r => pc'[q] = pc[q] /\ answer'[q] = answer[q]
      <4>1. pc' = pc \/ \E place : pc' = [pc EXCEPT ![r] = place]
        BY <2>1 DEF Arrive, Continue, AcceptKey, ReturnDrone, RefuseKey, Validate, SetValue,
           SetFails, Publish, PublishFails, Go
      <4>2. answer' = answer \/ \E a : answer' = [answer EXCEPT ![r] = a]
        BY <2>1 DEF Arrive, Continue, AcceptKey, ReturnDrone, RefuseKey, Validate, SetValue,
           SetFails, Publish, PublishFails, Accept, Cred!Accept, Cred!Serve, Cred!Refuse, cred
      <4>3. pc \in [Requests \cup Streams -> IngestStates \cup StreamStates]
            /\ answer \in [Requests -> {"none", "served", "refused"}]
        BY <1>2 DEF IInv, TypeOK
      <4>4. \A q \in Requests : q # r => pc'[q] = pc[q]
        BY <4>1, <4>3
      <4>5. \A q \in Requests : q # r => answer'[q] = answer[q]
        BY <4>2, <4>3
      <4> QED
        BY <4>4, <4>5
    <3>2. answer'[r] = "served" => pc'[r] \in {"validate", "set", "publish", "200", "422"}
      BY <1>2, <2>1 DEF Arrive, Continue, AcceptKey, ReturnDrone, RefuseKey, Validate, SetValue,
         SetFails, Publish, PublishFails, Dropped, Go, Accept, Cred!Accept, Cred!Serve,
         Cred!Refuse, cred, NeverSurfaced, IInv, TypeOK, AuthInv, Accepted
    <3> QED
      BY <1>2, <3>1, <3>2 DEF NeverSurfaced
  <2>2. ASSUME NEW s \in Streams,
               \/ \E d \in Drones : Connect(s, d)
               \/ Subscribed(s) \/ Relay(s) \/ Leave(s) \/ Unsubscribe(s) \/ Close(s)
        PROVE  NeverSurfaced'
    <3>1. \A q \in Requests : pc'[q] = pc[q]
      <4>1. pc' = pc \/ \E place : pc' = [pc EXCEPT ![s] = place]
        BY <2>2 DEF Connect, Subscribed, Relay, Leave, Unsubscribe, Close, Go
      <4> QED
        BY <1>2, <4>1, ProcessAssumption DEF IInv, TypeOK
    <3>2. answer' = answer
      BY <2>2 DEF Connect, Subscribed, Relay, Leave, Unsubscribe, Close, cred
    <3> QED
      BY <1>2, <3>1, <3>2 DEF NeverSurfaced
  <2>3. CASE \/ \E k \in Keys : IssueKey(k) \/ RevokeKey(k)
             \/ \E d \in Drones : Expire(d)
             \/ UNCHANGED vars
    BY <1>2, <2>3 DEF IssueKey, RevokeKey, Cred!Issue, Cred!Revoke, Expire, vars, cred,
       NeverSurfaced
  <2> QED
    BY <1>2, <2>1, <2>2, <2>3 DEF Next
<1> QED
  BY <1>1, <1>2, Invariance, PTL DEF Spec

-----------------------------------------------------------------------------
(* Refinement: Telemetry implements Broadcast.  What is new is that a      *)
(* request that published is over and will not publish again.              *)

PublishedOver == \A d \in Drones : \A i \in 1..Len(channel[d]) : pc[channel[d][i]] = "200"

\* A request that was answered stays answered.
LEMMA AnsweredStays ==
    ASSUME IInv, [Next]_vars, NEW q \in Requests, pc[q] = "200"
    PROVE  pc'[q] = "200"
<1>1. ASSUME NEW r \in Requests, Continue(r) \/ \E k \in Keys \cup {NoKey} : Arrive(r, k)
      PROVE  pc'[q] = "200"
  BY <1>1 DEF Arrive, Continue, AcceptKey, ReturnDrone, RefuseKey, Validate, SetValue, SetFails,
     Publish, PublishFails, Dropped, Go, IInv, TypeOK
<1>2. ASSUME NEW s \in Streams,
             \/ \E d \in Drones : Connect(s, d)
             \/ Subscribed(s) \/ Relay(s) \/ Leave(s) \/ Unsubscribe(s) \/ Close(s)
      PROVE  pc'[q] = "200"
  BY <1>2, ProcessAssumption DEF Connect, Subscribed, Relay, Leave, Unsubscribe, Close, Go, IInv,
     TypeOK
<1>3. CASE \/ \E k \in Keys : IssueKey(k) \/ RevokeKey(k)
           \/ \E d \in Drones : Expire(d)
           \/ UNCHANGED vars
  BY <1>3 DEF IssueKey, RevokeKey, Expire, vars
<1> QED
  BY <1>1, <1>2, <1>3 DEF Next

\* A channel grows by the message of a request that is about to publish, and by
\* nothing else.
LEMMA ChannelGrows ==
    ASSUME IInv, [Next]_vars, channel' # channel
    PROVE  \E r \in Requests : Publish(r) \/ PublishFails(r)
BY DEF Next, Continue, vars, IssueKey, RevokeKey, Arrive, AcceptKey, ReturnDrone, RefuseKey,
   Validate, SetValue, SetFails, Expire, Connect, Subscribed, Relay, Leave, Unsubscribe, Close,
   redis

\* What PUBLISH does, if it does anything.
LEMMA PublishAppends ==
    ASSUME IInv, PublishedOver, NEW r \in Requests, Publish(r) \/ PublishFails(r),
           channel' # channel
    PROVE  /\ Subject(r) \in Drones /\ pc'[r] = "200"
           /\ \A c \in Drones : \A i \in 1..Len(channel[c]) : channel[c][i] # r
           /\ channel' = [channel EXCEPT ![Subject(r)] = Append(@, r)]
           /\ UNCHANGED <<watches, shown, since>>
<1>1. pc[r] = "publish" /\ Published(r) /\ pc' = [pc EXCEPT ![r] = "200"]
      /\ UNCHANGED <<watches, shown, since>>
  BY DEF Publish, PublishFails, Dropped, Go
<1>2. Subject(r) \in Drones
  BY <1>1, SubjectIsDrone DEF IInv, AuthInv
<1>3. \A c \in Drones : \A i \in 1..Len(channel[c]) : channel[c][i] # r
  BY <1>1 DEF PublishedOver
<1> QED
  BY <1>1, <1>2, <1>3 DEF Published, IInv, TypeOK

LEMMA NextKeepsPublished ==
    ASSUME IInv, PublishedOver, [Next]_vars
    PROVE  PublishedOver'
<1> SUFFICES ASSUME NEW d \in Drones, NEW i \in 1..Len(channel'[d])
             PROVE  pc'[channel'[d][i]] = "200"
  BY DEF PublishedOver
<1>1. channel[d] \in Seq(Requests)
  BY DEF IInv, TypeOK
<1>2. ASSUME i \in 1..Len(channel[d]), channel'[d][i] = channel[d][i]
      PROVE  pc'[channel'[d][i]] = "200"
  <2>1. channel[d][i] \in Requests /\ pc[channel[d][i]] = "200"
    BY <1>1, <1>2, ElementOfSeq DEF PublishedOver
  <2> QED
    BY <1>2, <2>1, AnsweredStays
<1>3. CASE channel' = channel
  BY <1>2, <1>3
<1>4. CASE channel' # channel
  <2>1. PICK r \in Requests : Publish(r) \/ PublishFails(r)
    BY <1>4, ChannelGrows
  <2>2. /\ Subject(r) \in Drones /\ pc'[r] = "200"
        /\ channel' = [channel EXCEPT ![Subject(r)] = Append(@, r)]
    BY <1>4, <2>1, PublishAppends
  <2>3. CASE d # Subject(r)
    <3>1. channel'[d] = channel[d]
      BY <2>2, <2>3 DEF IInv, TypeOK
    <3> QED
      BY <1>2, <3>1
  <2>4. CASE d = Subject(r)
    <3>1. channel'[d] = Append(channel[d], r)
      BY <2>2, <2>4 DEF IInv, TypeOK
    <3>2. /\ Len(channel[d]) \in Nat /\ i \in 1..(Len(channel[d]) + 1)
          /\ channel'[d][Len(channel[d]) + 1] = r
          /\ \A j \in 1..Len(channel[d]) : channel'[d][j] = channel[d][j]
      BY <1>1, <3>1, AppendFacts
    <3>3. i \in 1..Len(channel[d]) \/ i = Len(channel[d]) + 1
      BY <3>2
    <3> QED
      BY <1>2, <2>2, <3>2, <3>3
  <2> QED
    BY <2>3, <2>4
<1> QED
  BY <1>3, <1>4

\* Redis subscribing a stream is the reader joining the channel at its end.
LEMMA SubscribedJoins ==
    ASSUME IInv, NEW s \in Streams, Subscribed(s)
    PROVE  watches[s] \in Drones /\ Feed!Join(s, watches[s])
<1>1. watches[s] \in Drones /\ shown[s] = <<>> /\ since[s] = NotYet
  BY DEF IInv, Relayed, Subscribed
<1>2. Len(channel[watches[s]]) \in Nat /\ Len(shown[s]) = 0
  BY <1>1, LenProperties DEF IInv, TypeOK
<1>3. /\ since' = [since EXCEPT ![s] = Len(channel[watches[s]])]
      /\ UNCHANGED <<channel, watches, shown>>
  BY DEF Subscribed, redis
<1>4. since'[s] = Len(channel[watches[s]]) /\ since'[s] # NotYet
  BY <1>2, <1>3 DEF IInv, TypeOK, NotYet
<1>5. Joined' = [Joined EXCEPT ![s] = watches[s]]
  BY <1>3, <1>4 DEF Joined, IInv, TypeOK
<1>6. Place' = [Place EXCEPT ![s] = Len(channel[watches[s]])]
  <2>1. since'[s] + Len(shown[s]) = Len(channel[watches[s]])
    BY <1>2, <1>4
  <2> QED
    BY <1>3, <1>4, <2>1 DEF Place, IInv, TypeOK
<1>7. Joined[s] = NoDrone
  BY <1>1 DEF Joined
<1> QED
  BY <1>1, <1>3, <1>5, <1>6, <1>7 DEF Feed!Join

\* Passing a message on shows the next one of the channel; passing over the
\* confirmation is not seen.
LEMMA RelayShows ==
    ASSUME IInv, NEW s \in Streams, Relay(s)
    PROVE  Feed!Show(s) \/ UNCHANGED <<channel, Joined, Place, shown>>
<1> DEFINE c == channel[watches[s]]
           all == s \in subscribed
<1>0. /\ since[s] \in Nat /\ since[s] # NotYet /\ inbox[s] \in Seq(Pushes) /\ inbox[s] # <<>>
      /\ shown[s] \in Seq(Requests) /\ watches[s] \in Drones /\ c \in Seq(Requests)
      /\ Len(shown[s]) \in Nat /\ Len(inbox[s]) \in Nat \ {0} /\ Len(c) \in Nat
  <2>1. since[s] # NotYet /\ watches[s] \in Drones /\ inbox[s] # <<>>
    BY DEF IInv, Relayed, Relay
  <2>2. /\ since[s] \in Nat /\ inbox[s] \in Seq(Pushes)
        /\ shown[s] \in Seq(Requests) /\ c \in Seq(Requests)
    BY <2>1 DEF IInv, TypeOK
  <2> HIDE DEF c
  <2> QED
    BY <2>1, <2>2, LenProperties, EmptySeq
<1>1. PICK front \in {0, 1} : Lags(inbox[s], shown[s], c, since[s], all, front)
  BY <1>0 DEF IInv, Relayed, Behind, Lags, Relay
<1>2. shown' = [shown EXCEPT ![s] = Sent(s)] /\ UNCHANGED <<channel, watches, since>>
  BY DEF Relay, redis
<1>3. UNCHANGED <<channel, Joined>>
  BY <1>2 DEF Joined
<1>4. CASE front = 1
  <2>1. Head(inbox[s]) = Confirmation
    <3>1. all \in BOOLEAN
      OBVIOUS
    <3> HIDE DEF c, all
    <3> QED
      BY <1>0, <1>1, <1>4, <3>1, RelayConfirmation
  <2>2. shown' = shown
    BY <1>2, <2>1 DEF Sent, Confirmation, IInv, TypeOK
  <2> QED
    BY <1>2, <1>3, <2>2 DEF Place
<1>5. CASE front = 0
  <2>1. /\ inbox[s][1] = Message(c[since[s] + Len(shown[s]) + 1])
        /\ since[s] + Len(shown[s]) < Len(c)
    <3>1. 1 \in 1..Len(inbox[s]) /\ 1 > front
          /\ since[s] + Len(shown[s]) + 1 - front = since[s] + Len(shown[s]) + 1
      BY <1>0, <1>5
    <3>2. inbox[s][1] = Message(c[since[s] + Len(shown[s]) + 1 - front])
      BY <1>1, <3>1 DEF Lags
    <3>3. since[s] + Len(shown[s]) + Len(inbox[s]) - front <= Len(c)
      BY <1>1 DEF Lags
    <3>4. since[s] + Len(shown[s]) < Len(c)
      <4> HIDE DEF c
      <4> QED
        BY <1>0, <1>5, <3>3
    <3> QED
      BY <3>1, <3>2, <3>4
  <2> DEFINE n == since[s] + Len(shown[s])
             r == c[n + 1]
  <2>2. Sent(s) = Append(shown[s], r)
    <3>1. Head(inbox[s]) = inbox[s][1]
      BY <1>0, TailFacts
    <3> QED
      BY <2>1, <3>1 DEF Sent, Message
  <2>3. Joined[s] = watches[s] /\ Joined[s] # NoDrone /\ Place[s] = n
    BY <1>0, DroneAssumption DEF Joined, Place
  <2>4. r \in Requests
    <3>1. n + 1 \in 1..Len(c)
      BY <1>0, <2>1
    <3> QED
      BY <1>0, <3>1, ElementOfSeq
  <2>5. shown' = [shown EXCEPT ![s] = Append(@, r)]
    BY <1>2, <2>2 DEF IInv, TypeOK
  <2>6. Place' = [Place EXCEPT ![s] = @ + 1]
    <3>1. Len(shown'[s]) = Len(shown[s]) + 1
      <4> HIDE DEF r
      <4> QED
        BY <1>0, <2>4, <2>5, AppendFacts DEF IInv, TypeOK
    <3>2. \A x \in Streams : x # s => shown'[x] = shown[x]
      BY <2>5 DEF IInv, TypeOK
    <3>3. since'[s] + Len(shown'[s]) = n + 1
      BY <1>0, <1>2, <3>1
    <3>4. ASSUME NEW x \in Streams
          PROVE  Place'[x] = IF x = s THEN n + 1 ELSE Place[x]
      BY <1>0, <1>2, <3>2, <3>3 DEF Place
    <3>5. Place' = [x \in Streams |-> Place'[x]] /\ Place = [x \in Streams |-> Place[x]]
      BY DEF Place
    <3> HIDE DEF n
    <3> QED
      BY <2>3, <3>4, <3>5
  <2>7. Place[s] < Len(channel[Joined[s]])
    BY <2>1, <2>3
  <2>8. shown' = [shown EXCEPT ![s] = Append(@, channel[Joined[s]][Place[s] + 1])]
    BY <2>3, <2>5
  <2> QED
    BY <1>3, <2>3, <2>6, <2>7, <2>8 DEF Feed!Show
<1> QED
  BY <1>4, <1>5

\* Nothing of the broadcast changes with what the mapping does not read.
LEMMA Unseen ==
    ASSUME IInv, UNCHANGED <<channel, since, shown>>,
           \A s \in Streams : since[s] # NotYet => watches'[s] = watches[s]
    PROVE  UNCHANGED <<channel, Joined, Place, shown>>
BY DEF Joined, Place

\* Every step of Telemetry is a step of the broadcast or none.
LEMMA StepRefines ==
    ASSUME IInv, PublishedOver, [Next]_vars
    PROVE  [Feed!Next]_<<channel, Joined, Place, shown>>
<1>1. CASE channel' # channel
  <2>1. PICK r \in Requests : Publish(r) \/ PublishFails(r)
    BY <1>1, ChannelGrows
  <2>2. /\ Subject(r) \in Drones
        /\ \A c \in Drones : \A i \in 1..Len(channel[c]) : channel[c][i] # r
        /\ channel' = [channel EXCEPT ![Subject(r)] = Append(@, r)]
        /\ UNCHANGED <<watches, shown, since>>
    BY <1>1, <2>1, PublishAppends
  <2>3. UNCHANGED <<Joined, Place, shown>>
    BY <2>2 DEF Joined, Place
  <2>4. Feed!Publish(Subject(r), r)
    BY <2>2, <2>3 DEF Feed!Publish
  <2> QED
    BY <2>2, <2>4 DEF Feed!Next
<1>2. CASE channel' = channel
  <2>1. ASSUME NEW s \in Streams, Subscribed(s)
        PROVE  Feed!Next
    BY <2>1, SubscribedJoins DEF Feed!Next
  <2>2. ASSUME NEW s \in Streams, Relay(s)
        PROVE  [Feed!Next]_<<channel, Joined, Place, shown>>
    BY <2>2, RelayShows DEF Feed!Next
  <2>3. ASSUME NEW s \in Streams, NEW d \in Drones, Connect(s, d)
        PROVE  UNCHANGED <<channel, Joined, Place, shown>>
    <3>1. since[s] = NotYet /\ watches' = [watches EXCEPT ![s] = d]
      BY <2>3 DEF Connect, IInv, Relayed
    <3>2. \A x \in Streams : since[x] # NotYet => watches'[x] = watches[x]
      BY <3>1 DEF IInv, TypeOK
    <3>3. UNCHANGED <<channel, since, shown>>
      BY <2>3 DEF Connect, redis
    <3> QED
      BY <3>2, <3>3, Unseen
  <2>4. ASSUME NEW s \in Streams, Leave(s) \/ Unsubscribe(s) \/ Close(s)
        PROVE  UNCHANGED <<channel, Joined, Place, shown>>
    BY <2>4, Unseen DEF Leave, Unsubscribe, Close, redis, streams
  <2>5. ASSUME NEW r \in Requests, Continue(r)
        PROVE  UNCHANGED <<channel, Joined, Place, shown>>
    <3>1. UNCHANGED <<since, shown, watches>>
      BY <2>5 DEF Continue, AcceptKey, ReturnDrone, RefuseKey, Validate, SetValue, SetFails,
         Publish, PublishFails, streams
    <3> QED
      BY <1>2, <3>1, Unseen
  <2>6. ASSUME NEW r \in Requests, NEW k \in Keys \cup {NoKey}, Arrive(r, k)
        PROVE  UNCHANGED <<channel, Joined, Place, shown>>
    BY <2>6, Unseen DEF Arrive, redis, streams
  <2>7. ASSUME NEW k \in Keys, IssueKey(k) \/ RevokeKey(k)
        PROVE  UNCHANGED <<channel, Joined, Place, shown>>
    BY <2>7, Unseen DEF IssueKey, RevokeKey, redis, streams
  <2>8. ASSUME NEW d \in Drones, Expire(d)
        PROVE  UNCHANGED <<channel, Joined, Place, shown>>
    BY <2>8, Unseen DEF Expire, streams
  <2>9. CASE UNCHANGED vars
    BY <2>9, Unseen DEF vars, redis, streams
  <2> QED
    BY <2>1, <2>2, <2>3, <2>4, <2>5, <2>6, <2>7, <2>8, <2>9 DEF Next
<1> QED
  BY <1>1, <1>2

\* Telemetry implements Broadcast, whatever fails, overlaps or ends.
THEOREM BroadcastRefinement == Spec => FeedSpec
<1>1. Init => PublishedOver
  BY DEF Init, PublishedOver
<1>2. Init => Feed!Init
  BY DEF Init, Feed!Init, Joined, Place
<1>3. IInv /\ PublishedOver /\ [Next]_vars => PublishedOver'
  BY NextKeepsPublished
<1>4. IInv /\ PublishedOver /\ [Next]_vars => [Feed!Next]_<<channel, Joined, Place, shown>>
  BY StepRefines
<1> QED
  BY <1>1, <1>2, <1>3, <1>4, Invariance, PTL DEF Spec, FeedSpec, Feed!Spec

-----------------------------------------------------------------------------
\* What ingest does to keys and requests is what module Credential allows,
\* which ApiKeys is proved to implement.
THEOREM UsesCredentials == Spec => Cred!Spec
<1>1. Init => Cred!Init
  BY DEF Init
<1>2. ASSUME IInv, [Next]_vars
      PROVE  [Cred!Next]_Cred!vars
  <2>1. ASSUME NEW k \in Keys, IssueKey(k) \/ RevokeKey(k)
        PROVE  Cred!Next
    BY <2>1 DEF IssueKey, RevokeKey, Cred!Next
  <2>2. ASSUME NEW r \in Requests, AcceptKey(r) \/ ReturnDrone(r) \/ RefuseKey(r)
        PROVE  Cred!Next
    BY <2>2 DEF AcceptKey, Accept, ReturnDrone, RefuseKey, Cred!Next
  <2>3. ASSUME NEW r \in Requests,
               \/ \E k \in Keys \cup {NoKey} : Arrive(r, k)
               \/ Validate(r) \/ SetValue(r) \/ SetFails(r) \/ Publish(r) \/ PublishFails(r)
        PROVE  UNCHANGED Cred!vars
    BY <2>3 DEF Arrive, Validate, SetValue, SetFails, Publish, PublishFails, cred, Cred!vars
  <2>4. ASSUME NEW s \in Streams,
               \/ \E d \in Drones : Connect(s, d)
               \/ Subscribed(s) \/ Relay(s) \/ Leave(s) \/ Unsubscribe(s) \/ Close(s)
        PROVE  UNCHANGED Cred!vars
    BY <2>4 DEF Connect, Subscribed, Relay, Leave, Unsubscribe, Close, cred, Cred!vars
  <2>5. CASE (\E d \in Drones : Expire(d)) \/ UNCHANGED vars
    BY <2>5 DEF Expire, vars, cred, Cred!vars
  <2> QED
    BY <1>2, <2>1, <2>2, <2>3, <2>4, <2>5 DEF Next, Continue
<1> QED
  BY <1>1, <1>2, Invariance, PTL DEF Spec, Cred!Spec
=============================================================================
