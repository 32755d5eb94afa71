------------------------------ MODULE MqttProofs ------------------------------
(***************************************************************************)
(* The MQTT client, in all that the supervisor, the listener of a camera   *)
(* and the configuration tasks do with it, implements Publisher: for every *)
(* number of handlers and every capacity.  Two facts carry the refinement: *)
(* only a task whose last message was taken posts another, and a           *)
(* connection that is not there has taken nothing.  Then, that what the    *)
(* broker retains is what the camera and the configuration are.            *)
(***************************************************************************)
EXTENDS Mqtt, SequenceTheorems, TLAPS

ClientInv ==
    /\ place \in [Senders -> {"none", "queued", "held"}]
    /\ DOMAIN msg = Senders
    /\ backend = "off" => client = <<>>

\* What each sender waits for: waits of Publisher, under the mapping.
Offered == [s \in Senders |-> IF Waits(s) THEN {msg[s]} ELSE {}]

-----------------------------------------------------------------------------
(* What the tasks do to the client                                         *)

Posts ==
    /\ \E s \in Senders : \E topic, val, retain : Post(s, topic, val, retain)
    /\ UNCHANGED <<given, client, backend>>
Drops == (\E ss \in SUBSET Senders : Abandon(ss)) /\ UNCHANGED <<client, backend>>
LeavesAlone == UNCHANGED <<place, msg, given, client, backend>>

LEMMA TasksAreSenders ==
    /\ \A task \in {"main", "status", "motion", "ai", "config", "setter"} : task \in Senders
    /\ \A h \in Handlers : h \in Senders
  BY MqttAssumption

\* A step of the program is the client's own, posts one message, drops tasks, or does
\* not touch the client.
LEMMA StepKinds == [Next]_vars => CNext \/ Posts \/ Drops \/ LeavesAlone
<1> SUFFICES ASSUME [Next]_vars PROVE CNext \/ Posts \/ Drops \/ LeavesAlone
  OBVIOUS
<1>1. CASE UNCHANGED vars
  BY <1>1 DEF vars, cvars, LeavesAlone
<1>2. CASE Supervise \/ Again \/ Behind
  <2>1. OfListener \in SUBSET Senders
    BY TasksAreSenders DEF OfListener
  <2> QED BY <1>2, <2>1 DEF Supervise, Again, Behind, StopAt, Client, Drops, LeavesAlone
<1>3. CASE Seed
  BY <1>3, TasksAreSenders DEF Seed, Posts, LeavesAlone
<1>4. CASE StartTasks \/ AiLook \/ SetBehind \/ Change
  BY <1>4 DEF StartTasks, AiLook, SetBehind, Change, Client, cvars, LeavesAlone
<1>5. CASE ConnectLoop \/ MotionLoop \/ AiSend
  BY <1>5, TasksAreSenders DEF ConnectLoop, MotionLoop, AiSend, Publish, Client, Posts
<1>6. CASE PostConfig
  BY <1>6, TasksAreSenders DEF PostConfig, Client, Posts
<1>7. CASE SetConfig
  <2>1. UNCHANGED <<given, client, backend>>
    BY <1>7 DEF SetConfig, Client
  <2>2. UNCHANGED <<place, msg>> \/ \E topic, val, retain : Post("setter", topic, val, retain)
    BY <1>7 DEF SetConfig
  <2> QED BY <2>1, <2>2, TasksAreSenders DEF Posts, LeavesAlone
<1>8. ASSUME NEW h \in Handlers, Read(h) \/ Reply(h) PROVE Posts \/ LeavesAlone
  <2>1. UNCHANGED <<given, client, backend>>
    BY <1>8 DEF Read, Reply, Client
  <2>2. UNCHANGED <<place, msg>> \/ \E topic, val, retain : Post(h, topic, val, retain)
    BY <1>8 DEF Read, Reply
  <2> QED BY <2>1, <2>2, TasksAreSenders DEF Posts, LeavesAlone
<1>9. CASE \/ \E request \in Requests : Ask(request)
           \/ \E new \in Configs \union {"bad"} : Configure(new)
  BY <1>9 DEF Ask, Configure, Client, LeavesAlone
<1> QED BY <1>1, <1>2, <1>3, <1>4, <1>5, <1>6, <1>7, <1>8, <1>9 DEF Next

-----------------------------------------------------------------------------
(* The invariant                                                           *)

LEMMA ClientInvInit == Init => ClientInv
  BY DEF Init, CInit, ClientInv

LEMMA ClientInvNext == ClientInv /\ [Next]_vars => ClientInv'
<1> SUFFICES ASSUME ClientInv, [Next]_vars PROVE ClientInv'
  OBVIOUS
<1>1. CASE CNext
  BY <1>1 DEF CNext, ClientInv, Start, Accepted, ConnAck, Broker, Drop, Reconfigured, Dropped,
              Hold, Take, TakeGiven
<1>2. CASE Posts
  BY <1>2 DEF Posts, Post, ClientInv
<1>3. CASE Drops
  BY <1>3 DEF Drops, Abandon, ClientInv
<1>4. CASE LeavesAlone
  BY <1>4 DEF LeavesAlone, ClientInv
<1> QED BY <1>1, <1>2, <1>3, <1>4, StepKinds

-----------------------------------------------------------------------------
(* The refinement                                                          *)

\* The variables of Publisher keep their values, and so the step is a stutter.
LEMMA Stutters ==
    ASSUME UNCHANGED <<place, msg, given, client>>
    PROVE  UNCHANGED Promise!pvars
  BY DEF Promise!pvars, Waits

\* What one sender waits for changes, and nothing else of what is offered.
LEMMA OfferedBut ==
    ASSUME ClientInv, NEW s \in Senders, NEW p, NEW m,
           place' = [place EXCEPT ![s] = p], msg' = [msg EXCEPT ![s] = m]
    PROVE  Offered' = [Offered EXCEPT ![s] = IF p = "none" THEN {} ELSE {m}]
<1>1. place'[s] = p /\ msg'[s] = m
  BY DEF ClientInv
<1>2. \A r \in Senders \ {s} : place'[r] = place[r] /\ msg'[r] = msg[r]
  BY DEF ClientInv
<1> QED BY <1>1, <1>2 DEF Offered, Waits

LEMMA PostOffers ==
    ASSUME ClientInv, Posts
    PROVE  Promise!PNext
<1>1. PICK s \in Senders : \E topic, val, retain : Post(s, topic, val, retain)
  BY DEF Posts
<1>2. PICK topic, val, retain : Post(s, topic, val, retain)
  BY <1>1
<1> DEFINE m == [topic |-> topic, val |-> val, retain |-> retain]
<1>3. Offered' = [Offered EXCEPT ![s] = {m}]
  <2>1. place' = [place EXCEPT ![s] = "queued"] /\ msg' = [msg EXCEPT ![s] = m]
    BY <1>2 DEF Post
  <2> HIDE DEF m
  <2>2. Offered' = [Offered EXCEPT ![s] = IF "queued" = "none" THEN {} ELSE {m}]
    BY <2>1, OfferedBut
  <2> QED BY <2>2
<1> HIDE DEF m
<1>4. Offered[s] = {} /\ m \in Offered'[s]
  BY <1>2, <1>3 DEF Post, Offered, Waits
<1>5. UNCHANGED <<given, client>>
  BY DEF Posts
<1>6. Promise!Offer(s)
  BY <1>3, <1>4, <1>5 DEF Promise!Offer, Offered
<1> QED BY <1>6 DEF Promise!PNext

LEMMA DropGivesUp ==
    ASSUME ClientInv, Drops
    PROVE  Promise!PNext
<1>1. PICK ss \in SUBSET Senders : Abandon(ss)
  BY DEF Drops
<1>2. \A s \in Senders : Offered'[s] = IF s \in ss THEN {} ELSE Offered[s]
  BY <1>1 DEF Abandon, Offered, Waits
<1>3. given' = given \union UNION {Offered[s] \ Offered'[s] : s \in Senders}
  <2>1. {msg[s] : s \in {r \in ss : Waits(r)}} = UNION {Offered[s] \ Offered'[s] : s \in Senders}
    <3>1. \A s \in Senders : Offered[s] \ Offered'[s] = IF s \in ss /\ Waits(s) THEN {msg[s]} ELSE {}
      BY <1>2 DEF Offered
    <3> QED BY <3>1
  <2> QED BY <1>1, <2>1 DEF Abandon
<1>4. client' = client /\ Offered' = [s \in Senders |-> Offered'[s]]
  BY DEF Drops, Offered
<1>5. Promise!GiveUp
  BY <1>2, <1>3, <1>4 DEF Promise!GiveUp, Offered
<1> QED BY <1>5 DEF Promise!PNext

LEMMA ClientSteps ==
    ASSUME ClientInv, CNext
    PROVE  [Promise!PNext]_(Promise!pvars)
<1>1. CASE Start
  <2>1. client' = Append(client, Own("connected")) /\ UNCHANGED <<place, msg, given>>
    BY <1>1 DEF Start, ClientInv
  <2>2. Promise!Announce
    BY <2>1 DEF Promise!Announce, Waits
  <2> QED BY <2>2 DEF Promise!PNext
<1>2. CASE Accepted \/ \E s \in Senders : Hold(s)
  <2>1. UNCHANGED <<msg, given, client>>
    BY <1>2 DEF Accepted, Hold
  <2>2. \A s \in Senders : Waits(s)' = Waits(s)
    BY <1>2 DEF Accepted, Hold, Waits, ClientInv
  <2> QED BY <2>1, <2>2 DEF Promise!pvars
<1>3. CASE ConnAck
  <2>1. client' = Append(client, Own("subscribe")) /\ UNCHANGED <<place, msg, given>>
    BY <1>3 DEF ConnAck
  <2>2. Promise!Announce
    BY <2>1 DEF Promise!Announce, Waits
  <2> QED BY <2>2 DEF Promise!PNext
<1>4. CASE Broker
  <2>1. client # <<>> /\ client' = Tail(client) /\ UNCHANGED <<place, msg, given>>
    BY <1>4 DEF Broker
  <2>2. Promise!Issue
    BY <2>1 DEF Promise!Issue, Waits
  <2> QED BY <2>2 DEF Promise!PNext
<1>5. CASE Drop \/ Reconfigured
  <2>1. client' = <<>> /\ UNCHANGED <<msg, given>>
    BY <1>5 DEF Drop, Reconfigured, Dropped
  <2>2. \A s \in Senders : Waits(s)' = Waits(s)
    BY <1>5 DEF Drop, Reconfigured, Dropped, Waits, ClientInv
  <2>3. Promise!Lose
    BY <2>1, <2>2 DEF Promise!Lose
  <2> QED BY <2>3 DEF Promise!PNext
<1>6. ASSUME NEW s \in Senders, Take(s) PROVE Promise!PNext
  <2>1. Offered' = [Offered EXCEPT ![s] = {}]
    <3>1. place' = [place EXCEPT ![s] = "none"] /\ msg' = [msg EXCEPT ![s] = NoMessage]
      BY <1>6 DEF Take
    <3>2. Offered' = [Offered EXCEPT ![s] = IF "none" = "none" THEN {} ELSE {NoMessage}]
      BY <3>1, OfferedBut
    <3> QED BY <3>2
  <2>2. msg[s] \in Offered[s]
    BY <1>6 DEF Take, Offered, Waits
  <2>3. client' = Append(client, msg[s]) /\ given' = given
    BY <1>6 DEF Take
  <2>4. PICK m : m = msg[s]
    OBVIOUS
  <2>5. Promise!Take(s, m)
    BY <2>1, <2>3, <2>4 DEF Promise!Take, Offered
  <2>6. m \in [r \in Senders |-> IF Waits(r) THEN {msg[r]} ELSE {}][s]
    BY <2>2, <2>4 DEF Offered
  <2> QED BY <2>5, <2>6 DEF Promise!PNext
<1>7. ASSUME NEW m \in given, TakeGiven(m) PROVE Promise!PNext
  <2>1. Promise!TakeGiven(m)
    BY <1>7 DEF TakeGiven, Promise!TakeGiven, Waits
  <2> QED BY <2>1 DEF Promise!PNext
<1> QED BY <1>1, <1>2, <1>3, <1>4, <1>5, <1>6, <1>7 DEF CNext

LEMMA StepRefines == ClientInv /\ [Next]_vars => [Promise!PNext]_(Promise!pvars)
  BY StepKinds, ClientSteps, PostOffers, DropGivesUp, Stutters DEF LeavesAlone

\* Whatever the tasks of main and of a camera do, whoever is dropped in the middle and
\* whenever the broker is lost, a message is taken once, its sender is told then and not
\* before, and what was taken is published in that order (mqttc.rs).
THEOREM ClientKeepsPromise == Spec => Implements
<1>1. Init => Promise!PInit
  BY DEF Init, CInit, Promise!PInit, Waits
<1> QED BY <1>1, ClientInvInit, ClientInvNext, StepRefines, PTL DEF Spec, Implements, Promise!PSpec
-----------------------------------------------------------------------------
(***************************************************************************)
(* ConfigPosted and StatusFollows.  A topic is posted by one task at a     *)
(* time, and no step but a publication of that topic changes the last that *)
(* was said of it: it moves from the task to the client, and from there to *)
(* the broker, or is lost, and then the topic is stale.  So the invariant  *)
(* says, for each topic, what that last value may be by where the loop     *)
(* that publishes it stands, from the seeding on.                          *)
(***************************************************************************)

Kept == {"status", "motion", "ai", "people", "config"}

\* A message of t waits for the client.
Later(t) == \E s \in Senders : Waits(s) /\ msg[s].topic = t

\* The last that was said of t, wherever it has come, is one of V.
Says(t, V) ==
    /\ \A s \in Senders : Waits(s) /\ msg[s].topic = t => msg[s].val \in V
    /\ ~Later(t) =>
         /\ \A i \in DOMAIN client :
              client[i].topic = t /\ (\A j \in DOMAIN client : j > i => client[j].topic # t) =>
                  client[i].val \in V
         /\ (\A i \in DOMAIN client : client[i].topic # t) /\ t \notin stale => retained[t] \in V

\* What each task speaks of, and when.
Speaks(s, t) ==
    /\ s = "main" => t \in {"status", "motion", "ai", "people"} /\ listener <= Seeded
    /\ s \in {"status", "motion"} => t = s /\ listener = Listen
    /\ s = "ai" => t \in {"ai", "people"} /\ listener = Listen
    /\ s = "config" => t = "config"
    /\ s = "setter" => t = "config/status"
    /\ s \in Handlers => t = "control"

TalkInv ==
    /\ ClientInv /\ DOMAIN retained = Topics /\ listener \in 0 .. Ended
    /\ client \in Seq(Messages) /\ given \subseteq Messages
    /\ \A s \in Senders : Waits(s) => msg[s] \in Messages /\ Speaks(s, msg[s].topic)
    /\ \A s \in Senders : Waits(s) /\ msg[s].topic \in Kept => msg[s].retain
    /\ \A i \in DOMAIN client : client[i].topic \in Kept => client[i].retain
    /\ \A m \in given : m.topic \in late /\ (m.topic \in Kept => m.retain)
    /\ "config" \notin late

LEMMA Numbers ==
    /\ None = 0 /\ Len(Seeds) = 7 /\ Seeded = 8 /\ Listen = 9 /\ Ended = 10
    /\ Kept \subseteq Topics /\ "neolink" \in Topics /\ "neolink" \notin Kept
    /\ \A r \in {"control", "config/status"} : r \in Topics /\ r \notin Kept
  BY MqttAssumption DEF None, Seeds, Seeded, Listen, Ended, Kept

\* What Append and Tail do to the places of a sequence.
LEMMA Appended ==
    ASSUME NEW M, NEW q \in Seq(M), NEW m \in M
    PROVE  /\ Append(q, m) \in Seq(M) /\ Len(q) \in Nat
           /\ DOMAIN Append(q, m) = 1..(Len(q) + 1) /\ DOMAIN q = 1..Len(q)
           /\ \A i \in DOMAIN q : Append(q, m)[i] = q[i]
           /\ Append(q, m)[Len(q) + 1] = m
  OBVIOUS

LEMMA Tailed ==
    ASSUME NEW M, NEW q \in Seq(M), q # <<>>
    PROVE  /\ Tail(q) \in Seq(M) /\ Len(q) \in Nat \ {0}
           /\ DOMAIN Tail(q) = 1..(Len(q) - 1) /\ DOMAIN q = 1..Len(q)
           /\ \A i \in DOMAIN Tail(q) : Tail(q)[i] = q[i + 1] /\ i + 1 \in DOMAIN q
           /\ Head(q) = q[1] /\ Head(q) \in M /\ 1 \in DOMAIN q
  OBVIOUS

\* One message more is taken by the client: of another topic, or what was last said.
LEMMA TakenSays ==
    ASSUME TalkInv, NEW m \in Messages, client' = Append(client, m), UNCHANGED <<retained, stale>>,
           NEW t \in Kept, NEW V, Says(t, V),
           \A s \in Senders : Waits(s)' /\ (msg[s].topic = t)' => Waits(s) /\ msg'[s] = msg[s],
           \/ m.topic # t /\ (Later(t) => Later(t)')
           \/ m.topic = t /\ m.val \in V
    PROVE  Says(t, V)'
<1>1. /\ DOMAIN client' = 1..(Len(client) + 1) /\ DOMAIN client = 1..Len(client) /\ Len(client) \in Nat
      /\ \A i \in DOMAIN client : client'[i] = client[i]
      /\ client'[Len(client) + 1] = m
  BY Appended DEF TalkInv
<1>2. \A s \in Senders : Waits(s)' /\ msg'[s].topic = t => msg'[s].val \in V
  BY DEF Says
<1>3. CASE m.topic # t /\ (Later(t) => Later(t)')
  <2> SUFFICES ASSUME ~Later(t)'
               PROVE  /\ \A i \in DOMAIN client' :
                           client'[i].topic = t /\ (\A j \in DOMAIN client' : j > i => client'[j].topic # t) =>
                               client'[i].val \in V
                      /\ (\A i \in DOMAIN client' : client'[i].topic # t) /\ t \notin stale' => retained'[t] \in V
    BY <1>2 DEF Says
  <2>1. ~Later(t)
    BY <1>3
  <2>2. ASSUME NEW i \in DOMAIN client', client'[i].topic = t,
               \A j \in DOMAIN client' : j > i => client'[j].topic # t
        PROVE  client'[i].val \in V
    <3>1. i \in DOMAIN client /\ client'[i] = client[i]
      BY <1>1, <1>3, <2>2
    <3>2. \A j \in DOMAIN client : j > i => client[j].topic # t
      BY <1>1, <2>2
    <3> QED BY <2>1, <2>2, <3>1, <3>2 DEF Says
  <2>3. (\A i \in DOMAIN client' : client'[i].topic # t) => \A i \in DOMAIN client : client[i].topic # t
    BY <1>1
  <2> QED BY <2>1, <2>2, <2>3 DEF Says
<1>4. CASE m.topic = t /\ m.val \in V
  <2>1. Len(client) + 1 \in DOMAIN client'
    BY <1>1
  <2>2. ASSUME NEW i \in DOMAIN client', \A j \in DOMAIN client' : j > i => client'[j].topic # t
        PROVE  i = Len(client) + 1
    BY <1>1, <1>4, <2>1, <2>2
  <2> QED BY <1>1, <1>2, <1>4, <2>1, <2>2 DEF Says
<1> QED BY <1>3, <1>4

\* Nobody waits with more than before, and what is retained stays or is stale.
LEMMA SaysStill ==
    ASSUME NEW t, NEW V, Says(t, V), client' = client,
           \A s \in Senders : Waits(s)' /\ (msg[s].topic = t)' => Waits(s) /\ msg'[s] = msg[s],
           Later(t) => Later(t)',
           t \notin stale' => t \notin stale /\ retained'[t] = retained[t]
    PROVE  Says(t, V)'
<1>1. \A s \in Senders : Waits(s)' /\ msg'[s].topic = t => msg'[s].val \in V
  BY DEF Says
<1> QED BY <1>1 DEF Says

\* The topic is posted, while nobody else waits to say anything of it.
LEMMA PostedSays ==
    ASSUME ClientInv, NEW s \in Senders, NEW t, NEW v, NEW r, Post(s, t, v, r), NEW V, v \in V,
           \A other \in Senders \ {s} : ~(Waits(other) /\ msg[other].topic = t)
    PROVE  Says(t, V)'
<1>1. /\ place'[s] = "queued" /\ msg'[s] = [topic |-> t, val |-> v, retain |-> r]
      /\ \A other \in Senders \ {s} : place'[other] = place[other] /\ msg'[other] = msg[other]
  BY DEF Post, ClientInv
<1>2. msg'[s].topic = t /\ msg'[s].val = v
  BY <1>1
<1>3. Later(t)'
  BY <1>1, <1>2 DEF Later, Waits
<1>4. ASSUME NEW other \in Senders, Waits(other)', msg'[other].topic = t
      PROVE  msg'[other].val \in V
  BY <1>1, <1>2, <1>4 DEF Waits
<1> QED BY <1>3, <1>4 DEF Says

\* A message of another topic is posted.
LEMMA OtherPosted ==
    ASSUME ClientInv, NEW s \in Senders, NEW topic, NEW v, NEW r, Post(s, topic, v, r),
           UNCHANGED <<client, retained, stale>>,
           NEW t, topic # t, NEW V, Says(t, V)
    PROVE  Says(t, V)'
<1>1. /\ place'[s] = "queued" /\ msg'[s].topic = topic /\ ~Waits(s)
      /\ \A other \in Senders \ {s} : place'[other] = place[other] /\ msg'[other] = msg[other]
  BY DEF Post, ClientInv, Waits
<1>2. \A other \in Senders : Waits(other)' /\ (msg[other].topic = t)' => Waits(other) /\ msg'[other] = msg[other]
  BY <1>1 DEF Waits
<1>3. Later(t) => Later(t)'
  BY <1>1 DEF Later, Waits
<1> QED BY <1>2, <1>3, SaysStill

\* Tasks are dropped, none of which had anything to say of the topic.
LEMMA AbandonedSays ==
    ASSUME ClientInv, NEW ss \in SUBSET Senders, Abandon(ss), UNCHANGED <<client, retained, stale>>,
           NEW t, t \notin late', NEW V, Says(t, V)
    PROVE  Says(t, V)'
<1>1. /\ \A s \in Senders : place'[s] = IF s \in ss THEN "none" ELSE place[s]
      /\ \A s \in Senders : msg'[s] = IF s \in ss THEN NoMessage ELSE msg[s]
      /\ \A s \in ss : Waits(s) => msg[s].topic # t
  BY DEF Abandon
<1>2. \A s \in Senders : Waits(s)' /\ (msg[s].topic = t)' => Waits(s) /\ msg'[s] = msg[s]
  BY <1>1 DEF Waits
<1>3. Later(t) => Later(t)'
  BY <1>1 DEF Later, Waits
<1> QED BY <1>2, <1>3, SaysStill

\* What the client and the broker do changes nothing of what was last said.
LEMMA ClientSays ==
    ASSUME TalkInv, CNext, NEW t \in Kept, t \notin late, NEW V, Says(t, V)
    PROVE  Says(t, V)'
<1>0. ClientInv
  BY DEF TalkInv
<1>1. CASE Start
  <2>1. Own("connected") \in Messages /\ Own("connected").topic # t
    BY MqttAssumption, Numbers DEF Own, Messages
  <2>2. client' = Append(client, Own("connected")) /\ UNCHANGED <<place, msg, retained, stale>>
    BY <1>0, <1>1 DEF Start, ClientInv
  <2> QED BY <2>1, <2>2, TakenSays DEF Waits, Later
<1>2. CASE Accepted
  BY <1>2 DEF Accepted, Says, Later, Waits
<1>3. CASE ConnAck
  <2>1. Own("subscribe") \in Messages /\ Own("subscribe").topic # t
    BY MqttAssumption, Numbers DEF Own, Messages
  <2>2. client' = Append(client, Own("subscribe")) /\ UNCHANGED <<place, msg, retained, stale>>
    BY <1>3 DEF ConnAck
  <2> QED BY <2>1, <2>2, TakenSays DEF Waits, Later
<1>4. CASE Broker
  <2> DEFINE m == Head(client)
  <2>1. /\ UNCHANGED <<place, msg>> /\ client # <<>> /\ client' = Tail(client)
        /\ retained' = IF m.retain THEN [retained EXCEPT ![m.topic] = m.val] ELSE retained
        /\ stale' = IF m.retain THEN stale \ {m.topic} ELSE stale
    BY <1>4 DEF Broker
  <2>2. /\ DOMAIN client' = 1..(Len(client) - 1) /\ DOMAIN client = 1..Len(client) /\ Len(client) \in Nat \ {0}
        /\ \A i \in DOMAIN client' : client'[i] = client[i + 1] /\ i + 1 \in DOMAIN client
        /\ m = client[1] /\ m \in Messages /\ 1 \in DOMAIN client
    BY <2>1, Tailed DEF TalkInv
  <2>3. m.topic = t => m.retain
    BY <2>2 DEF TalkInv
  <2> HIDE DEF m
  <2>4. \A s \in Senders : Waits(s)' = Waits(s) /\ msg'[s] = msg[s]
    BY <2>1 DEF Waits
  <2>5. Later(t)' <=> Later(t)
    BY <2>1 DEF Later, Waits
  <2>6. ASSUME ~Later(t), NEW i \in DOMAIN client', client'[i].topic = t,
               \A j \in DOMAIN client' : j > i => client'[j].topic # t
        PROVE  client'[i].val \in V
    <3>1. i + 1 \in DOMAIN client /\ client[i + 1] = client'[i]
      BY <2>2
    <3>2. ASSUME NEW j \in DOMAIN client, j > i + 1
          PROVE  client[j].topic # t
      <4>1. j - 1 \in DOMAIN client' /\ j - 1 > i /\ client'[j - 1] = client[j]
        BY <2>2, <3>2
      <4> QED BY <2>6, <4>1
    <3> QED BY <2>6, <3>1, <3>2 DEF Says
  <2>7. ASSUME ~Later(t), \A i \in DOMAIN client' : client'[i].topic # t, t \notin stale'
        PROVE  retained'[t] \in V
    <3>1. \A j \in DOMAIN client : j > 1 => client[j].topic # t
      <4> SUFFICES ASSUME NEW j \in DOMAIN client, j > 1 PROVE client[j].topic # t
        OBVIOUS
      <4>1. j - 1 \in DOMAIN client' /\ client'[j - 1] = client[j]
        BY <2>2
      <4> QED BY <2>7, <4>1
    <3>2. CASE m.topic = t
      <4>1. m.val \in V
        BY <2>2, <2>7, <3>1, <3>2 DEF Says
      <4>2. retained'[t] = m.val
        BY <2>1, <2>3, <3>2, Numbers DEF TalkInv
      <4> QED BY <4>1, <4>2
    <3>3. CASE m.topic # t
      <4>1. \A j \in DOMAIN client : client[j].topic # t
        BY <2>2, <3>1, <3>3
      <4>2. retained'[t] = retained[t] /\ t \notin stale
        BY <2>1, <2>7, <3>3
      <4> QED BY <2>7, <4>1, <4>2 DEF Says
    <3> QED BY <3>2, <3>3
  <2> QED BY <2>4, <2>5, <2>6, <2>7 DEF Says
<1>5. CASE Drop \/ Reconfigured
  <2>1. /\ client' = <<>> /\ msg' = msg
        /\ \A s \in Senders : place'[s] = IF place[s] = "held" THEN "queued" ELSE place[s]
    BY <1>5 DEF Drop, Reconfigured, Dropped
  <2>2. (\A s \in Senders : Waits(s)' = Waits(s)) /\ (Later(t)' <=> Later(t))
    BY <2>1 DEF Waits, Later
  <2>3. t \notin stale' => t \notin stale \union Lost /\ retained'[t] = retained[t]
    <3>1. CASE Drop
      BY <3>1, Numbers DEF Drop
    <3>2. CASE Reconfigured
      BY <3>2, Numbers DEF Reconfigured
    <3> QED BY <1>5, <3>1, <3>2
  <2>4. t \notin Lost => \A i \in DOMAIN client : client[i].topic # t
    BY DEF TalkInv, Lost
  <2>5. DOMAIN client' = {}
    BY <2>1
  <2> QED BY <2>1, <2>2, <2>3, <2>4, <2>5 DEF Says
<1>6. ASSUME NEW s \in Senders, Hold(s) PROVE Says(t, V)'
  <2>1. place' = [place EXCEPT ![s] = "held"] /\ place[s] = "queued" /\ UNCHANGED <<msg, client, retained, stale>>
    BY <1>6 DEF Hold
  <2>2. \A r \in Senders : Waits(r)' = Waits(r)
    BY <1>0, <2>1 DEF Waits, ClientInv
  <2>3. Later(t)' <=> Later(t)
    BY <2>1, <2>2 DEF Later
  <2> QED BY <2>1, <2>2, <2>3 DEF Says
<1>7. ASSUME NEW s \in Senders, Take(s) PROVE Says(t, V)'
  <2>1. /\ place' = [place EXCEPT ![s] = "none"] /\ msg' = [msg EXCEPT ![s] = NoMessage] /\ place[s] = "held"
        /\ client' = Append(client, msg[s]) /\ UNCHANGED <<retained, stale>>
    BY <1>7 DEF Take
  <2>2. place'[s] = "none" /\ \A r \in Senders \ {s} : place'[r] = place[r] /\ msg'[r] = msg[r]
    BY <1>0, <2>1 DEF ClientInv
  <2>3. Waits(s) /\ msg[s] \in Messages
    BY <2>1 DEF Waits, TalkInv
  <2>4. \A r \in Senders : Waits(r)' /\ (msg[r].topic = t)' => Waits(r) /\ msg'[r] = msg[r]
    BY <2>2 DEF Waits
  <2>5. CASE msg[s].topic = t
    BY <2>1, <2>3, <2>4, <2>5, TakenSays DEF Says
  <2>6. CASE msg[s].topic # t
    <3>1. Later(t) => Later(t)'
      BY <2>2, <2>6 DEF Later, Waits
    <3> QED BY <2>1, <2>3, <2>4, <2>6, <3>1, TakenSays
  <2> QED BY <2>5, <2>6
<1>8. ASSUME NEW m \in given, TakeGiven(m) PROVE Says(t, V)'
  <2>1. m \in Messages /\ m.topic # t
    BY DEF TalkInv
  <2>2. client' = Append(client, m) /\ UNCHANGED <<place, msg, retained, stale>>
    BY <1>8 DEF TakeGiven
  <2> QED BY <2>1, <2>2, TakenSays DEF Waits, Later
<1> QED BY <1>1, <1>2, <1>3, <1>4, <1>5, <1>6, <1>7, <1>8 DEF CNext

\* The steps that publish t, if they publish anything.
Utters(t) ==
    \/ Seed /\ ~Seeds[listener].will /\ Seeds[listener].topic = t
    \/ t = "status" /\ ConnectLoop
    \/ t = "motion" /\ MotionLoop
    \/ AiSend /\ Head(detect.todo).topic = t
    \/ t = "config" /\ PostConfig

\* Any other step leaves what was last said of t.
LEMMA OthersSay ==
    ASSUME TalkInv, [Next]_vars, NEW t \in Kept, t \notin late', late \subseteq late', ~Utters(t),
           NEW V, Says(t, V)
    PROVE  Says(t, V)'
<1>0. ClientInv /\ t \notin late
  BY DEF TalkInv
<1>1. ASSUME NEW s \in Senders, NEW topic, NEW v, NEW r, Post(s, topic, v, r), topic # t,
             UNCHANGED <<client, retained, stale>>
      PROVE  Says(t, V)'
  BY <1>0, <1>1, OtherPosted
<1>2. ASSUME UNCHANGED <<place, msg, client, retained, stale>>
      PROVE  Says(t, V)'
  BY <1>2 DEF Says, Later, Waits
<1>3. CASE UNCHANGED vars
  BY <1>2, <1>3 DEF vars, cvars
<1>4. CASE Supervise \/ Again \/ Behind
  <2>1. OfListener \in SUBSET Senders
    BY TasksAreSenders DEF OfListener
  <2>2. UNCHANGED <<client, retained, stale>> /\ (UNCHANGED <<place, msg>> \/ Abandon(OfListener))
    BY <1>4 DEF Supervise, Again, Behind, StopAt, Client
  <2> QED BY <1>0, <1>2, <2>1, <2>2, AbandonedSays
<1>5. CASE Seed
  <2>1. UNCHANGED <<client, retained, stale>>
    BY <1>5 DEF Seed
  <2>2. CASE UNCHANGED <<place, msg>>
    BY <1>2, <2>1, <2>2
  <2>3. CASE ~Seeds[listener].will /\ Post("main", Seeds[listener].topic, Seeds[listener].val, TRUE)
    BY <1>1, <1>5, <2>1, <2>3, TasksAreSenders DEF Utters
  <2> QED BY <1>5, <2>2, <2>3 DEF Seed
<1>6. CASE StartTasks \/ AiLook \/ SetBehind \/ Change
  BY <1>2, <1>6 DEF StartTasks, AiLook, SetBehind, Change, Client, cvars
<1>7. CASE ConnectLoop
  BY <1>1, <1>7, TasksAreSenders DEF ConnectLoop, Publish, Client, Utters
<1>8. CASE MotionLoop
  BY <1>1, <1>8, TasksAreSenders DEF MotionLoop, Publish, Client, Utters
<1>9. CASE AiSend
  BY <1>1, <1>9, TasksAreSenders DEF AiSend, Publish, Client, Utters
<1>10. CASE PostConfig
  BY <1>1, <1>10, TasksAreSenders DEF PostConfig, Client, Utters
<1>11. CASE SetConfig
  <2>1. UNCHANGED <<client, retained, stale>>
    BY <1>11 DEF SetConfig, Client
  <2>2. UNCHANGED <<place, msg>> \/ \E v : Post("setter", "config/status", v, FALSE)
    BY <1>11 DEF SetConfig
  <2>3. "config/status" # t
    BY Numbers
  <2> QED BY <1>1, <1>2, <2>1, <2>2, <2>3, TasksAreSenders
<1>12. ASSUME NEW h \in Handlers, Read(h) \/ Reply(h) PROVE Says(t, V)'
  <2>1. UNCHANGED <<client, retained, stale>>
    BY <1>12 DEF Read, Reply, Client
  <2>2. UNCHANGED <<place, msg>> \/ \E v : Post(h, "control", v, FALSE)
    BY <1>12 DEF Read, Reply
  <2>3. "control" # t
    BY Numbers
  <2> QED BY <1>1, <1>2, <2>1, <2>2, <2>3, TasksAreSenders
<1>13. CASE \E request \in Requests : Ask(request)
  BY <1>2, <1>13 DEF Ask, Client
<1>14. ASSUME NEW new, Configure(new) PROVE Says(t, V)'
  <2>1. UNCHANGED <<place, msg, client>>
    BY <1>14 DEF Configure
  <2>2. t \notin stale' => t \notin stale /\ retained'[t] = retained[t]
    BY <1>14, Numbers DEF Configure, TalkInv
  <2> QED BY <2>1, <2>2, SaysStill DEF Waits, Later
<1>15. CASE CNext
  BY <1>0, <1>15, ClientSays
<1> QED BY <1>3, <1>4, <1>5, <1>6, <1>7, <1>8, <1>9, <1>10, <1>11, <1>12, <1>13, <1>14, <1>15 DEF Next

\* What was last said has come to the broker once all is sent.
LEMMA SaidIsRetained ==
    ASSUME Quiet, NEW t, Settled(t), NEW V, Says(t, V)
    PROVE  retained[t] \in V
<1>1. ~Later(t) /\ client = <<>> /\ t \notin stale
  BY DEF Quiet, Settled, Later
<1>2. DOMAIN client = {}
  BY <1>1
<1> QED BY <1>1, <1>2 DEF Says

-----------------------------------------------------------------------------
(* TalkInv is inductive                                                    *)

LEMMA TalkInit == Init => TalkInv
  BY Numbers, ClientInvInit DEF Init, CInit, TalkInv, Waits, Kept

LEMMA LateGrows == [Next]_vars => late \subseteq late'
<1> SUFFICES ASSUME [Next]_vars PROVE late \subseteq late'
  OBVIOUS
<1>1. CASE CNext
  BY <1>1 DEF CNext, Start, Accepted, ConnAck, Broker, Drop, Reconfigured, Hold, Take, TakeGiven
<1>2. CASE UNCHANGED vars \/ StartTasks \/ AiLook \/ SetBehind \/ Change \/ Seed \/ PostConfig \/ SetConfig
  BY <1>2 DEF vars, cvars, StartTasks, AiLook, SetBehind, Change, Seed, PostConfig, SetConfig
<1>3. CASE Supervise \/ Again \/ Behind
  BY <1>3 DEF Supervise, Again, Behind, StopAt, Abandon
<1>4. CASE ConnectLoop \/ MotionLoop \/ AiSend
  BY <1>4 DEF ConnectLoop, MotionLoop, AiSend, Publish
<1>5. CASE \/ \E h \in Handlers : Read(h) \/ Reply(h)
           \/ \E request \in Requests : Ask(request)
           \/ \E new \in Configs \union {"bad"} : Configure(new)
  BY <1>5 DEF Read, Reply, Ask, Configure
<1> QED BY <1>1, <1>2, <1>3, <1>4, <1>5 DEF Next

\* A message is posted by one that may speak of it.
LEMMA PostTalks ==
    ASSUME TalkInv, NEW s \in Senders, NEW t, NEW v, NEW r, Post(s, t, v, r),
           [topic |-> t, val |-> v, retain |-> r] \in Messages, t \in Kept => r,
           Speaks(s, t)', listener' \in 0 .. Ended,
           \A other \in Senders \ {s} : \A topic : Waits(other) /\ Speaks(other, topic) => Speaks(other, topic)',
           UNCHANGED <<given, late, client, backend, retained>>
    PROVE  TalkInv'
<1> DEFINE m == [topic |-> t, val |-> v, retain |-> r]
<1>1. ClientInv /\ ClientInv'
  <2>1. ClientInv
    BY DEF TalkInv
  <2> QED BY <2>1 DEF Post, ClientInv
<1>2. m.topic = t /\ m.retain = r
  OBVIOUS
<1>3. msg' = [msg EXCEPT ![s] = m] /\ place' = [place EXCEPT ![s] = "queued"]
  BY DEF Post
<1> HIDE DEF m
<1>4. /\ msg'[s] = m /\ m \in Messages
      /\ \A other \in Senders \ {s} : place'[other] = place[other] /\ msg'[other] = msg[other]
  BY <1>1, <1>3 DEF ClientInv, m
<1>5. ASSUME NEW q \in Senders, Waits(q)'
      PROVE  /\ msg'[q] \in Messages /\ Speaks(q, msg[q].topic)'
             /\ msg'[q].topic \in Kept => msg'[q].retain
  <2>1. CASE q = s
    <3>1. msg'[q].topic = t
      BY <1>2, <1>4, <2>1
    <3>2. Speaks(q, msg[q].topic)'
      BY <2>1, <3>1 DEF Speaks
    <3> QED BY <1>2, <1>4, <2>1, <3>2
  <2>2. CASE q # s
    <3>1. Waits(q) /\ msg'[q] = msg[q] /\ Speaks(q, msg[q].topic) /\ msg[q] \in Messages
      BY <1>4, <1>5, <2>2 DEF Waits, TalkInv
    <3>2. PICK topic : topic = msg[q].topic
      OBVIOUS
    <3>3. Speaks(q, topic)'
      BY <2>2, <3>1, <3>2
    <3>4. Speaks(q, msg[q].topic)'
      BY <3>1, <3>2, <3>3 DEF Speaks
    <3> QED BY <3>1, <3>4 DEF TalkInv
  <2> QED BY <2>1, <2>2
<1> QED BY <1>1, <1>5 DEF TalkInv

\* Nothing is posted, and whoever waits may still speak of what it posted.
LEMMA SilentTalks ==
    ASSUME TalkInv, UNCHANGED <<place, msg, given, late, client, backend>>, DOMAIN retained' = DOMAIN retained,
           listener' \in 0 .. Ended,
           \A s \in Senders : \A topic : Waits(s) /\ Speaks(s, topic) => Speaks(s, topic)'
    PROVE  TalkInv'
<1>1. ClientInv'
  BY DEF TalkInv, ClientInv
<1>2. ASSUME NEW s \in Senders, Waits(s)'
      PROVE  Speaks(s, msg[s].topic)'
  <2>1. PICK topic : topic = msg[s].topic
    OBVIOUS
  <2>2. Speaks(s, topic)'
    BY <1>2, <2>1 DEF TalkInv, Waits
  <2> QED BY <2>1, <2>2 DEF Speaks
<1> QED BY <1>1, <1>2 DEF TalkInv, Waits

\* The listener's tasks are dropped: main, if it waits, is one of them.
LEMMA StopTalks ==
    ASSUME TalkInv, NEW step \in {1, Ended}, StopAt(step), UNCHANGED Client
    PROVE  TalkInv'
<1>1. /\ \A s \in Senders : place'[s] = IF s \in OfListener THEN "none" ELSE place[s]
      /\ \A s \in Senders : msg'[s] = IF s \in OfListener THEN NoMessage ELSE msg[s]
      /\ place' \in [Senders -> {"none", "queued", "held"}] /\ DOMAIN msg' = Senders
      /\ given' = given \union {msg[s] : s \in {r \in OfListener : Waits(r)}}
      /\ late' = late \union {msg[s].topic : s \in {r \in OfListener : Waits(r)}}
      /\ listener' = step /\ UNCHANGED <<client, backend, retained>>
  BY DEF StopAt, Abandon, Client, TalkInv, ClientInv
<1>2. ClientInv'
  BY <1>1 DEF TalkInv, ClientInv
<1>3. ASSUME NEW s \in Senders, Waits(s)'
      PROVE  s \in {"config", "setter"} /\ Waits(s) /\ msg'[s] = msg[s] /\ Speaks(s, msg[s].topic)'
  <2>1. s \notin OfListener /\ Waits(s) /\ msg'[s] = msg[s]
    BY <1>1, <1>3 DEF Waits
  <2>2. s \in {"config", "setter"}
    BY <2>1, MqttAssumption DEF OfListener
  <2>3. Speaks(s, msg[s].topic)
    BY <2>1 DEF TalkInv
  <2> QED BY <2>1, <2>2, <2>3, MqttAssumption DEF Speaks
<1>4. ASSUME NEW s \in OfListener, Waits(s)
      PROVE  /\ msg[s].topic # "config" /\ msg[s] \in Messages
             /\ msg[s].topic \in Kept => msg[s].retain
  <2>1. s \in Senders
    BY TasksAreSenders DEF OfListener
  <2>2. /\ Speaks(s, msg[s].topic) /\ msg[s] \in Messages
        /\ msg[s].topic \in Kept => msg[s].retain
    BY <1>4, <2>1 DEF TalkInv
  <2> QED BY <2>2 DEF Speaks, OfListener
<1>5. given' \subseteq Messages /\ (\A m \in given' : m.topic \in late' /\ (m.topic \in Kept => m.retain)) /\ "config" \notin late'
  BY <1>1, <1>4 DEF TalkInv
<1>6. listener' \in 0 .. Ended
  BY <1>1, Numbers
<1> QED BY <1>1, <1>2, <1>3, <1>5, <1>6 DEF TalkInv

LEMMA ClientTalks ==
    ASSUME TalkInv, CNext, UNCHANGED mqvars
    PROVE  TalkInv'
<1>1. ClientInv'
  BY ClientInvNext DEF TalkInv, Next
<1>2. listener' = listener
  BY DEF mqvars
<1>3. ASSUME NEW s \in Senders, NEW topic, Speaks(s, topic) PROVE Speaks(s, topic)'
  BY <1>2, <1>3 DEF Speaks
<1>4. ASSUME UNCHANGED <<msg, given, late>>, \A s \in Senders : Waits(s)' => Waits(s),
             DOMAIN retained' = Topics, client' \in Seq(Messages),
             \A i \in DOMAIN client' : client'[i].topic \in Kept => client'[i].retain
      PROVE  TalkInv'
  BY <1>1, <1>2, <1>4 DEF TalkInv, Speaks
<1>5. ASSUME NEW m \in Messages, client' = Append(client, m), m.topic \in Kept => m.retain
      PROVE  client' \in Seq(Messages)
             /\ \A i \in DOMAIN client' : client'[i].topic \in Kept => client'[i].retain
  <2>1. /\ DOMAIN client' = 1..(Len(client) + 1) /\ DOMAIN client = 1..Len(client) /\ client' \in Seq(Messages)
        /\ \A i \in DOMAIN client : client'[i] = client[i]
        /\ client'[Len(client) + 1] = m
    BY <1>5, Appended DEF TalkInv
  <2> QED BY <1>5, <2>1 DEF TalkInv
<1>6. \A v \in {"connected", "subscribe"} : Own(v) \in Messages /\ Own(v).topic \notin Kept
  BY MqttAssumption, Numbers DEF Own, Messages
<1>7. CASE Start
  <2>1. client' = Append(client, Own("connected")) /\ UNCHANGED <<place, msg, given, late, retained>>
    BY <1>7 DEF Start, TalkInv, ClientInv
  <2> QED BY <1>4, <1>5, <1>6, <2>1 DEF TalkInv, Waits
<1>8. CASE ConnAck
  <2>1. client' = Append(client, Own("subscribe")) /\ UNCHANGED <<place, msg, given, late, retained>>
    BY <1>8 DEF ConnAck
  <2> QED BY <1>4, <1>5, <1>6, <2>1 DEF TalkInv, Waits
<1>9. CASE Accepted \/ \E s \in Senders : Hold(s)
  <2>1. UNCHANGED <<msg, given, late, client, retained>>
    BY <1>9 DEF Accepted, Hold
  <2>2. \A s \in Senders : Waits(s)' => Waits(s)
    BY <1>9 DEF Accepted, Hold, Waits, TalkInv, ClientInv
  <2> QED BY <1>4, <2>1, <2>2 DEF TalkInv
<1>10. CASE Broker
  <2>1. client # <<>> /\ client' = Tail(client) /\ UNCHANGED <<place, msg, given, late>>
        /\ DOMAIN retained' = DOMAIN retained
    BY <1>10 DEF Broker
  <2>2. client' \in Seq(Messages) /\ \A i \in DOMAIN client' : client'[i] = client[i + 1] /\ i + 1 \in DOMAIN client
    BY <2>1, Tailed DEF TalkInv
  <2>3. \A i \in DOMAIN client' : client'[i].topic \in Kept => client'[i].retain
    BY <2>2 DEF TalkInv
  <2> QED BY <1>4, <2>1, <2>2, <2>3 DEF TalkInv, Waits
<1>11. CASE Drop \/ Reconfigured
  <2>1. client' = <<>> /\ UNCHANGED <<msg, given, late>> /\ DOMAIN retained' = Topics
    BY <1>11 DEF Drop, Reconfigured, Dropped
  <2>2. \A s \in Senders : Waits(s)' => Waits(s)
    BY <1>11 DEF Drop, Reconfigured, Dropped, Waits, TalkInv, ClientInv
  <2>3. client' \in Seq(Messages) /\ DOMAIN client' = {}
    BY <2>1
  <2> QED BY <1>4, <2>1, <2>2, <2>3
<1>12. ASSUME NEW s \in Senders, Take(s) PROVE TalkInv'
  <2>1. /\ place' = [place EXCEPT ![s] = "none"] /\ msg' = [msg EXCEPT ![s] = NoMessage] /\ place[s] = "held"
        /\ client' = Append(client, msg[s]) /\ UNCHANGED <<given, late, retained>>
    BY <1>12 DEF Take
  <2>2. place'[s] = "none" /\ \A r \in Senders \ {s} : place'[r] = place[r] /\ msg'[r] = msg[r]
    BY <2>1 DEF ClientInv, TalkInv
  <2>3. Waits(s) /\ msg[s] \in Messages /\ (msg[s].topic \in Kept => msg[s].retain)
    BY <2>1 DEF Waits, TalkInv
  <2>4. \A r \in Senders : Waits(r)' => Waits(r) /\ msg'[r] = msg[r]
    BY <2>2 DEF Waits
  <2>5. client' \in Seq(Messages)
        /\ \A i \in DOMAIN client' : client'[i].topic \in Kept => client'[i].retain
    BY <1>5, <2>1, <2>3
  <2> QED BY <1>1, <1>2, <2>1, <2>4, <2>5 DEF TalkInv, Speaks
<1>13. ASSUME NEW m \in given, TakeGiven(m) PROVE TalkInv'
  <2>1. m \in Messages /\ (m.topic \in Kept => m.retain) /\ client' = Append(client, m) /\ given' \subseteq given
        /\ UNCHANGED <<place, msg, late, retained>>
    BY <1>13 DEF TakeGiven, TalkInv
  <2>2. client' \in Seq(Messages)
        /\ \A i \in DOMAIN client' : client'[i].topic \in Kept => client'[i].retain
    BY <1>5, <2>1
  <2> QED BY <1>1, <1>2, <2>1, <2>2 DEF TalkInv, Speaks, Waits
<1> QED BY <1>7, <1>8, <1>9, <1>10, <1>11, <1>12, <1>13 DEF CNext

-----------------------------------------------------------------------------
(* What the loops wait for                                                 *)

News == [topic : {"people", "ai"}, val : {"on", "off", "people", "none"}]
Summary(ai) == IF ai = "on" THEN "people" ELSE "none"
Seen == [topic |-> "people", val |-> detect.published]
Sum == [topic |-> "ai", val |-> Summary(detect.published)]

LoopsInv ==
    /\ status \in {"online", "offline"}
    /\ motion \in {"Start", "Stop"}
    /\ world \in [online : BOOLEAN, md : {"Unknown", "Start", "Stop"}, ai : {"unseen", "on", "off"}]
    /\ motion = "Stop" => world.md # "Unknown"
    /\ detect \in [published : {"unseen", "on", "off"}, news : BOOLEAN, heard : BOOLEAN, todo : Seq(News)]
    /\ ~detect.news => detect.published = world.ai
    /\ detect.published # "unseen" => world.ai # "unseen"
    /\ detect.news /\ detect.heard => world.ai # "unseen"
    /\ detect.todo \in {<<>>, <<Seen>>, <<Seen, Sum>>, <<Sum>>}
    /\ ~detect.heard => detect.published = "unseen"
    /\ detect.published = "unseen" => detect.todo = <<>>
    /\ listener # Listen => status = "online" /\ motion = "Start" /\ detect.published = "unseen" /\ ~detect.heard

LEMMA LoopsInit == Init => LoopsInv
<1>1. <<>> \in Seq(News)
  OBVIOUS
<1> QED BY <1>1, Numbers DEF Init, LoopsInv, NewDetect

\* The sequences of at most two that the AI loop makes.
LEMMA Pairs ==
    ASSUME NEW M, NEW x, NEW y
    PROVE  /\ <<>> \o <<>> = <<>> /\ <<x>> \o <<>> = <<x>> /\ <<>> \o <<y>> = <<y>> /\ <<x>> \o <<y>> = <<x, y>>
           /\ Tail(<<x>>) = <<>> /\ Tail(<<y>>) = <<>> /\ Tail(<<x, y>>) = <<y>>
           /\ Head(<<x>>) = x /\ Head(<<y>>) = y /\ Head(<<x, y>>) = x
           /\ <<>> \in Seq(M)
           /\ x \in M /\ y \in M => {<<x>>, <<y>>, <<x, y>>} \subseteq Seq(M)
<1>1. <<>> \o <<>> = <<>>
  OBVIOUS
<1>2. <<x>> \o <<>> = <<x>>
  OBVIOUS
<1>3. <<>> \o <<y>> = <<y>>
  OBVIOUS
<1>4. <<x>> \o <<y>> = <<x, y>>
  <2>1. x \in {x, y} /\ y \in {x, y}
    OBVIOUS
  <2>2. <<x>> \in Seq({x, y})
    BY <2>1
  <2>3. Append(<<x>>, y) = <<x, y>>
    <3>1. /\ Append(<<x>>, y) \in Seq({x, y}) /\ <<x, y>> \in Seq({x, y})
          /\ Len(Append(<<x>>, y)) = 2 /\ Len(<<x, y>>) = 2
          /\ Append(<<x>>, y)[1] = x /\ Append(<<x>>, y)[2] = y
      BY <2>2
    <3>2. \A i \in 1 .. Len(Append(<<x>>, y)) : Append(<<x>>, y)[i] = <<x, y>>[i]
      <4>1. \A i \in 1 .. 2 : i = 1 \/ i = 2
        OBVIOUS
      <4>2. <<x, y>>[1] = x /\ <<x, y>>[2] = y
        OBVIOUS
      <4> QED BY <3>1, <4>1, <4>2
    <3>3. PICK s, t : s = Append(<<x>>, y) /\ t = <<x, y>>
      OBVIOUS
    <3>4. s \in Seq({x, y}) /\ t \in Seq({x, y}) /\ Len(s) = Len(t) /\ \A i \in 1 .. Len(s) : s[i] = t[i]
      BY <3>1, <3>2, <3>3
    <3>5. s = t
      BY <3>4, SeqEqual
    <3> QED BY <3>3, <3>5
  <2> QED BY <2>2, <2>3, AppendIsConcat
<1>5. Tail(<<x>>) = <<>> 
  OBVIOUS
<1>6. Tail(<<y>>) = <<>> 
  OBVIOUS
<1>7. Tail(<<x, y>>) = <<y>> 
  OBVIOUS
<1>8. Head(<<x>>) = x /\ Head(<<y>>) = y /\ Head(<<x, y>>) = x
  OBVIOUS
<1>9. <<>> \in Seq(M)
  OBVIOUS
<1>10. x \in M /\ y \in M => {<<x>>, <<y>>, <<x, y>>} \subseteq Seq(M)
  OBVIOUS
<1> QED BY <1>1, <1>2, <1>3, <1>4, <1>5, <1>6, <1>7, <1>8, <1>9, <1>10

LEMMA LoopsNext == TalkInv /\ LoopsInv /\ [Next]_vars => LoopsInv'
<1> SUFFICES ASSUME TalkInv, LoopsInv, [Next]_vars PROVE LoopsInv'
  OBVIOUS
<1>1. ASSUME UNCHANGED <<listener, status, motion, detect, world>> PROVE LoopsInv'
  BY <1>1 DEF LoopsInv, Seen, Sum
<1>2. CASE \/ CNext /\ UNCHANGED mqvars
           \/ PostConfig \/ SetConfig \/ SetBehind
           \/ UNCHANGED vars
           \/ \E h \in Handlers : Read(h) \/ Reply(h)
           \/ \E request \in Requests : Ask(request)
           \/ \E new \in Configs \union {"bad"} : Configure(new)
  BY <1>1, <1>2 DEF mqvars, vars, PostConfig, SetConfig, SetBehind, Read, Reply, Ask, Configure, Tasks, World
<1>3. ASSUME NEW step, StopAt(step), world' = world, step # Listen PROVE LoopsInv'
  <2>1. status' = "online" /\ motion' = "Start" /\ detect' = NewDetect /\ listener' # Listen
    BY <1>3 DEF StopAt
  <2>2. <<>> \in Seq(News)
    OBVIOUS
  <2> QED BY <1>3, <2>1, <2>2 DEF LoopsInv, NewDetect
<1>4. CASE Supervise
  <2>1. CASE Enabled
    <3>1. UNCHANGED <<status, motion, detect, world>> /\ listener' = IF listener = None THEN 1 ELSE listener
      BY <1>4, <2>1 DEF Supervise, Tasks, World
    <3> QED BY <3>1, Numbers DEF LoopsInv, Seen, Sum
  <2>2. CASE ~Enabled
    BY <1>3, <1>4, <2>2, Numbers DEF Supervise, World
  <2> QED BY <2>1, <2>2
<1>5. CASE Again \/ Behind
  BY <1>3, <1>5, Numbers DEF Again, Behind, World
<1>6. CASE Seed
  <2>1. UNCHANGED <<status, motion, detect, world>> /\ listener' = listener + 1 /\ listener \in 1..7
    BY <1>6, Numbers DEF Seed, Tasks, World
  <2> QED BY <2>1, Numbers DEF LoopsInv, Seen, Sum
<1>7. CASE StartTasks
  <2>1. UNCHANGED <<status, motion, detect, world>> /\ listener # Listen
    BY <1>7, Numbers DEF StartTasks, Tasks, World
  <2> QED BY <2>1 DEF LoopsInv, Seen, Sum
<1>8. CASE ConnectLoop \/ MotionLoop
  <2>1. UNCHANGED <<listener, detect, world>> /\ listener = Listen
    BY <1>8 DEF ConnectLoop, MotionLoop, Publish, World
  <2>2. status' \in {"online", "offline"} /\ motion' \in {"Start", "Stop"}
        /\ (motion' = "Stop" => world.md # "Unknown")
    BY <1>8 DEF ConnectLoop, MotionLoop, LoopsInv
  <2> QED BY <2>1, <2>2 DEF LoopsInv, Seen, Sum
<1>9. CASE AiLook
  <2>1. UNCHANGED <<listener, status, motion, world>> /\ listener = Listen /\ detect.todo = <<>> /\ detect.news
    BY <1>9 DEF AiLook, World
  <2>2. PICK type, summary :
          /\ detect' = [published |-> world.ai, news |-> FALSE, heard |-> TRUE, todo |-> type \o summary]
          /\ type = IF world.ai \in {"unseen", detect.published} THEN <<>>
                    ELSE << [topic |-> "people", val |-> world.ai] >>
          /\ summary = IF ~detect.heard THEN <<>>
                       ELSE << [topic |-> "ai", val |-> IF world.ai = "on" THEN "people" ELSE "none"] >>
    BY <1>9 DEF AiLook
  <2> DEFINE todo == type \o summary
  <2>3. /\ detect'.published = world.ai /\ detect'.news = FALSE /\ detect'.heard = TRUE /\ detect'.todo = todo
        /\ Seen' = [topic |-> "people", val |-> world.ai]
        /\ Sum' = [topic |-> "ai", val |-> Summary(world.ai)]
    BY <2>2 DEF Seen, Sum
  <2>4. todo \in {<<>>, <<Seen'>>, <<Seen', Sum'>>, <<Sum'>>}
    <3>1. type \in {<<>>, <<Seen'>>} /\ summary \in {<<>>, <<Sum'>>}
      BY <2>2, <2>3 DEF Summary
    <3>2. PICK x, y : x = Seen' /\ y = Sum'
      OBVIOUS
    <3> QED BY <3>1, <3>2, Pairs
  <2>5. world.ai = "unseen" => todo = <<>>
    BY <2>1, <2>2, Pairs DEF LoopsInv
  <2>6. world.ai # "unseen" => Seen' \in News /\ Sum' \in News
    BY <2>3 DEF News, Summary, LoopsInv
  <2>7. todo \in Seq(News)
    <3>1. PICK x, y : x = Seen' /\ y = Sum'
      OBVIOUS
    <3> HIDE DEF todo
    <3>2. CASE todo = <<>>
      BY <3>2
    <3>3. CASE todo # <<>>
      <4>1. x \in News /\ y \in News
        BY <2>5, <2>6, <3>1, <3>3
      <4>2. todo \in {<<x>>, <<x, y>>, <<y>>}
        BY <2>4, <3>1, <3>3
      <4>3. <<x>> \in Seq(News) /\ <<x, y>> \in Seq(News) /\ <<y>> \in Seq(News)
        BY <4>1
      <4> QED BY <4>2, <4>3
    <3> QED BY <3>2, <3>3
  <2> HIDE DEF todo
  <2> QED BY <2>1, <2>2, <2>3, <2>4, <2>5, <2>7 DEF LoopsInv
<1>10. CASE AiSend
  <2>1. UNCHANGED <<listener, status, motion, world>> /\ listener = Listen /\ detect.todo # <<>>
        /\ detect' = [detect EXCEPT !.todo = Tail(@)]
    BY <1>10 DEF AiSend, Publish, World
  <2>2. /\ detect'.published = detect.published /\ detect'.news = detect.news /\ detect'.heard = detect.heard
        /\ detect'.todo = Tail(detect.todo) /\ Seen' = Seen /\ Sum' = Sum
    BY <2>1 DEF LoopsInv, Seen, Sum
  <2>3. Tail(detect.todo) \in {<<>>, <<Sum>>} /\ Tail(detect.todo) \in Seq(News)
    <3>1. detect.todo \in Seq(News) /\ detect.todo \in {<<Seen>>, <<Seen, Sum>>, <<Sum>>}
      BY <2>1 DEF LoopsInv
    <3>2. PICK x, y : x = Seen /\ y = Sum
      OBVIOUS
    <3>3. Tail(detect.todo) \in {<<>>, <<Sum>>}
      <4>1. Tail(<<x>>) = <<>> /\ Tail(<<x, y>>) = <<y>> /\ Tail(<<y>>) = <<>>
        BY Pairs
      <4> QED BY <3>1, <3>2, <4>1
    <3> QED BY <2>1, <3>1, <3>3
  <2> QED BY <2>1, <2>2, <2>3 DEF LoopsInv
<1>11. CASE Change
  <2>1. UNCHANGED <<listener, status, motion>>
    BY <1>11 DEF Change
  <2>2. CASE world' = [world EXCEPT !.online = ~@] /\ UNCHANGED detect
    BY <2>1, <2>2 DEF LoopsInv, Seen, Sum
  <2>3. ASSUME NEW md \in {"Start", "Stop"}, world' = [world EXCEPT !.md = md], UNCHANGED detect PROVE LoopsInv'
    BY <2>1, <2>3 DEF LoopsInv, Seen, Sum
  <2>4. ASSUME NEW ai \in {"on", "off"}, world' = [world EXCEPT !.ai = ai],
               detect' = [detect EXCEPT !.news = TRUE]
        PROVE LoopsInv'
    <3>1. /\ detect'.published = detect.published /\ detect'.news = TRUE /\ detect'.heard = detect.heard
          /\ detect'.todo = detect.todo /\ Seen' = Seen /\ Sum' = Sum
          /\ world'.ai = ai /\ world'.md = world.md
          /\ world' \in [online : BOOLEAN, md : {"Unknown", "Start", "Stop"}, ai : {"unseen", "on", "off"}]
          /\ detect' \in [published : {"unseen", "on", "off"}, news : BOOLEAN, heard : BOOLEAN, todo : Seq(News)]
      BY <2>4 DEF LoopsInv, Seen, Sum
    <3> QED BY <2>1, <2>4, <3>1 DEF LoopsInv
  <2> QED BY <1>11, <2>2, <2>3, <2>4 DEF Change
<1> QED BY <1>2, <1>4, <1>5, <1>6, <1>7, <1>8, <1>9, <1>10, <1>11 DEF Next

\* The configuration in use is one; the loops' values are among those of messages.
LEMMA ConfigNext == config \in Configs /\ [Next]_vars => config' \in Configs
<1> SUFFICES ASSUME config \in Configs, [Next]_vars PROVE config' \in Configs
  OBVIOUS
<1>1. CASE SetConfig
  BY <1>1 DEF SetConfig
<1>2. CASE ~SetConfig
  BY <1>2 DEF Next, vars, mqvars, Supervise, Again, Seed, StartTasks, ConnectLoop, MotionLoop, Publish,
              AiLook, AiSend, Behind, PostConfig, SetBehind, Change, Read, Reply, Ask, Configure, World
<1> QED BY <1>1, <1>2

\* What is seeded.
LEMMA SeedsAre ==
    /\ Seeds[1].topic = "status" /\ Seeds[1].val = "disconnected" /\ ~Seeds[1].will
    /\ Seeds[2].will /\ Seeds[4].will /\ Seeds[7].will
    /\ Seeds[3].topic = "motion" /\ Seeds[3].val = "unknown" /\ ~Seeds[3].will
    /\ Seeds[5].topic = "ai" /\ Seeds[5].val = "unknown" /\ ~Seeds[5].will
    /\ Seeds[6].topic = "people" /\ Seeds[6].val = "unknown" /\ ~Seeds[6].will
  BY DEF Seeds

LEMMA SeedsTalk ==
    ASSUME NEW k \in 1..7, ~Seeds[k].will
    PROVE  /\ Seeds[k].topic \in {"status", "motion", "ai", "people"}
           /\ Seeds[k].val \in {"disconnected", "unknown"}
<1>1. k \in {1, 2, 3, 4, 5, 6, 7}
  OBVIOUS
<1> QED BY <1>1, SeedsAre

LEMMA TalkNext == TalkInv /\ LoopsInv /\ config \in Configs /\ [Next]_vars => TalkInv'
<1> SUFFICES ASSUME TalkInv, LoopsInv, config \in Configs, [Next]_vars PROVE TalkInv'
  OBVIOUS
<1>0. /\ listener \in 0 .. Ended
      /\ \A v \in {"disconnected", "connected", "unknown", "on", "off", "people", "none", "OK", "FAIL"} \union Configs,
           t \in Kept \union {"control", "config/status"}, r \in BOOLEAN :
             [topic |-> t, val |-> v, retain |-> r] \in Messages
  BY MqttAssumption, Numbers DEF TalkInv, Messages
<1>1. CASE UNCHANGED vars
  BY <1>1 DEF vars, cvars, mqvars, TalkInv, ClientInv, Speaks, Waits
<1>2. CASE CNext /\ UNCHANGED mqvars
  BY <1>2, ClientTalks
<1>3. CASE Supervise
  <2>1. CASE Enabled
    <3>1. /\ listener' = IF listener = None THEN 1 ELSE listener
          /\ UNCHANGED <<place, msg, given, late, client, backend, retained>>
      BY <1>3, <2>1 DEF Supervise, Client
    <3>2. \A s \in Senders : \A topic : Speaks(s, topic) => Speaks(s, topic)'
      BY <3>1, Numbers DEF Speaks
    <3> QED BY <1>0, <3>1, <3>2, Numbers, SilentTalks
  <2>2. CASE ~Enabled
    BY <1>3, <2>2, StopTalks DEF Supervise
  <2> QED BY <2>1, <2>2
<1>4. CASE Again \/ Behind
  BY <1>4, StopTalks DEF Again, Behind
<1>5. CASE Seed
  <2>1. /\ listener \in 1..7 /\ listener' = listener + 1
        /\ UNCHANGED <<given, late, client, backend, retained>>
    BY <1>5, Numbers DEF Seed
  <2>2. \A s \in Senders : \A topic : Speaks(s, topic) => Speaks(s, topic)'
    BY <2>1, Numbers DEF Speaks
  <2>3. CASE UNCHANGED <<place, msg>>
    BY <2>1, <2>2, <2>3, Numbers, SilentTalks
  <2>4. CASE ~Seeds[listener].will /\ Post("main", Seeds[listener].topic, Seeds[listener].val, TRUE)
    <3>1. PICK t, v : t = Seeds[listener].topic /\ v = Seeds[listener].val
      OBVIOUS
    <3>2. t \in {"status", "motion", "ai", "people"} /\ v \in {"disconnected", "unknown"}
      BY <2>1, <2>4, <3>1, SeedsTalk
    <3>3. [topic |-> t, val |-> v, retain |-> TRUE] \in Messages
      BY <1>0, <3>2 DEF Kept
    <3>4. Speaks("main", t)'
      BY <2>1, <3>2, Numbers, MqttAssumption DEF Speaks
    <3>5. Post("main", t, v, TRUE) /\ "main" \in Senders /\ listener' \in 0 .. Ended
      <4>1. Post("main", t, v, TRUE)
        BY <2>4, <3>1 DEF Post
      <4>2. listener' \in 0 .. Ended
        BY <2>1, Numbers
      <4> QED BY <4>1, <4>2, TasksAreSenders
    <3> QED BY <2>1, <2>2, <3>3, <3>4, <3>5, PostTalks
  <2> QED BY <1>5, <2>3, <2>4 DEF Seed
<1>6. CASE StartTasks
  <2>1. /\ ~Waits("main") /\ listener = Seeded /\ listener' = Listen
        /\ UNCHANGED <<place, msg, given, late, client, backend, retained>>
    BY <1>6 DEF StartTasks, Client
  <2>2. \A s \in Senders : \A topic : Waits(s) /\ Speaks(s, topic) => Speaks(s, topic)'
    BY <2>1, Numbers DEF Speaks
  <2> QED BY <2>1, <2>2, Numbers, SilentTalks
<1>7. ASSUME UNCHANGED <<place, msg, given, late, client, backend, retained, listener>>
      PROVE  TalkInv'
  <2>1. \A s \in Senders : \A topic : Speaks(s, topic) => Speaks(s, topic)'
    BY <1>7 DEF Speaks
  <2> QED BY <1>0, <1>7, <2>1, SilentTalks DEF Ended, Listen, Seeded
<1>8. CASE AiLook \/ SetBehind \/ Change
  BY <1>7, <1>8 DEF AiLook, SetBehind, Change, cvars
<1>9. ASSUME NEW s \in Senders, NEW t \in Kept \union {"control", "config/status"},
             NEW v \in {"disconnected", "connected", "unknown", "on", "off", "people", "none", "OK", "FAIL"} \union Configs,
             NEW r \in BOOLEAN, Post(s, t, v, r), Speaks(s, t), t \in Kept => r,
             UNCHANGED <<given, late, client, backend, retained, listener>>
      PROVE  TalkInv'
  <2>1. \A q \in Senders : \A topic : Speaks(q, topic) => Speaks(q, topic)'
    BY <1>9 DEF Speaks
  <2>2. listener' \in 0 .. Ended
    BY <1>0, <1>9 DEF Ended, Listen, Seeded
  <2>3. Speaks(s, t)'
    BY <1>9, <2>1
  <2> QED BY <1>0, <1>9, <2>1, <2>2, <2>3, PostTalks
<1>10. listener = Listen => /\ Speaks("status", "status") /\ Speaks("motion", "motion")
                            /\ Speaks("ai", "ai") /\ Speaks("ai", "people")
  BY Numbers, MqttAssumption DEF Speaks
<1>11. /\ Speaks("config", "config") /\ Speaks("setter", "config/status")
       /\ \A h \in Handlers : Speaks(h, "control")
  BY MqttAssumption DEF Speaks
<1>12. CASE ConnectLoop
  <2>1. /\ listener = Listen /\ UNCHANGED <<given, late, client, backend, retained, listener>>
        /\ \E v \in {"connected", "disconnected"} : Post("status", "status", v, TRUE)
    BY <1>12 DEF ConnectLoop, Publish, Client
  <2> QED BY <1>9, <1>10, <2>1, TasksAreSenders DEF Kept
<1>13. CASE MotionLoop
  <2>1. /\ listener = Listen /\ UNCHANGED <<given, late, client, backend, retained, listener>>
        /\ \E v \in {"on", "off"} : Post("motion", "motion", v, TRUE)
    BY <1>13 DEF MotionLoop, Publish, Client
  <2> QED BY <1>9, <1>10, <2>1, TasksAreSenders DEF Kept
<1>14. CASE AiSend
  <2>1. /\ listener = Listen /\ UNCHANGED <<given, late, client, backend, retained, listener>>
        /\ Post("ai", Head(detect.todo).topic, Head(detect.todo).val, TRUE)
        /\ detect.todo # <<>> /\ detect.todo \in Seq(News)
    BY <1>14 DEF AiSend, Publish, Client, LoopsInv
  <2>2. Head(detect.todo) \in News
    BY <2>1
  <2>3. PICK t, v : t = Head(detect.todo).topic /\ v = Head(detect.todo).val
    OBVIOUS
  <2>4. t \in {"people", "ai"} /\ v \in {"on", "off", "people", "none"} /\ Post("ai", t, v, TRUE)
    BY <2>1, <2>2, <2>3 DEF News
  <2> QED BY <1>9, <1>10, <2>1, <2>4, TasksAreSenders DEF Kept
<1>15. CASE PostConfig
  <2>1. /\ UNCHANGED <<given, late, client, backend, retained, listener>>
        /\ Post("config", "config", config, TRUE)
    BY <1>15 DEF PostConfig, Client
  <2> QED BY <1>9, <1>11, <2>1, TasksAreSenders DEF Kept
<1>16. CASE SetConfig
  <2>1. /\ UNCHANGED <<given, late, client, backend, retained, listener>>
        /\ UNCHANGED <<place, msg>> \/ \E v \in {"OK", "FAIL"} : Post("setter", "config/status", v, FALSE)
    BY <1>16 DEF SetConfig, Client
  <2> QED BY <1>7, <1>9, <1>11, <2>1, TasksAreSenders, Numbers
<1>17. ASSUME NEW h \in Handlers, Read(h) \/ Reply(h) PROVE TalkInv'
  <2>1. /\ UNCHANGED <<given, late, client, backend, retained, listener>>
        /\ UNCHANGED <<place, msg>> \/ \E v \in {"OK", "FAIL"} : Post(h, "control", v, FALSE)
    BY <1>17 DEF Read, Reply, Client, Replies
  <2> QED BY <1>7, <1>9, <1>11, <2>1, TasksAreSenders, Numbers
<1>18. CASE \E request \in Requests : Ask(request)
  BY <1>7, <1>18 DEF Ask, Client
<1>19. ASSUME NEW new, Configure(new) PROVE TalkInv'
  <2>1. UNCHANGED <<place, msg, given, late, client, backend, listener>> /\ DOMAIN retained' = DOMAIN retained
    BY <1>19 DEF Configure
  <2>2. \A s \in Senders : \A topic : Speaks(s, topic) => Speaks(s, topic)'
    BY <2>1 DEF Speaks
  <2>3. listener' \in 0 .. Ended
    BY <1>0, <2>1 DEF Ended, Listen, Seeded
  <2> QED BY <2>1, <2>2, <2>3, SilentTalks
<1> QED BY <1>1, <1>2, <1>3, <1>4, <1>5, <1>6, <1>8, <1>12, <1>13, <1>14, <1>15, <1>16, <1>17, <1>18, <1>19 DEF Next

-----------------------------------------------------------------------------
(* What was last said of each topic                                        *)

FollowsStatus ==
    listener \in 2 .. Listen /\ "status" \notin late =>
        /\ status = "online" => Says("status", {"disconnected"})
        /\ status = "offline" => Says("status", {"connected"})
FollowsMotion ==
    listener \in 4 .. Listen /\ "motion" \notin late =>
        /\ motion = "Stop" => Says("motion", {"on"})
        /\ motion = "Start" => Says("motion", {"off", "unknown"})

\* Unless a detection, or a summary, is yet to be sent.
FollowsPeople ==
    listener \in 7 .. Listen /\ "people" \notin late /\ detect.todo \in {<<>>, <<Sum>>} =>
        /\ detect.published = "unseen" => Says("people", {"unknown"})
        /\ detect.published = "on" => Says("people", {"on"})
        /\ detect.published = "off" => Says("people", {"off"})
FollowsAi ==
    listener \in 6 .. Listen /\ "ai" \notin late /\ detect.todo \in {<<>>, <<Seen>>} =>
        /\ detect.published = "unseen" => Says("ai", {"unknown"})
        /\ detect.published = "on" => Says("ai", {"unknown", "people"})
        /\ detect.published = "off" => Says("ai", {"unknown", "none"})
FollowsConfig == \A c : posted = c => Says("config", {c})

MqttInv ==
    /\ TalkInv /\ LoopsInv /\ config \in Configs
    /\ FollowsStatus /\ FollowsMotion /\ FollowsPeople /\ FollowsAi /\ FollowsConfig

LEMMA SaysMore ==
    ASSUME NEW t, NEW V, NEW W, V \subseteq W, Says(t, V)
    PROVE  Says(t, W)
  BY DEF Says

\* Who may be waiting to speak of a topic.
LEMMA Voices ==
    ASSUME TalkInv, NEW s \in Senders, Waits(s)
    PROVE  /\ msg[s].topic = "status" => (s = "main" /\ listener <= 8) \/ (s = "status" /\ listener = 9)
           /\ msg[s].topic = "motion" => (s = "main" /\ listener <= 8) \/ (s = "motion" /\ listener = 9)
           /\ msg[s].topic \in {"ai", "people"} => (s = "main" /\ listener <= 8) \/ (s = "ai" /\ listener = 9)
           /\ msg[s].topic = "config" => s = "config"
<1>1. Speaks(s, msg[s].topic)
  BY DEF TalkInv
<1>2. s \in {"main", "status", "motion", "ai", "config", "setter"} \/ s \in Handlers
  BY MqttAssumption
<1> QED BY <1>1, <1>2, Numbers DEF Speaks

\* What a step may do to the listener and its loops while it is not dropped.
LEMMA Moves ==
    ASSUME LoopsInv, [Next]_vars, listener' \in 2 .. Listen
    PROVE  /\ \/ Seed /\ listener \in 1 .. 7 /\ listener' = listener + 1
              \/ listener' = listener
              \/ listener = 8 /\ listener' = 9 /\ StartTasks
           /\ status' = status \/ ConnectLoop
           /\ motion' = motion \/ MotionLoop
           /\ \/ detect' = detect
              \/ AiLook \/ AiSend
              \/ Change /\ detect' = [detect EXCEPT !.news = TRUE]
<1>1. ASSUME NEW step, StopAt(step) PROVE listener' = step
  BY <1>1 DEF StopAt
<1>2. CASE Supervise
  <2>1. Enabled
    BY <1>1, <1>2, Numbers DEF Supervise
  <2>2. listener' = IF listener = None THEN 1 ELSE listener
    BY <1>2, <2>1 DEF Supervise
  <2> QED BY <1>2, <2>1, <2>2, Numbers DEF Supervise, Tasks
<1>3. CASE Again \/ Behind
  BY <1>1, <1>3, Numbers DEF Again, Behind
<1>4. CASE Seed
  BY <1>4, Numbers DEF Seed, Tasks
<1>5. CASE StartTasks
  BY <1>5, Numbers DEF StartTasks, Tasks
<1>6. CASE ConnectLoop \/ MotionLoop \/ AiLook \/ AiSend
  BY <1>6 DEF ConnectLoop, MotionLoop, AiLook, AiSend, Publish
<1>7. CASE Change
  BY <1>7 DEF Change
<1>8. CASE \/ CNext /\ UNCHANGED mqvars
           \/ PostConfig \/ SetConfig \/ SetBehind
           \/ UNCHANGED vars
           \/ \E h \in Handlers : Read(h) \/ Reply(h)
           \/ \E request \in Requests : Ask(request)
           \/ \E new \in Configs \union {"bad"} : Configure(new)
  BY <1>8 DEF mqvars, vars, PostConfig, SetConfig, SetBehind, Read, Reply, Ask, Configure, Tasks, World
<1> QED BY <1>2, <1>3, <1>4, <1>5, <1>6, <1>7, <1>8 DEF Next

LEMMA StatusNext == MqttInv /\ [Next]_vars => FollowsStatus'
<1> SUFFICES ASSUME MqttInv, [Next]_vars, listener' \in 2 .. Listen, "status" \notin late'
             PROVE  /\ status' = "online" => Says("status", {"disconnected"})'
                    /\ status' = "offline" => Says("status", {"connected"})'
  BY Numbers DEF FollowsStatus, Listen, Seeded, Seeds
<1>0. TalkInv /\ LoopsInv /\ LoopsInv' /\ ClientInv /\ late \subseteq late' /\ "status" \in Kept
  BY LoopsNext, LateGrows DEF MqttInv, TalkInv, Kept
<1>1. CASE Utters("status") /\ Seed
  <2>1. listener \in 1..7 /\ listener' = listener + 1 /\ ~AiSend /\ ~ConnectLoop
    <3>1. listener \in 1..7 /\ listener' = listener + 1
      BY <1>1, Numbers DEF Seed
    <3>2. AiSend \/ ConnectLoop => listener = 9
      BY Numbers DEF AiSend, ConnectLoop, Publish
    <3> QED BY <3>1, <3>2
  <2>2. ~Seeds[listener].will /\ Seeds[listener].topic = "status"
    BY <1>1, <2>1 DEF Utters
  <2>3. listener = 1
    <3>1. listener \in {1, 2, 3, 4, 5, 6, 7}
      BY <2>1
    <3> QED BY <2>2, <3>1, SeedsAre
  <2>4. Post("main", "status", "disconnected", TRUE)
    BY <1>1, <2>2, <2>3, SeedsAre DEF Seed
  <2>5. \A other \in Senders \ {"main"} : ~(Waits(other) /\ msg[other].topic = "status")
    BY <1>0, <2>3, Voices
  <2>6. Says("status", {"disconnected"})'
    BY <1>0, <2>4, <2>5, PostedSays, TasksAreSenders
  <2>7. status' = "online"
    BY <1>0, <2>1, Numbers DEF LoopsInv
  <2> QED BY <2>6, <2>7
<1>2. CASE ConnectLoop
  <2>1. listener = 9 /\ \/ status' = "offline" /\ Post("status", "status", "connected", TRUE)
                        \/ status' = "online" /\ Post("status", "status", "disconnected", TRUE)
    BY <1>2, Numbers DEF ConnectLoop, Publish
  <2>2. \A other \in Senders \ {"status"} : ~(Waits(other) /\ msg[other].topic = "status")
    BY <1>0, <2>1, Voices
  <2>3. \A v : Post("status", "status", v, TRUE) => Says("status", {v})'
    BY <1>0, <2>2, PostedSays, TasksAreSenders
  <2> QED BY <2>1, <2>3
<1>3. CASE ~Utters("status")
  <2>1. \A V : Says("status", V) => Says("status", V)'
    BY <1>0, <1>3, OthersSay
  <2>2. ~ConnectLoop /\ status' = status
    BY <1>0, <1>3, Moves DEF Utters
  <2>3. listener \in 2 .. Listen /\ "status" \notin late
    <3>1. ASSUME Seed, listener = 1 PROVE FALSE
      BY <1>3, <3>1, SeedsAre DEF Utters
    <3> QED BY <1>0, <3>1, Moves, Numbers
  <2> QED BY <2>1, <2>2, <2>3 DEF MqttInv, FollowsStatus
<1>4. CASE AiSend /\ Head(detect.todo).topic = "status"
  <2>1. detect.todo # <<>> /\ detect.todo \in Seq(News)
    BY <1>0, <1>4 DEF AiSend, LoopsInv
  <2>2. Head(detect.todo) \in News
    BY <2>1
  <2> QED BY <1>4, <2>2 DEF News
<1> QED BY <1>1, <1>2, <1>3, <1>4 DEF Utters

LEMMA MotionNext == MqttInv /\ [Next]_vars => FollowsMotion'
<1> SUFFICES ASSUME MqttInv, [Next]_vars, listener' \in 4 .. Listen, "motion" \notin late'
             PROVE  /\ motion' = "Stop" => Says("motion", {"on"})'
                    /\ motion' = "Start" => Says("motion", {"off", "unknown"})'
  BY Numbers DEF FollowsMotion, Listen, Seeded, Seeds
<1>0. TalkInv /\ LoopsInv /\ LoopsInv' /\ ClientInv /\ late \subseteq late' /\ "motion" \in Kept
      /\ listener' \in 2 .. Listen
  BY LoopsNext, LateGrows, Numbers DEF MqttInv, TalkInv, Kept
<1>1. CASE Utters("motion") /\ Seed
  <2>1. listener \in 1..7 /\ listener' = listener + 1 /\ ~AiSend /\ ~MotionLoop
    <3>1. listener \in 1..7 /\ listener' = listener + 1
      BY <1>1, Numbers DEF Seed
    <3>2. AiSend \/ MotionLoop => listener = 9
      BY Numbers DEF AiSend, MotionLoop, Publish
    <3> QED BY <3>1, <3>2
  <2>2. ~Seeds[listener].will /\ Seeds[listener].topic = "motion"
    BY <1>1, <2>1 DEF Utters
  <2>3. listener = 3
    <3>1. listener \in {1, 2, 3, 4, 5, 6, 7}
      BY <2>1
    <3> QED BY <2>2, <3>1, SeedsAre
  <2>4. Post("main", "motion", "unknown", TRUE)
    BY <1>1, <2>2, <2>3, SeedsAre DEF Seed
  <2>5. \A other \in Senders \ {"main"} : ~(Waits(other) /\ msg[other].topic = "motion")
    BY <1>0, <2>3, Voices
  <2>6. Says("motion", {"off", "unknown"})'
    <3>1. "unknown" \in {"off", "unknown"} /\ "main" \in Senders
      BY TasksAreSenders
    <3> QED BY <1>0, <2>4, <2>5, <3>1, PostedSays
  <2>7. motion' = "Start"
    BY <1>0, <2>1, Numbers DEF LoopsInv
  <2> QED BY <2>6, <2>7
<1>2. CASE MotionLoop
  <2>1. listener = 9 /\ \/ motion' = "Stop" /\ Post("motion", "motion", "on", TRUE)
                        \/ motion' = "Start" /\ Post("motion", "motion", "off", TRUE)
    BY <1>2, Numbers DEF MotionLoop, Publish
  <2>2. \A other \in Senders \ {"motion"} : ~(Waits(other) /\ msg[other].topic = "motion")
    BY <1>0, <2>1, Voices
  <2>3. \A v, V : Post("motion", "motion", v, TRUE) /\ v \in V => Says("motion", V)'
    BY <1>0, <2>2, PostedSays, TasksAreSenders
  <2> QED BY <2>1, <2>3
<1>3. CASE ~Utters("motion")
  <2>1. \A V : Says("motion", V) => Says("motion", V)'
    BY <1>0, <1>3, OthersSay
  <2>2. motion' = motion
    BY <1>0, <1>3, Moves DEF Utters
  <2>3. listener \in 4 .. Listen /\ "motion" \notin late
    <3>1. ASSUME Seed, listener = 3 PROVE FALSE
      BY <1>3, <3>1, SeedsAre DEF Utters
    <3> QED BY <1>0, <3>1, Moves, Numbers
  <2> QED BY <2>1, <2>2, <2>3 DEF MqttInv, FollowsMotion
<1>4. CASE AiSend /\ Head(detect.todo).topic = "motion"
  <2>1. detect.todo # <<>> /\ detect.todo \in Seq(News)
    BY <1>0, <1>4 DEF AiSend, LoopsInv
  <2>2. Head(detect.todo) \in News
    BY <2>1
  <2> QED BY <1>4, <2>2 DEF News
<1> QED BY <1>1, <1>2, <1>3, <1>4 DEF Utters

\* What the AI loop has to send after it has looked: a detection if it is not that last
\* published, a summary after the first time.
LEMMA LookMakes ==
    ASSUME LoopsInv, AiLook
    PROVE  /\ detect.todo = <<>> /\ listener = 9 /\ listener' = 9
           /\ detect'.todo \in {<<>>, <<Sum'>>} => detect'.published = detect.published
           /\ detect'.todo \in {<<>>, <<Seen'>>} => detect.published = "unseen"
<1>1. listener = 9 /\ listener' = 9 /\ detect.todo = <<>> /\ detect.news
  BY Numbers DEF AiLook
<1>2. PICK type, summary :
        /\ detect' = [published |-> world.ai, news |-> FALSE, heard |-> TRUE, todo |-> type \o summary]
        /\ type = IF world.ai \in {"unseen", detect.published} THEN <<>>
                  ELSE << [topic |-> "people", val |-> world.ai] >>
        /\ summary = IF ~detect.heard THEN <<>>
                     ELSE << [topic |-> "ai", val |-> IF world.ai = "on" THEN "people" ELSE "none"] >>
  BY DEF AiLook
<1>3. /\ detect'.published = world.ai /\ detect'.todo = type \o summary
      /\ Seen' = [topic |-> "people", val |-> world.ai]
      /\ Sum' = [topic |-> "ai", val |-> Summary(world.ai)]
  BY <1>2 DEF Seen, Sum
<1>4. PICK x, y : x = Seen' /\ y = Sum'
  OBVIOUS
<1>5. x.topic = "people" /\ y.topic = "ai"
  BY <1>3, <1>4
<1>6. type \in {<<>>, <<x>>} /\ summary \in {<<>>, <<y>>}
      /\ (type = <<>> => world.ai \in {"unseen", detect.published})
      /\ (summary = <<>> => ~detect.heard)
  BY <1>2, <1>3, <1>4 DEF Summary
<1>7. /\ <<x>> # <<>> /\ <<x, y>> # <<>> /\ <<x, y>> # <<y>> /\ <<x>> # <<y>> /\ <<y>> # <<>> /\ <<x, y>> # <<x>>
  <2>1. <<x>> # <<y>> /\ <<x, y>> # <<y>>
    BY <1>5, Pairs
  <2> QED BY <2>1
<1>8. type \o summary \in {<<>>, <<y>>} => type = <<>>
  BY <1>6, <1>7, Pairs
<1>9. type \o summary \in {<<>>, <<x>>} => summary = <<>>
  BY <1>6, <1>7, Pairs
<1> QED BY <1>1, <1>3, <1>4, <1>6, <1>8, <1>9 DEF LoopsInv

\* What it sends: a detection, or else the summary, which is the last.
LEMMA SendMakes ==
    ASSUME LoopsInv, AiSend
    PROVE  /\ listener = 9 /\ detect'.published = detect.published /\ detect.published \in {"on", "off"}
           /\ \/ /\ Post("ai", "people", detect.published, TRUE) /\ Head(detect.todo).topic = "people"
                 /\ \/ detect.todo = <<Seen>>
                    \/ ~(detect'.todo \in {<<>>, <<Seen'>>})
              \/ /\ Post("ai", "ai", Summary(detect.published), TRUE) /\ Head(detect.todo).topic = "ai"
                 /\ detect.todo = <<Sum>>
<1>1. /\ detect.todo # <<>> /\ detect' = [detect EXCEPT !.todo = Tail(@)] /\ listener = 9
      /\ Post("ai", Head(detect.todo).topic, Head(detect.todo).val, TRUE)
  BY Numbers DEF AiSend, Publish
<1>2. /\ detect'.published = detect.published /\ detect'.todo = Tail(detect.todo) /\ Seen' = Seen
      /\ detect.todo \in {<<Seen>>, <<Seen, Sum>>, <<Sum>>} /\ detect.published \in {"on", "off"}
  BY <1>1 DEF LoopsInv, Seen
<1>3. PICK x, y : x = Seen /\ y = Sum
  OBVIOUS
<1>4. x.topic = "people" /\ x.val = detect.published /\ y.topic = "ai" /\ y.val = Summary(detect.published)
  BY <1>3 DEF Seen, Sum
<1>5. /\ Head(<<x>>) = x /\ Head(<<x, y>>) = x /\ Head(<<y>>) = y /\ Tail(<<x, y>>) = <<y>> 
      /\ <<x>> # <<y>> /\ <<y>> # <<>>
  <2>1. <<x>> # <<y>>
    BY <1>4, Pairs
  <2> QED BY <2>1, Pairs
<1>6. detect.todo \in {<<x>>, <<x, y>>, <<y>>}
  BY <1>2, <1>3
<1>7. CASE detect.todo = <<x>>
  <2>1. Head(detect.todo) = x
    BY <1>5, <1>7
  <2> QED BY <1>1, <1>2, <1>3, <1>4, <1>7, <2>1
<1>8. CASE detect.todo = <<x, y>>
  <2>1. Head(detect.todo) = x /\ detect'.todo = <<y>> /\ Seen' = x
    BY <1>2, <1>3, <1>5, <1>8
  <2> QED BY <1>1, <1>2, <1>4, <1>5, <2>1
<1>9. CASE detect.todo = <<y>>
  <2>1. Head(detect.todo) = y
    BY <1>5, <1>9
  <2> QED BY <1>1, <1>2, <1>3, <1>4, <1>9, <2>1
<1> QED BY <1>6, <1>7, <1>8, <1>9

LEMMA PeopleNext == MqttInv /\ [Next]_vars => FollowsPeople'
<1> SUFFICES ASSUME MqttInv, [Next]_vars, listener' \in 7 .. Listen, "people" \notin late',
                    detect'.todo \in {<<>>, <<Sum'>>}
             PROVE  /\ detect'.published = "unseen" => Says("people", {"unknown"})'
                    /\ detect'.published = "on" => Says("people", {"on"})'
                    /\ detect'.published = "off" => Says("people", {"off"})'
  BY Numbers DEF FollowsPeople, Listen, Seeded, Seeds
<1>0. TalkInv /\ LoopsInv /\ LoopsInv' /\ ClientInv /\ late \subseteq late' /\ "people" \in Kept
      /\ listener' \in 2 .. Listen
  BY LoopsNext, LateGrows, Numbers DEF MqttInv, TalkInv, Kept
<1>1. CASE Utters("people") /\ Seed
  <2>1. listener \in 1..7 /\ listener' = listener + 1 /\ ~AiSend
    <3>1. listener \in 1..7 /\ listener' = listener + 1
      BY <1>1, Numbers DEF Seed
    <3>2. AiSend => listener = 9
      BY Numbers DEF AiSend, Publish
    <3> QED BY <3>1, <3>2
  <2>2. ~Seeds[listener].will /\ Seeds[listener].topic = "people"
    BY <1>1, <2>1 DEF Utters
  <2>3. listener = 6
    <3>1. listener \in {1, 2, 3, 4, 5, 6, 7}
      BY <2>1
    <3> QED BY <2>2, <3>1, SeedsAre
  <2>4. Post("main", "people", "unknown", TRUE)
    BY <1>1, <2>2, <2>3, SeedsAre DEF Seed
  <2>5. \A other \in Senders \ {"main"} : ~(Waits(other) /\ msg[other].topic = "people")
    BY <1>0, <2>3, Voices
  <2>6. Says("people", {"unknown"})'
    <3>1. "unknown" \in {"unknown"} /\ "main" \in Senders
      BY TasksAreSenders
    <3> QED BY <1>0, <2>4, <2>5, <3>1, PostedSays
  <2>7. detect'.published = "unseen"
    BY <1>0, <2>1, Numbers DEF LoopsInv
  <2> QED BY <2>6, <2>7
<1>2. CASE AiSend /\ Head(detect.todo).topic = "people"
  <2>1. /\ listener = 9 /\ detect'.published = detect.published /\ detect.published \in {"on", "off"}
        /\ Post("ai", "people", detect.published, TRUE)
    BY <1>0, <1>2, SendMakes
  <2>2. \A other \in Senders \ {"ai"} : ~(Waits(other) /\ msg[other].topic = "people")
    BY <1>0, <2>1, Voices
  <2>3. \A v : Post("ai", "people", v, TRUE) => Says("people", {v})'
    BY <1>0, <2>2, PostedSays, TasksAreSenders
  <2>4. PICK v : v = detect.published
    OBVIOUS
  <2>5. Says("people", {v})'
    BY <2>1, <2>3, <2>4 DEF Post
  <2>6. CASE v = "on"
    BY <2>1, <2>4, <2>5, <2>6
  <2>7. CASE v = "off"
    BY <2>1, <2>4, <2>5, <2>7
  <2> QED BY <2>1, <2>4, <2>6, <2>7
<1>3. CASE ~Utters("people")
  <2>1. \A V : Says("people", V) => Says("people", V)'
    BY <1>0, <1>3, OthersSay
  <2>2. listener \in 7 .. Listen /\ "people" \notin late
    <3>1. ASSUME Seed, listener = 6 PROVE FALSE
      BY <1>3, <3>1, SeedsAre DEF Utters
    <3> QED BY <1>0, <3>1, Moves, Numbers
  <2>3. detect.todo \in {<<>>, <<Sum>>} /\ detect'.published = detect.published
    <3>1. CASE detect' = detect
      BY <3>1 DEF Sum
    <3>2. CASE AiLook
      BY <1>0, <3>2, LookMakes
    <3>3. CASE AiSend
      BY <1>0, <1>3, <3>3, SendMakes DEF Utters
    <3>4. CASE detect' = [detect EXCEPT !.news = TRUE]
      <4>1. detect'.published = detect.published /\ detect'.todo = detect.todo
        BY <1>0, <3>4 DEF LoopsInv
      <4> QED BY <4>1 DEF Sum
    <3> QED BY <1>0, <3>1, <3>2, <3>3, <3>4, Moves
  <2> QED BY <2>1, <2>2, <2>3 DEF MqttInv, FollowsPeople
<1> QED BY <1>1, <1>2, <1>3 DEF Utters

LEMMA AiNext == MqttInv /\ [Next]_vars => FollowsAi'
<1> SUFFICES ASSUME MqttInv, [Next]_vars, listener' \in 6 .. Listen, "ai" \notin late',
                    detect'.todo \in {<<>>, <<Seen'>>}
             PROVE  /\ detect'.published = "unseen" => Says("ai", {"unknown"})'
                    /\ detect'.published = "on" => Says("ai", {"unknown", "people"})'
                    /\ detect'.published = "off" => Says("ai", {"unknown", "none"})'
  BY Numbers DEF FollowsAi, Listen, Seeded, Seeds
<1>0. TalkInv /\ LoopsInv /\ LoopsInv' /\ ClientInv /\ late \subseteq late' /\ "ai" \in Kept
      /\ listener' \in 2 .. Listen
  BY LoopsNext, LateGrows, Numbers DEF MqttInv, TalkInv, Kept
<1>1. CASE Utters("ai") /\ Seed
  <2>1. listener \in 1..7 /\ listener' = listener + 1 /\ ~AiSend
    <3>1. listener \in 1..7 /\ listener' = listener + 1
      BY <1>1, Numbers DEF Seed
    <3>2. AiSend => listener = 9
      BY Numbers DEF AiSend, Publish
    <3> QED BY <3>1, <3>2
  <2>2. ~Seeds[listener].will /\ Seeds[listener].topic = "ai"
    BY <1>1, <2>1 DEF Utters
  <2>3. listener = 5
    <3>1. listener \in {1, 2, 3, 4, 5, 6, 7}
      BY <2>1
    <3> QED BY <2>2, <3>1, SeedsAre
  <2>4. Post("main", "ai", "unknown", TRUE)
    BY <1>1, <2>2, <2>3, SeedsAre DEF Seed
  <2>5. \A other \in Senders \ {"main"} : ~(Waits(other) /\ msg[other].topic = "ai")
    BY <1>0, <2>3, Voices
  <2>6. Says("ai", {"unknown"})'
    <3>1. "unknown" \in {"unknown"} /\ "main" \in Senders
      BY TasksAreSenders
    <3> QED BY <1>0, <2>4, <2>5, <3>1, PostedSays
  <2>7. detect'.published = "unseen"
    BY <1>0, <2>1, Numbers DEF LoopsInv
  <2> QED BY <2>6, <2>7
<1>2. CASE AiSend /\ Head(detect.todo).topic = "ai"
  <2>1. /\ listener = 9 /\ detect'.published = detect.published /\ detect.published \in {"on", "off"}
        /\ Post("ai", "ai", Summary(detect.published), TRUE)
    BY <1>0, <1>2, SendMakes
  <2>2. \A other \in Senders \ {"ai"} : ~(Waits(other) /\ msg[other].topic = "ai")
    BY <1>0, <2>1, Voices
  <2>3. \A v, V : Post("ai", "ai", v, TRUE) /\ v \in V => Says("ai", V)'
    BY <1>0, <2>2, PostedSays, TasksAreSenders
  <2>4. CASE detect.published = "on"
    <3>1. Post("ai", "ai", "people", TRUE) /\ "people" \in {"unknown", "people"}
      BY <2>1, <2>4 DEF Summary
    <3> QED BY <2>1, <2>3, <2>4, <3>1
  <2>5. CASE detect.published = "off"
    <3>1. Post("ai", "ai", "none", TRUE) /\ "none" \in {"unknown", "none"}
      BY <2>1, <2>5 DEF Summary
    <3> QED BY <2>1, <2>3, <2>5, <3>1
  <2> QED BY <2>1, <2>4, <2>5
<1>3. CASE ~Utters("ai")
  <2>1. \A V : Says("ai", V) => Says("ai", V)'
    BY <1>0, <1>3, OthersSay
  <2>2. listener \in 6 .. Listen /\ "ai" \notin late
    <3>1. ASSUME Seed, listener = 5 PROVE FALSE
      BY <1>3, <3>1, SeedsAre DEF Utters
    <3> QED BY <1>0, <3>1, Moves, Numbers
  <2>3. CASE detect.todo \in {<<>>, <<Seen>>} /\ detect'.published = detect.published
    BY <2>1, <2>2, <2>3 DEF MqttInv, FollowsAi
  <2>4. CASE detect' = detect
    BY <2>3, <2>4 DEF Seen
  <2>5. CASE AiLook
    <3>1. detect.published = "unseen" /\ detect.todo = <<>>
      BY <1>0, <2>5, LookMakes
    <3>2. Says("ai", {"unknown"})'
      BY <2>1, <2>2, <3>1 DEF MqttInv, FollowsAi
    <3>3. \A V : {"unknown"} \subseteq V => Says("ai", V)'
      BY <3>2 DEF Says
    <3> QED BY <3>2, <3>3
  <2>6. CASE AiSend
    BY <1>0, <1>3, <2>3, <2>6, SendMakes DEF Utters
  <2>7. CASE detect' = [detect EXCEPT !.news = TRUE]
    <3>1. detect'.published = detect.published /\ detect'.todo = detect.todo
      BY <1>0, <2>7 DEF LoopsInv
    <3> QED BY <2>3, <3>1 DEF Seen
  <2> QED BY <1>0, <2>4, <2>5, <2>6, <2>7, Moves
<1> QED BY <1>1, <1>2, <1>3 DEF Utters

LEMMA PostedNext == MqttInv /\ [Next]_vars => FollowsConfig'
<1> SUFFICES ASSUME MqttInv, [Next]_vars, NEW c, posted' = c PROVE Says("config", {c})'
  BY DEF FollowsConfig
<1>0. TalkInv /\ LoopsInv /\ TalkInv' /\ ClientInv /\ late \subseteq late' /\ "config" \in Kept
      /\ "config" \notin late'
  BY TalkNext, LateGrows DEF MqttInv, TalkInv, Kept
<1>1. CASE PostConfig
  <2>1. Post("config", "config", config, TRUE) /\ posted' = config
    BY <1>1 DEF PostConfig
  <2>2. \A other \in Senders \ {"config"} : ~(Waits(other) /\ msg[other].topic = "config")
    BY <1>0, Voices
  <2>3. Post("config", "config", c, TRUE) /\ c \in {c} /\ "config" \in Senders
    BY <2>1, TasksAreSenders
  <2> QED BY <1>0, <2>2, <2>3, PostedSays
<1>2. CASE ~PostConfig
  <2>1. ~Utters("config")
    <3>1. ASSUME Seed, ~Seeds[listener].will, Seeds[listener].topic = "config" PROVE FALSE
      <4>1. listener \in 1..7
        BY <3>1, Numbers DEF Seed
      <4> QED BY <3>1, <4>1, SeedsTalk
    <3>2. AiSend => Head(detect.todo).topic # "config"
      BY <1>0, SendMakes
    <3> QED BY <1>2, <3>1, <3>2 DEF Utters
  <2>2. posted' = posted
    BY <1>2 DEF Next, vars, mqvars, Supervise, Again, Seed, StartTasks, ConnectLoop, MotionLoop, Publish,
                AiLook, AiSend, Behind, SetConfig, SetBehind, Change, Read, Reply, Ask, Configure, World
  <2>3. Says("config", {c})
    BY <2>2 DEF MqttInv, FollowsConfig
  <2> QED BY <1>0, <2>1, <2>3, OthersSay
<1> QED BY <1>1, <1>2

LEMMA MqttInvInit == Init => MqttInv
<1> SUFFICES ASSUME Init PROVE MqttInv
  OBVIOUS
<1>1. listener = 0 /\ posted = "nothing" /\ config \in Configs /\ client = <<>>
      /\ retained = [t \in Topics |-> "nothing"] /\ place = [s \in Senders |-> "none"]
  BY Numbers DEF Init, CInit
<1>2. retained["config"] = "nothing" /\ DOMAIN client = {}
  BY <1>1, Numbers DEF Kept
<1>3. FollowsConfig
  BY <1>1, <1>2 DEF FollowsConfig, Says, Waits
<1> QED BY <1>1, <1>3, TalkInit, LoopsInit DEF MqttInv, FollowsStatus, FollowsMotion, FollowsPeople, FollowsAi

LEMMA MqttInvNext == MqttInv /\ [Next]_vars => MqttInv'
  BY TalkNext, LoopsNext, ConfigNext, StatusNext, MotionNext, PeopleNext, AiNext, PostedNext DEF MqttInv

\* Once the listener has nothing left to send and the broker has it all, what is retained
\* is what the camera is: connected or not, motion or not, a detection or not
\* (listen_on_camera's loops, src/mqtt/mod.rs).
THEOREM RetainsStatus == Spec => []StatusFollows
<1>1. MqttInv => StatusFollows
  <2> SUFFICES ASSUME MqttInv, listener = Listen, Quiet, NothingDue
               PROVE  /\ Settled("status") => (retained["status"] = "connected") = world.online
                      /\ Settled("motion") => (retained["motion"] = "on") = (world.md = "Start")
                      /\ Settled("people") => (retained["people"] = "on") = (world.ai = "on")
                      /\ Settled("ai") /\ retained["ai"] # "unknown" =>
                             retained["ai"] = IF world.ai = "on" THEN "people" ELSE "none"
    BY DEF StatusFollows
  <2>1. LoopsInv /\ listener \in 2 .. Listen /\ listener \in 4 .. Listen /\ listener \in 6 .. Listen
        /\ listener \in 7 .. Listen
    BY Numbers DEF MqttInv
  <2>2. detect.todo = <<>> /\ detect.published = world.ai
    BY <2>1 DEF NothingDue, LoopsInv
  <2>3. ASSUME Settled("status") PROVE (retained["status"] = "connected") = world.online
    <3>1. /\ status = "online" => retained["status"] \in {"disconnected"}
          /\ status = "offline" => retained["status"] \in {"connected"}
      BY <2>1, <2>3, SaidIsRetained DEF MqttInv, FollowsStatus, Settled
    <3> QED BY <2>1, <3>1 DEF NothingDue, LoopsInv
  <2>4. ASSUME Settled("motion") PROVE (retained["motion"] = "on") = (world.md = "Start")
    <3>1. /\ motion = "Stop" => retained["motion"] \in {"on"}
          /\ motion = "Start" => retained["motion"] \in {"off", "unknown"}
      BY <2>1, <2>4, SaidIsRetained DEF MqttInv, FollowsMotion, Settled
    <3> QED BY <2>1, <3>1 DEF NothingDue, LoopsInv
  <2>5. ASSUME Settled("people") PROVE (retained["people"] = "on") = (world.ai = "on")
    <3>1. /\ world.ai = "unseen" => retained["people"] \in {"unknown"}
          /\ world.ai = "on" => retained["people"] \in {"on"}
          /\ world.ai = "off" => retained["people"] \in {"off"}
      BY <2>1, <2>2, <2>5, SaidIsRetained DEF MqttInv, FollowsPeople, Settled
    <3> QED BY <2>1, <3>1 DEF LoopsInv
  <2>6. ASSUME Settled("ai"), retained["ai"] # "unknown"
        PROVE  retained["ai"] = IF world.ai = "on" THEN "people" ELSE "none"
    <3>1. /\ world.ai = "unseen" => retained["ai"] \in {"unknown"}
          /\ world.ai = "on" => retained["ai"] \in {"unknown", "people"}
          /\ world.ai = "off" => retained["ai"] \in {"unknown", "none"}
      BY <2>1, <2>2, <2>6, SaidIsRetained DEF MqttInv, FollowsAi, Settled
    <3> QED BY <2>1, <2>6, <3>1 DEF LoopsInv
  <2> QED BY <2>3, <2>4, <2>5, <2>6
<1> QED BY <1>1, MqttInvInit, MqttInvNext, PTL DEF Spec

\* Once all is sent, the configuration retained is that in use, unless somebody
\* else's was retained since neolink last published its own (main, src/mqtt/mod.rs).
THEOREM RetainsConfig == Spec => []ConfigPosted
<1>1. MqttInv => ConfigPosted
  <2> SUFFICES ASSUME MqttInv, Quiet, posted = config, Settled("config") PROVE retained["config"] = config
    BY DEF ConfigPosted
  <2>1. PICK c : c = posted
    OBVIOUS
  <2>2. Says("config", {c})
    BY <2>1 DEF MqttInv, FollowsConfig
  <2>3. retained["config"] \in {c}
    BY <2>2, SaidIsRetained
  <2> QED BY <2>1, <2>3
<1> QED BY <1>1, MqttInvInit, MqttInvNext, PTL DEF Spec
=============================================================================
