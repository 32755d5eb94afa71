----------------------------- MODULE MqttClient -----------------------------
(***************************************************************************)
(* The MQTT client, src/mqtt/mqttc.rs: one backend at a time owns the      *)
(* connection to the broker.  A message is queued to it with a reply       *)
(* channel, handed to a task of its own, and taken by the library's        *)
(* client; what was not taken when the connection fails goes back into the *)
(* queue.  The broker and the library (rumqttc) are external.              *)
(***************************************************************************)
EXTENDS Integers, Sequences, FiniteSets

CONSTANTS
    Senders,    \* the tasks that publish
    Topics,     \* topics of retained messages
    Values,
    ClientCap,  \* the library's request queue (100)
    InboxCap,   \* the broadcast of what the broker sends (100)
    MaxDrops    \* connections lost

ASSUME ClientAssumption ==
    ClientCap \in Nat \ {0} /\ InboxCap \in Nat \ {0} /\ MaxDrops \in Nat

\* Neolink's own status, beside what the cameras publish.
Messages == [topic : Topics, val : Values, retain : BOOLEAN]
Own(val) == [topic |-> "neolink", val |-> val, retain |-> TRUE]

VARIABLES
    place,      \* where each sender's message is: "none", "queued" or "held"
    msg,        \* the message
    given,      \* messages in the queue or held whose sender is gone
    late,       \* their topics, for ever
    client,     \* messages the library has taken
    backend,    \* "off" (retrying), "on", "up" (accepted) or "asked" (has subscribed)
    subscribed, \* whether the broker sends us what is published
    wills,      \* topics with a last will registered, on connections of their own
    retained,   \* what the broker retains
    stale,      \* topics of which a message was lost, or the will sent, since
    inbox,      \* what the broker sent that was not yet read: each message is handed
                \* over by a task of its own, so in no order
    lagged,     \* the readers that have lost something
    drops

cvars == <<place, msg, given, late, client, backend, subscribed, wills, retained, stale,
           inbox, lagged, drops>>

\* The topics neolink reads of those it subscribes to; that the others fill the
\* broadcast too is the small InboxCap.
Readers == {"control", "config"}
NoMessage == [topic |-> "", val |-> "", retain |-> FALSE]

CInit ==
    /\ place = [s \in Senders |-> "none"] /\ msg = [s \in Senders |-> NoMessage]
    /\ given = {} /\ late = {} /\ client = <<>> /\ backend = "off" /\ subscribed = FALSE /\ wills = {}
    /\ retained = [t \in Topics |-> "nothing"] /\ stale = {}
    /\ inbox = [r \in Readers |-> {}] /\ lagged = {} /\ drops = 0

Room == Len(client) < ClientCap
-----------------------------------------------------------------------------
\* send_message: the request and its reply channel go into the queue.
Post(s, topic, val, retain) ==
    /\ place[s] = "none"
    /\ place' = [place EXCEPT ![s] = "queued"]
    /\ msg' = [msg EXCEPT ![s] = [topic |-> topic, val |-> val, retain |-> retain]]

Waits(s) == place[s] # "none"

\* The senders that are dropped leave their message behind.
Abandon(ss) ==
    /\ given' = given \union {msg[s] : s \in {r \in ss : Waits(r)}}
    /\ late' = late \union {msg[s].topic : s \in {r \in ss : Waits(r)}}
    /\ place' = [s \in Senders |-> IF s \in ss THEN "none" ELSE place[s]]
    /\ msg' = [s \in Senders |-> IF s \in ss THEN NoMessage ELSE msg[s]]

\* Mqtt::new: a backend is started; it publishes that it is connected.
Start ==
    /\ backend = "off" /\ backend' = "on" /\ client' = <<Own("connected")>>
    /\ UNCHANGED <<place, msg, given, late, subscribed, wills, retained, stale, inbox, lagged, drops>>

\* MqttBackend::run: a request is given a task of its own.
Hold(s) ==
    /\ backend # "off" /\ place[s] = "queued"
    /\ place' = [place EXCEPT ![s] = "held"]
    /\ UNCHANGED <<msg, given, late, client, backend, subscribed, wills, retained, stale, inbox, lagged, drops>>

\* A mutant: the sender is told, and the message kept for the next connection.
TakeAndKeep(s) ==
    /\ backend # "off" /\ place[s] = "held" /\ Room
    /\ client' = Append(client, msg[s])
    /\ place' = [place EXCEPT ![s] = "none"] /\ msg' = [msg EXCEPT ![s] = NoMessage]
    /\ given' = given \union {msg[s]}
    /\ UNCHANGED <<late, backend, subscribed, wills, retained, stale, inbox, lagged, drops>>

\* publish_request: the library takes the message, and the sender is told.
Take(s) ==
    /\ backend # "off" /\ place[s] = "held" /\ Room
    /\ client' = Append(client, msg[s])
    /\ place' = [place EXCEPT ![s] = "none"] /\ msg' = [msg EXCEPT ![s] = NoMessage]
    /\ UNCHANGED <<given, late, backend, subscribed, wills, retained, stale, inbox, lagged, drops>>

\* The same for one whose sender is gone: nobody hears the reply.
TakeGiven(m) ==
    /\ backend # "off" /\ m \in given /\ Room
    /\ client' = Append(client, m) /\ given' = given \ {m}
    /\ UNCHANGED <<place, msg, late, backend, subscribed, wills, retained, stale, inbox, lagged, drops>>

\* A message gets to whom reads its topic; a full broadcast loses one, and the
\* reader is told.
Hear(m) ==
    LET box == inbox[m.topic] \union {m.val} IN
    \E kept \in SUBSET box :
        /\ Cardinality(kept) = IF Cardinality(box) > InboxCap THEN InboxCap ELSE Cardinality(box)
        /\ inbox' = [inbox EXCEPT ![m.topic] = kept]
        /\ lagged' = IF kept # box THEN lagged \union {m.topic} ELSE lagged

\* connection.poll: the broker accepts the connection.
Accepted ==
    /\ backend = "on" /\ backend' = "up"
    /\ UNCHANGED <<place, msg, given, late, client, subscribed, wills, retained, stale, inbox, lagged, drops>>

\* Neolink then says again that it is connected and subscribes to all of its own.
ConnAck ==
    /\ backend = "up" /\ Room /\ backend' = "asked" /\ client' = Append(client, Own("subscribe"))
    /\ UNCHANGED <<place, msg, given, late, subscribed, wills, retained, stale, inbox, lagged, drops>>

\* The broker publishes what the library sends, and sends it back to us; it
\* answers the subscription with what it retains.
Broker ==
    /\ backend \in {"up", "asked"} /\ client # <<>> /\ client' = Tail(client)
    /\ LET m == Head(client) IN
       /\ retained' = IF m.retain THEN [retained EXCEPT ![m.topic] = m.val] ELSE retained
       /\ stale' = IF m.retain THEN stale \ {m.topic} ELSE stale
       /\ subscribed' = (subscribed \/ m.val = "subscribe")
       /\ \/ m.topic \in Readers /\ subscribed /\ Hear(m)
          \/ /\ m.val = "subscribe" /\ retained["config"] # "nothing"
             /\ Hear([topic |-> "config", val |-> retained["config"]])
          \/ /\ ~(m.topic \in Readers /\ subscribed)
             /\ ~(m.val = "subscribe" /\ retained["config"] # "nothing")
             /\ UNCHANGED <<inbox, lagged>>
    /\ UNCHANGED <<place, msg, given, late, backend, wills, drops>>

\* The connection breaks: the backend ends, and waits before the next.  What it
\* held goes back; what the library had taken is lost.
Dropped ==
    /\ backend # "off" /\ drops < MaxDrops /\ drops' = drops + 1
    /\ backend' = "off" /\ subscribed' = FALSE /\ client' = <<>>
    /\ place' = [s \in Senders |-> IF place[s] = "held" THEN "queued" ELSE place[s]]

Lost == {client[i].topic : i \in {j \in DOMAIN client : client[j].retain}}

\* The broker sends the wills of the connections that broke, those of the
\* cameras too or not; the task that kept such a connection ends for good.
Drop ==
    /\ Dropped
    /\ \E broken \in {{}, wills} :
         /\ wills' = wills \ broken /\ stale' = stale \union Lost \union broken
         /\ retained' = [t \in Topics |-> IF t \in broken THEN "unknown"
                                          ELSE IF t = "neolink" THEN "offline" ELSE retained[t]]
    /\ UNCHANGED <<msg, given, late, inbox, lagged>>

\* Another broker is configured: the backend is replaced; it retains nothing.
Reconfigured ==
    /\ Dropped
    /\ wills' = {} /\ retained' = [t \in Topics |-> "nothing"] /\ stale' = Topics
    /\ UNCHANGED <<msg, given, late, inbox, lagged>>

CNext ==
    \/ Start \/ Accepted \/ ConnAck \/ Broker \/ Drop \/ Reconfigured
    \/ \E s \in Senders : Hold(s) \/ Take(s)
    \/ \E m \in given : TakeGiven(m)

\* What the client is to its senders.
Promise == INSTANCE Publisher WITH
    Notices <- {Own("connected"), Own("subscribe")},
    waits <- [s \in Senders |-> IF Waits(s) THEN {msg[s]} ELSE {}], taken <- client

Settled(t) ==
    /\ subscribed /\ client = <<>> /\ t \notin stale \union late
=============================================================================
