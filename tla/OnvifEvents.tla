----------------------------- MODULE OnvifEvents -----------------------------
(***************************************************************************)
(* ONVIF's event subscriptions: EventsManager and Subscription             *)
(* (src/onvif/events.rs) behind the requests of                            *)
(* src/onvif/services/events.rs.                                           *)
(*                                                                         *)
(* Two listeners publish what the motion thread's watches say to every     *)
(* subscription there is; a client creates one, pulls from it, renews it,  *)
(* asks for everything again, and lets it expire.  Clients are external.   *)
(***************************************************************************)
EXTENDS Motion, FiniteSets

CONSTANTS
    Subs,       \* subscriptions that clients create, one after the other
    MaxSubs,    \* MAX_SUBSCRIPTIONS_PER_CAMERA (32)
    PendingCap, \* MAX_PENDING_MESSAGES (256)
    NoTopic,    \* AI types without a topic
    MaxSyncs    \* SetSynchronizationPoint requests, altogether

ASSUME EventsAssumption ==
    /\ MaxSubs \in Nat \ {0} /\ PendingCap \in Nat \ {0} /\ MaxSyncs \in Nat
    /\ NoTopic \subseteq Types /\ "motion" \notin Types
    /\ IsFiniteSet(Types) /\ "subs" \notin Subs

Keys == {"motion"} \union Types

VARIABLES
    started,  \* listener_started
    last,     \* last_motion and last_ai
    stage,    \* where each subscription stands
    pending,  \* its queue of notifications
    expired,  \* whether its termination time has passed
    known,    \* what its client has pulled, by key
    since,    \* keys of which it was told since it was published
    pull,     \* what its PullMessages does
    syncs,
    sender    \* the two listeners: what they still have to send, and to whom

evars == <<started, last, stage, pending, expired, known, since, pull, syncs, sender>>

Nothing == [k \in Keys |-> "none"]
Idle == [todo |-> <<>>, to |-> {}, subs |-> {}]

EInit ==
    /\ started = FALSE /\ last = Nothing
    /\ stage = [s \in Subs |-> "none"] /\ pending = [s \in Subs |-> <<>>]
    /\ expired = [s \in Subs |-> FALSE] /\ known = [s \in Subs |-> Nothing]
    /\ since = [s \in Subs |-> {}] /\ pull = [s \in Subs |-> "idle"] /\ syncs = 0
    /\ sender = [l \in {"motion", "ai"} |-> Idle]

Published == {s \in Subs : stage[s] \in {"live", "resync"}} \* the map `subs`

\* What is known of a subscription that was removed no longer matters.
Leave(rs) ==
    /\ pending' = [s \in Subs |-> IF s \in rs THEN <<>> ELSE pending[s]]
    /\ expired' = [s \in Subs |-> s \notin rs /\ expired[s]]
    /\ known' = [s \in Subs |-> IF s \in rs THEN Nothing ELSE known[s]]
    /\ since' = [s \in Subs |-> IF s \in rs THEN {} ELSE since[s]]
    /\ pull' = [s \in Subs |-> IF s \in rs THEN "idle" ELSE pull[s]]
-----------------------------------------------------------------------------
(* Subscription                                                            *)

Excess(q) == IF Len(q) > PendingCap THEN Len(q) - PendingCap ELSE 0

\* A mutant: the newest are dropped when the queue is full.
EnqueueDropNew(q, ns) == SubSeq(q \o ns, 1, Len(q \o ns) - Excess(q \o ns))

\* enqueue, of one after the other: the oldest are dropped when the queue is full.
Enqueue(q, ns) == SubSeq(q \o ns, Excess(q \o ns) + 1, Len(q \o ns))

\* Where a queue speaks of a key, and what one that hears all of it knows then.
Of(q, k) == {i \in DOMAIN q : q[i].key = k}
Said(q, k, before) == IF Of(q, k) = {} THEN before ELSE q[Max(Of(q, k))].val

\* The keys of what was to be queued of which the queue says nothing any more.
Forgets(q, ns) == {k \in Keys : Of(q \o ns, k) # {} /\ Of(Enqueue(q, ns), k) = {}}

\* notify_waiters: only a pull that waits hears of it.
Wake(p) == IF p = "waiting" THEN "look" ELSE p

\* What `last` says of these keys, in any order; an AI type without a topic has
\* no notification.
StateOf(keys, ns) ==
    /\ {ns[i].key : i \in DOMAIN ns} = {k \in keys \ NoTopic : last[k] # "none"}
    /\ \A i \in DOMAIN ns : ns[i].val = last[ns[i].key]

Notifications == [key : Keys, val : {"on", "off"}]

\* resync: the motion state and then the AI states, each under its lock, which
\* is held until all of them are queued.
Resend(s, keys) ==
    \E ns \in SeqOf(Notifications, Cardinality(keys)) :
        /\ StateOf(keys, ns) /\ IsInjective([i \in DOMAIN ns |-> ns[i].key])
        /\ pending' = [pending EXCEPT ![s] = Enqueue(@, ns)]
        /\ pull' = [pull EXCEPT ![s] = IF ns = <<>> THEN @ ELSE Wake(@)]
        /\ since' = [since EXCEPT ![s] =
             (@ \union IF stage[s] = "resync" \/ stage[s] = "live" THEN keys ELSE {})
               \ Forgets(pending[s], ns)]
-----------------------------------------------------------------------------
(* create_subscription                                                     *)

\* reap_expired, then the check of the limit.
Create(s) ==
    /\ stage[s] = "none"
    /\ LET reaped == {r \in Published : expired[r]} IN
         /\ stage' = [r \in Subs |-> IF r \in reaped THEN "gone"
                                     ELSE IF r = s /\ Cardinality(Published \ reaped) < MaxSubs
                                            THEN "seed" ELSE stage[r]]
         /\ Leave(reaped)
    /\ UNCHANGED <<started, last, syncs, sender>>

SeedMotion(s) ==
    /\ stage[s] = "seed" /\ stage' = [stage EXCEPT ![s] = "seedAi"]
    /\ Resend(s, {"motion"})
    /\ UNCHANGED <<started, last, expired, known, syncs, sender>>

SeedAi(s) ==
    /\ stage[s] = "seedAi" /\ stage' = [stage EXCEPT ![s] = "seeded"]
    /\ Resend(s, Types)
    /\ UNCHANGED <<started, last, expired, known, syncs, sender>>

\* It is published; the first one starts the listeners.
Insert(s) ==
    /\ stage[s] = "seeded" /\ stage' = [stage EXCEPT ![s] = "live"]
    /\ started' = TRUE
    /\ UNCHANGED <<last, pending, expired, known, since, pull, syncs, sender>>
-----------------------------------------------------------------------------
(* The listeners                                                           *)

ToSend(ns) == IF ns = <<>> THEN Idle ELSE [todo |-> ns, to |-> {"subs"}, subs |-> {}]

\* publish_motion, publish_ai: what differs is kept under the lock, and sent.
Publish(l, changed, ns) ==
    /\ last' = [k \in Keys |-> IF k \in DOMAIN changed THEN changed[k] ELSE last[k]]
    /\ sender' = [sender EXCEPT ![l] = ToSend(ns)]

\* run_motion_listener: the first look, or a change.
SeeMotion ==
    /\ started /\ sender["motion"] = Idle /\ "md" \in news
    /\ news' = news \ {"md"}
    /\ LET state == CASE md = "Start" -> "on" [] md = "Stop" -> "off" [] OTHER -> "none" IN
       IF state \in {"none", last["motion"]}
         THEN UNCHANGED <<last, sender>>
         ELSE Publish("motion", [k \in {"motion"} |-> state], <<[key |-> "motion", val |-> state]>>)
    /\ UNCHANGED <<listening, alarms, hand, queue, heard, md, ai, said, passed, count>>
    /\ UNCHANGED <<started, stage, pending, expired, known, since, pull, syncs>>

\* A mutant: what is no longer reported is left as it was.
CurrentAiListed(t) == IF ai[t] = "unseen" THEN "none" ELSE ai[t]

\* run_ai_listener: a type no longer reported is off.
CurrentAi(t) == IF ai[t] = "unseen" THEN IF last[t] = "none" THEN "none" ELSE "off" ELSE ai[t]

SeeAi ==
    /\ started /\ sender["ai"] = Idle /\ "ai" \in news
    /\ news' = news \ {"ai"}
    /\ LET diff == {t \in Types : CurrentAi(t) \notin {"none", last[t]}} IN
       \E ns \in SeqOf(Notifications, Cardinality(diff)) :
          /\ {ns[i].key : i \in DOMAIN ns} = diff \ NoTopic
          /\ Len(ns) = Cardinality(diff \ NoTopic)
          /\ \A i \in DOMAIN ns : ns[i].val = CurrentAi(ns[i].key)
          /\ Publish("ai", [t \in diff |-> CurrentAi(t)], ns)
    /\ UNCHANGED <<listening, alarms, hand, queue, heard, md, ai, said, passed, count>>
    /\ UNCHANGED <<started, stage, pending, expired, known, since, pull, syncs>>

\* The subscriptions are read once, after the lock is released.
ReadSubs(l) ==
    /\ sender[l].to = {"subs"}
    /\ sender' = [sender EXCEPT ![l] = 
          IF Published = {} THEN Idle ELSE [@ EXCEPT !.to = Published, !.subs = Published]]
    /\ UNCHANGED <<started, last, stage, pending, expired, known, since, pull, syncs>>

\* Each notification goes to each of them.
Send(l, s) ==
    /\ s \in sender[l].to
    /\ LET n == Head(sender[l].todo)
           rest == sender[l].to \ {s}
       IN  /\ IF s \in Published
                THEN /\ pending' = [pending EXCEPT ![s] = Enqueue(@, <<n>>)]
                     /\ pull' = [pull EXCEPT ![s] = Wake(@)]
                     /\ since' = [since EXCEPT ![s] =
                           (@ \union {n.key}) \ Forgets(pending[s], <<n>>)]
                ELSE UNCHANGED <<pending, pull, since>>
           /\ sender' = [sender EXCEPT ![l] =
                 IF rest # {} THEN [@ EXCEPT !.to = rest]
                 ELSE IF Len(@.todo) = 1 THEN Idle
                 ELSE [@ EXCEPT !.todo = Tail(sender[l].todo), !.to = sender[l].subs]]
    /\ UNCHANGED <<started, last, stage, expired, known, syncs>>
-----------------------------------------------------------------------------
(* dispatch_subscription                                                   *)

\* A request for a subscription that has expired removes it.
Asked(s) == s \in Published /\ ~expired[s]
Refuse(s) ==
    /\ stage[s] = "live" /\ expired[s] /\ pull[s] = "idle"
    /\ stage' = [stage EXCEPT ![s] = "gone"] /\ Leave({s})
    /\ UNCHANGED <<started, last, syncs, sender>>

PullMessages(s) ==
    /\ Asked(s) /\ pull[s] = "idle" /\ pull' = [pull EXCEPT ![s] = "look"]
    /\ UNCHANGED <<started, last, stage, pending, expired, known, since, syncs, sender>>

\* pull: up to `limit` of what is queued; nothing queued is noted, and only
\* then is the wake-up waited for, until the deadline.
PullLook(s) ==
    /\ pull[s] = "look"
    /\ IF pending[s] = <<>>
         THEN pull' = [pull EXCEPT ![s] = "empty"] /\ UNCHANGED <<pending, known>>
         ELSE \E limit \in 1 .. Len(pending[s]) :
              /\ pull' = [pull EXCEPT ![s] = "idle"]
              /\ pending' = [pending EXCEPT ![s] = SubSeq(@, limit + 1, Len(@))]
              /\ known' = [known EXCEPT ![s] =
                    [k \in Keys |-> Said(SubSeq(pending[s], 1, limit), k, @[k])]]
    /\ UNCHANGED <<started, last, stage, expired, since, syncs, sender>>

PullWait(s) ==
    /\ pull[s] = "empty" /\ pull' = [pull EXCEPT ![s] = "waiting"]
    /\ UNCHANGED <<started, last, stage, pending, expired, known, since, syncs, sender>>

PullTimeout(s) ==
    /\ pull[s] = "waiting" /\ pull' = [pull EXCEPT ![s] = "idle"]
    /\ UNCHANGED <<started, last, stage, pending, expired, known, since, syncs, sender>>

\* Renew: never beyond the ceiling, so that it may expire again.
Renew(s) ==
    /\ Asked(s)
    /\ expired' = [expired EXCEPT ![s] = FALSE]
    /\ UNCHANGED <<started, last, stage, pending, known, since, pull, syncs, sender>>

Unsubscribe(s) ==
    /\ Asked(s) /\ stage[s] = "live" /\ stage' = [stage EXCEPT ![s] = "gone"] /\ Leave({s})
    /\ UNCHANGED <<started, last, syncs, sender>>

\* SetSynchronizationPoint: resync of a subscription that is published.
SyncMotion(s) ==
    /\ Asked(s) /\ stage[s] = "live" /\ syncs < MaxSyncs /\ syncs' = syncs + 1
    /\ stage' = [stage EXCEPT ![s] = "resync"]
    /\ Resend(s, {"motion"})
    /\ UNCHANGED <<started, last, expired, known, sender>>

SyncAi(s) ==
    /\ stage[s] = "resync" /\ stage' = [stage EXCEPT ![s] = "live"]
    /\ Resend(s, Types)
    /\ UNCHANGED <<started, last, expired, known, syncs, sender>>

\* Time passes without a renewal.
Expire(s) ==
    /\ stage[s] = "live" /\ ~expired[s] /\ expired' = [expired EXCEPT ![s] = TRUE]
    /\ UNCHANGED <<started, last, stage, pending, known, since, pull, syncs, sender>>

Requests(s) ==
    \/ Create(s) \/ SeedMotion(s) \/ SeedAi(s) \/ Insert(s)
    \/ Refuse(s) \/ PullMessages(s) \/ PullLook(s) \/ PullWait(s) \/ PullTimeout(s)
    \/ Renew(s) \/ Unsubscribe(s) \/ SyncMotion(s) \/ SyncAi(s) \/ Expire(s)

Listeners == \E l \in {"motion", "ai"} : ReadSubs(l) \/ \E s \in Subs : Send(l, s)

Init == MInit /\ EInit
Next ==
    \/ MNext /\ UNCHANGED evars
    \/ SeeMotion \/ SeeAi
    \/ Listeners /\ UNCHANGED mvars
    \/ (\E s \in Subs : Requests(s)) /\ UNCHANGED mvars

vars == <<mvars, evars>>
Spec == Init /\ [][Next]_vars
-----------------------------------------------------------------------------
\* What a client knows of a key once it has pulled all that is queued for it.
Told(s, k) == Said(pending[s], k, known[s][k])

\* A subscription that has been told of a key since it was published ends with
\* the key's current value, when neither listener is about to tell it more:
\* resynchronisation, publication, lost connections and a queue that overflows
\* never leave it with an older one.  (A seed from before its publication may
\* be older: what changes between the seed and the publication is not sent.)
Latest ==
    \A s \in Published : \A k \in since[s] \ NoTopic :
        sender[IF k = "motion" THEN "motion" ELSE "ai"] = Idle /\ last[k] # "none"
          => Told(s, k) = last[k]

\* When all is quiet, ONVIF's idea of the camera is the camera's: motion, and
\* the types and zones that are on, also of types the camera no longer names
\* after a lost connection.
OnvifFollows ==
    /\ started /\ Quiet /\ news = {}
    => /\ said.motion = "unknown" \/ passed \/ (said.motion = "Start" <=> last["motion"] = "on")
       /\ said.types # NoAiType /\ (heard.state # Unseen \/ count.losses = 0) =>
            {t \in Types : last[t] = "on"} = (said.types \intersect Types) \union said.zones

=============================================================================
