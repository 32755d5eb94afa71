---------------------------- MODULE PausedStream ----------------------------
(***************************************************************************)
(* The frames of one camera stream for each client of the RTSP server:     *)
(* src/common/instance/stream.rs (stream, stream_while_live).  A stream    *)
(* that pauses has three permits on a use counter of its own: one for its  *)
(* first five seconds, one for the motion, one for half a minute after a   *)
(* push notification; without any it gives the camera up until there is    *)
(* one again.  The counter is modelled in UseCounter and is instantaneous  *)
(* here; the camera, its motion and its notifications are external.        *)
(***************************************************************************)
EXTENDS MediaClock, Sequences

CONSTANTS QueueCap,  \* frames in media_rx
          MaxEvents, \* what the world outside does, all together
          Steps,     \* how far the camera's clock goes from one frame to the next
          CanPause   \* whether pause.on_motion is set: a set of Booleans

ASSUME PausedStreamAssumption == Steps \subseteq Nat /\ QueueCap \in Nat /\ MaxEvents \in Nat

VARIABLES
    feed,    \* none, wait (paused), live, ended (no more will come)
    queue,   \* media_rx
    permits, \* which of first, motion and push are active
    seen,    \* whether the motion task has seen the latest motion
    motion,  \* the motion thread's watch: start, stop or unknown
    alerted, \* the push notification watch: whether the last that came was of motion
    on_motion,
    ticks,   \* the camera's clock
    events

stream_vars == <<feed, queue, permits, seen, motion, alerted, on_motion, ticks>>
feed_vars == <<stream_vars, events>>

FeedInit ==
    /\ feed = [c \in Clients |-> "none"] /\ queue = [c \in Clients |-> <<>>]
    /\ permits = [c \in Clients |-> {}]
    /\ seen = [c \in Clients |-> TRUE]
    /\ on_motion \in CanPause /\ motion = IF on_motion THEN "stop" ELSE "unknown"
    /\ alerted = FALSE /\ ticks = 0 /\ events = 0

Pictures == {"I", "P"}

Happens == events < MaxEvents /\ events' = events + 1

\* A mutant: what the motion was like when the client came is not looked at.
SubscribeLate(c) ==
    /\ feed' = [feed EXCEPT ![c] = IF on_motion THEN "wait" ELSE "live"]
    /\ permits' = [permits EXCEPT ![c] = {"first"}]
    /\ UNCHANGED <<queue, seen, motion, alerted, on_motion, ticks, events>>

\* stream_while_live: the motion is looked at first, and what comes later is waited for;
\* likewise the last push notification, however old it is.
Subscribe(c) ==
    /\ feed' = [feed EXCEPT ![c] = IF on_motion THEN "wait" ELSE "live"]
    /\ permits' = [permits EXCEPT ![c] = IF on_motion
                       THEN {"first"} \union (IF motion = "start" THEN {"motion"} ELSE {}) \union (IF alerted THEN {"push"} ELSE {})
                       ELSE {}]
    /\ UNCHANGED <<queue, seen, motion, alerted, on_motion, ticks, events>>

Listening(c) == feed[c] \in {"wait", "live"}

\* The five and the thirty seconds.
PermitOver(c, permit) ==
    /\ permit \in permits[c] \ {"motion"}
    /\ permits' = [permits EXCEPT ![c] = @ \ {permit}]
    /\ UNCHANGED <<feed, queue, seen, motion, alerted, on_motion, ticks, events>>

Motion ==
    /\ Happens /\ on_motion
    /\ motion' \in {"start", "stop"} \ {motion}
    /\ seen' = [c \in Clients |-> ~Listening(c)]
    /\ UNCHANGED <<feed, queue, permits, alerted, on_motion, ticks>>

\* "Motion Alert from" the camera, each with a permit of its own: two are not told apart.
Push ==
    /\ Happens /\ on_motion
    /\ alerted' = TRUE
    /\ permits' = [c \in Clients |-> permits[c] \union (IF Listening(c) THEN {"push"} ELSE {})]
    /\ UNCHANGED <<feed, queue, seen, motion, on_motion, ticks>>

Notice(c) ==
    /\ Listening(c) /\ ~seen[c]
    /\ seen' = [seen EXCEPT ![c] = TRUE]
    /\ permits' = [permits EXCEPT ![c] = IF motion = "start" THEN @ \union {"motion"} ELSE @ \ {"motion"}]
    /\ UNCHANGED <<feed, queue, motion, alerted, on_motion, ticks, events>>

\* aquired_users, dropped_users.
Resume(c) ==
    /\ feed[c] = "wait" /\ permits[c] # {}
    /\ feed' = [feed EXCEPT ![c] = "live"]
    /\ UNCHANGED <<queue, permits, seen, motion, alerted, on_motion, ticks, events>>

Pause(c) ==
    /\ feed[c] = "live" /\ on_motion /\ permits[c] = {}
    /\ feed' = [feed EXCEPT ![c] = "wait"]
    /\ UNCHANGED <<queue, permits, seen, motion, alerted, on_motion, ticks, events>>

\* A frame of the camera, which has a time if it is a picture; a stream that waits for room in its queue is not modelled as
\* lost, and one whose client is gone sees that when it sends.
Produce(c, kind, step) ==
    /\ Happens /\ feed[c] = "live" /\ Len(queue[c]) < QueueCap
    /\ kind \in Pictures \/ step = 0
    /\ ticks' = (ticks + step) % Wrap
    /\ queue' = [queue EXCEPT ![c] = Append(@, [kind |-> kind, us |-> IF kind \in Pictures THEN ticks' ELSE 0])]
    /\ UNCHANGED <<feed, permits, seen, motion, alerted, on_motion>>

\* The camera's stream ends, or its task does: a stream that pauses starts again.
CameraEnds(c) ==
    /\ Happens /\ feed[c] = "live"
    /\ feed' = [feed EXCEPT ![c] = IF on_motion THEN "wait" ELSE "ended"]
    /\ UNCHANGED <<queue, permits, seen, motion, alerted, on_motion, ticks>>

\* media_tx.closed(): at once while it waits, and in a stream that never pauses; one that
\* does sees it when it sends the next frame.
GiveUp(c) ==
    /\ \/ feed[c] \in {"wait", "ended"} /\ UNCHANGED events
       \/ feed[c] = "live" /\ IF on_motion THEN Happens ELSE UNCHANGED events
    /\ feed' = [feed EXCEPT ![c] = "none"] /\ permits' = [permits EXCEPT ![c] = {}]
    /\ queue' = [queue EXCEPT ![c] = <<>>] /\ seen' = [seen EXCEPT ![c] = TRUE]
    /\ UNCHANGED <<motion, alerted, on_motion, ticks>>

\* What happens by itself, and what the camera and its owner do.
FeedRuns(c) == (\E permit \in {"first", "push"} : PermitOver(c, permit)) \/ Notice(c) \/ Resume(c) \/ Pause(c)

FeedNext(c, kinds) ==
    \/ FeedRuns(c) \/ CameraEnds(c)
    \/ \E kind \in kinds, step \in Steps : Produce(c, kind, step)

-----------------------------------------------------------------------------
\* The stream of a client goes on when there is motion, whenever that came and whatever
\* had just ended, and without motion the camera is given up, once the five seconds of
\* a new client and the half minutes of its notifications are over (md_permit, stream.rs).
InStep(c) == motion = (IF feed[c] = "wait" THEN "stop" ELSE "start")
FollowsMotion == \A c \in Clients : on_motion /\ Listening(c) /\ ~InStep(c) ~> ~Listening(c) \/ InStep(c)
=============================================================================
