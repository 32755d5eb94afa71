------------------------------- MODULE BcConn -------------------------------
(***************************************************************************)
(* The shared connection to a camera and the tasks that use it:            *)
(* crates/core/src/bc_protocol/connection/bcconn.rs and bcsub.rs, with the *)
(* request/reply pattern of the commands (ping.rs), the video stream       *)
(* (stream.rs: start_video) and the snapshot (snap.rs).                    *)
(*                                                                         *)
(* A reader task turns what the camera sends into poll commands, a writer  *)
(* task empties the sink, and the poller routes every message to the       *)
(* subscription whose id and number it carries.  The channels are bounded. *)
(* The camera is external: it answers what it is asked, or does not.       *)
(***************************************************************************)
EXTENDS Integers, Sequences, SequencesExt, FiniteSets

CONSTANTS
    Rpcs, Videos, Snaps,  \* the tasks: commands, video streams, snapshots
    Groups,               \* which of them there are at a time
    CmdCap,     \* capacity of the poll command channel (200)
    SubCap,     \* capacity of a subscription (100)
    SinkCap,    \* capacity of the sink (100)
    BufCap,     \* capacity of a StreamData (buffer_size)
    MaxFrames,  \* bound: frames the camera sends for one stream
    Parts,      \* messages a picture is sent in
    MaxAlive,   \* bound: replies to keep-alives at once, 0 for no keep-alives
    MaxHandlers \* bound: handlers asked for, of which the second ends the poller

ASSUME BcConnAssumption ==
    /\ {CmdCap, SubCap, SinkCap, BufCap, Parts} \subseteq Nat \ {0}
    /\ {MaxFrames, MaxAlive, MaxHandlers} \subseteq Nat
    /\ Rpcs \intersect (Videos \union Snaps) = {} /\ Videos \intersect Snaps = {}
    /\ (Rpcs \union Videos \union Snaps) \intersect {"any", "absent", "push"} = {}

Tasks == Rpcs \union Videos \union Snaps

\* A subscription: the task that holds it and the message id it is for.
Slots == (Rpcs \X {"rpc"}) \union (Videos \X {"video", "stop"}) \union (Snaps \X {"snap", "data"})
Task(s) == s[1]
Id(s) == IF s[2] = "data" THEN "snap" ELSE s[2]

Unnumbered == "any" \* subscribed without a number: subscribe_to_id
Absent == "absent"  \* not among the poller's subscribers
Push == "push"      \* the number the camera gives a picture's messages
Nums == Tasks \union {Push}

Msg(id, num, n) == [c |-> "bc", id |-> id, num |-> num, n |-> n]
Alive == [c |-> "alive"]
AliveReply == [id |-> "alive", num |-> Push]
Failed == [c |-> "err"]
Add(s) == [c |-> "add", slot |-> s]
AddHandler == [c |-> "handler"]
Nothing == [c |-> "nothing"]

VARIABLES
    pc,         \* where each task stands
    rx,         \* what is queued in each subscription
    open,       \* subscriptions whose receiver is alive
    got,        \* messages each subscription has received
    out,        \* frames queued in each StreamData
    aborted,    \* streams whose StreamData was dropped
    commander, sink,
    reg,        \* the number each subscription is registered under, or Absent
    handlers,   \* keep-alive handlers registered
    callbacks,  \* handler tasks that have a reply to send
    poller,     \* "idle", "send", "errs" or "dead"
    held,       \* the command the poller is working on
    target,     \* the subscriptions it still has to send to
    reader, writer,  \* "up" or "down"
    wire_in,    \* on the way from the camera
    cam_up,     \* whether the source can still bring something
    cam_sent,   \* messages the camera has sent, by id and number
    cam_work    \* what the camera still has to send

poll_vars == <<reg, handlers, callbacks, poller, held, target>>
task_vars == <<pc, open, got, out, aborted>>
cam_vars == <<wire_in, cam_up, cam_sent, cam_work>>
vars == <<task_vars, rx, commander, sink, poll_vars, reader, writer, cam_vars>>

Keys == [id : {"rpc", "video", "stop", "snap"}, num : Nums]
Key(s) == [id |-> Id(s), num |-> IF s[2] = "data" THEN Push ELSE Task(s)]

-----------------------------------------------------------------------------
(* Tasks.                                                                  *)

\* subscribe and subscribe_to_id: the command is queued, and the answer is not
\* awaited.
Subscribe(s, next) ==
    /\ IF poller = "dead"
       THEN pc' = [pc EXCEPT ![Task(s)] = "failed"] /\ UNCHANGED <<commander, open>>
       ELSE /\ Len(commander) < CmdCap
            /\ commander' = Append(commander, Add(s))
            /\ open' = open \union {s}
            /\ pc' = [pc EXCEPT ![Task(s)] = next]
    /\ UNCHANGED <<rx, got, out, aborted, sink, poll_vars, reader, writer, cam_vars>>

\* BcSubscription::send.
Send(s, next) ==
    /\ IF writer = "down"
       THEN pc' = [pc EXCEPT ![Task(s)] = "failed"] /\ UNCHANGED sink
       ELSE /\ Len(sink) < SinkCap
            /\ sink' = Append(sink, Key(s))
            /\ pc' = [pc EXCEPT ![Task(s)] = next]
    /\ UNCHANGED <<rx, open, got, out, aborted, commander, poll_vars, reader, writer, cam_vars>>

\* BcSubscription::recv: a message, or the end of the subscription: an error,
\* or no sender left.
Orphan(s) ==
    /\ rx[s] = <<>> /\ reg[s] = Absent /\ s \notin target
    /\ Add(s) \notin ToSet(commander)

Recv(s, next) ==
    /\ IF Orphan(s)
       THEN pc' = [pc EXCEPT ![Task(s)] = "failed"] /\ UNCHANGED <<rx, got>>
       ELSE /\ rx[s] # <<>>
            /\ rx' = [rx EXCEPT ![s] = Tail(@)]
            /\ IF Head(rx[s]) = Failed
               THEN pc' = [pc EXCEPT ![Task(s)] = "failed"] /\ UNCHANGED got
               ELSE /\ got' = [got EXCEPT ![s] = @ + 1]
                    /\ pc' = [pc EXCEPT ![Task(s)] = next]
    /\ UNCHANGED <<open, out, aborted, commander, sink, poll_vars, reader, writer, cam_vars>>

\* The subscriptions of a task go with it.
Release(t) ==
    /\ pc' = [pc EXCEPT ![t] = "gone"]
    /\ open' = {s \in open : Task(s) # t}
    /\ rx' = [s \in Slots |-> IF Task(s) = t THEN <<>> ELSE rx[s]]
    /\ UNCHANGED <<got, out, aborted, commander, sink, poll_vars, reader, writer, cam_vars>>

Finish(t) == pc[t] \in {"done", "failed"} /\ Release(t)

\* A request may be dropped where it waits: a timeout, a client that left.  A
\* stream runs in a task of its own, which nobody cancels.
Cancel(t) == t \notin Videos /\ pc[t] \notin {"done", "failed", "gone"} /\ Release(t)

\* Mutant of Rpc: the request leaves before its answer is subscribed to.
RpcSendsFirst(t) ==
    LET s == <<t, "rpc">> IN
    \/ pc[t] = "start" /\ Send(s, "next")
    \/ pc[t] = "next" /\ Subscribe(s, "recv")
    \/ pc[t] = "recv" /\ Recv(s, "done")

Rpc(t) ==
    LET s == <<t, "rpc">> IN
    \/ pc[t] = "start" /\ Subscribe(s, "send")
    \/ pc[t] = "send" /\ Send(s, "recv")
    \/ pc[t] = "recv" /\ Recv(s, "done")

\* A picture: its header is asked for and answered; its data comes on a number
\* the camera chooses.
DropHeader(t) ==
    /\ pc[t] = "drop"
    /\ pc' = [pc EXCEPT ![t] = "next"]
    /\ open' = open \ {<<t, "snap">>}
    /\ rx' = [rx EXCEPT ![<<t, "snap">>] = <<>>]
    /\ UNCHANGED <<got, out, aborted, commander, sink, poll_vars, reader, writer, cam_vars>>

Snap(t) ==
    LET s == <<t, "snap">>
        d == <<t, "data">>
    IN
    \/ pc[t] = "start" /\ Subscribe(s, "send")
    \/ pc[t] = "send" /\ Send(s, "recv")
    \/ pc[t] = "recv" /\ Recv(s, "drop")
    \/ DropHeader(t)
    \/ pc[t] = "next" /\ Subscribe(d, "data")
    \/ pc[t] = "data" /\ Recv(d, IF rx[d] # <<>> /\ Head(rx[d]).n = Parts THEN "done" ELSE "data")

\* Mutant of Forward: the buffer is not waited for.
ForwardUnbounded(t) ==
    LET s == <<t, "video">> IN
    /\ pc[t] = "stream" /\ rx[s] # <<>>
    /\ rx' = [rx EXCEPT ![s] = Tail(@)]
    /\ got' = [got EXCEPT ![s] = IF Head(rx[s]) = Failed THEN @ ELSE @ + 1]
    /\ out' = [out EXCEPT ![t] = @ + 1]
    /\ pc' = [pc EXCEPT ![t] = IF Head(rx[s]) = Failed THEN "stop" ELSE @]
    /\ UNCHANGED <<open, aborted, commander, sink, poll_vars, reader, writer, cam_vars>>

\* The stream task passes a frame on to the StreamData, or an error, which is
\* the last thing it passes on.
Forward(t) ==
    LET s == <<t, "video">> IN
    /\ pc[t] = "stream" /\ out[t] < BufCap /\ rx[s] # <<>>
    /\ rx' = [rx EXCEPT ![s] = Tail(@)]
    /\ got' = [got EXCEPT ![s] = IF Head(rx[s]) = Failed THEN @ ELSE @ + 1]
    /\ out' = [out EXCEPT ![t] = @ + 1]
    /\ pc' = [pc EXCEPT ![t] = IF Head(rx[s]) = Failed THEN "stop" ELSE @]
    /\ UNCHANGED <<open, aborted, commander, sink, poll_vars, reader, writer, cam_vars>>

\* The owner takes a frame, or drops the StreamData.
GetData(t) ==
    /\ out[t] > 0 /\ ~aborted[t]
    /\ out' = [out EXCEPT ![t] = @ - 1]
    /\ UNCHANGED <<pc, open, got, aborted, rx, commander, sink, poll_vars, reader, writer, cam_vars>>

DropStream(t) ==
    /\ ~aborted[t]
    /\ aborted' = [aborted EXCEPT ![t] = TRUE]
    /\ UNCHANGED <<pc, open, got, out, rx, commander, sink, poll_vars, reader, writer, cam_vars>>

\* The forwarding ends: dropped by the owner wherever it waits, or the
\* subscription is over.  The subscription itself is kept.
StreamEnds(t) ==
    LET s == <<t, "video">> IN
    /\ pc[t] = "stream"
    /\ aborted[t] \/ Orphan(s)
    /\ pc' = [pc EXCEPT ![t] = "stop"]
    /\ UNCHANGED <<open, got, out, aborted, rx, commander, sink, poll_vars, reader, writer, cam_vars>>

\* The reply to the stop is waited for two seconds.
StopTimeout(t) ==
    /\ pc[t] = "stop_recv"
    /\ pc' = [pc EXCEPT ![t] = "done"]
    /\ UNCHANGED <<open, got, out, aborted, rx, commander, sink, poll_vars, reader, writer, cam_vars>>

Video(t) ==
    LET s == <<t, "video">>
        e == <<t, "stop">>
    IN
    \/ pc[t] = "start" /\ Subscribe(s, "send")
    \/ pc[t] = "send" /\ Send(s, "recv")
    \/ pc[t] = "recv" /\ Recv(s, "stream")
    \/ Forward(t) \/ StreamEnds(t)
    \/ pc[t] = "stop" /\ Subscribe(e, "stop_send")
    \/ pc[t] = "stop_send" /\ Send(e, "stop_recv")
    \/ pc[t] = "stop_recv" /\ Recv(e, "done")
    \/ StopTimeout(t)

Owner(t) == GetData(t) \/ DropStream(t)

-----------------------------------------------------------------------------
(* The poller.                                                             *)

\* The subscriptions left once those whose receiver is gone are removed.
Cleaned == [s \in Slots |-> IF s \in open THEN reg[s] ELSE Absent]

\* Mutant of Exact: the number is not looked at.
ExactById(m, r) == {s \in Slots : Id(s) = m.id /\ r[s] # Absent /\ s \in open}

\* Who gets m, by the registrations r: the subscription with its number, else
\* the one waiting for any.
Exact(m, r) == {s \in Slots : Id(s) = m.id /\ r[s] = m.num /\ s \in open}
Waiting(m, r) == {s \in Slots : Id(s) = m.id /\ r[s] = Unnumbered}
Route(m, r) == IF Exact(m, r) # {} THEN Exact(m, r) ELSE Waiting(m, r)

\* Mutant of PollerDies: the subscribers are kept.
PollerDiesSubscribed ==
    /\ poller' = "dead" /\ held' = Nothing /\ target' = {}
    /\ commander' = <<>> /\ handlers' = 0 /\ callbacks' = 0
    /\ UNCHANGED reg

\* The poller is lost: its subscribers, its channel and the commands in it.
PollerDies ==
    /\ poller' = "dead" /\ held' = Nothing /\ target' = {}
    /\ reg' = [s \in Slots |-> Absent] /\ commander' = <<>>
    /\ handlers' = 0 /\ callbacks' = 0

PollMsg(m) ==
    LET to == Route(m, Cleaned) IN
    /\ reg' = [s \in Slots |-> IF s \in to THEN m.num ELSE Cleaned[s]]
    /\ poller' = IF to = {} THEN "idle" ELSE "send"
    /\ held' = IF to = {} THEN Nothing ELSE m
    /\ target' = to
    /\ UNCHANGED <<handlers, callbacks, rx>>

\* A handler runs in a task of its own, so that it cannot hold the poller up.
PollAlive ==
    /\ callbacks' = IF handlers > 0 THEN callbacks + 1 ELSE callbacks
    /\ reg' = Cleaned
    /\ UNCHANGED <<handlers, poller, held, target, rx>>

\* An error of the source is passed to every subscriber.
PollErr ==
    /\ reg' = Cleaned
    /\ poller' = "errs" /\ held' = Failed
    /\ target' = {s \in Slots : Cleaned[s] # Absent}
    /\ UNCHANGED <<handlers, callbacks, rx>>

\* A second live subscriber for the same id and number is refused.
PollAdd(s) ==
    LET num == IF s[2] = "data" THEN Unnumbered ELSE Task(s)
        live == {o \in Slots : Id(o) = Id(s) /\ Cleaned[o] = num /\ o # s}
    IN
    /\ reg' = IF live = {} THEN [Cleaned EXCEPT ![s] = num] ELSE Cleaned
    /\ rx' = IF live # {} /\ s \in open THEN [rx EXCEPT ![s] = Append(@, Failed)] ELSE rx
    /\ UNCHANGED <<handlers, callbacks, poller, held, target>>

Poll ==
    /\ poller = "idle" /\ commander # <<>>
    /\ LET cmd == Head(commander) IN
        \/ /\ cmd.c = "handler" /\ handlers > 0
           /\ PollerDies /\ UNCHANGED rx
        \/ /\ ~(cmd.c = "handler" /\ handlers > 0)
           /\ commander' = Tail(commander)
           /\ \/ cmd.c = "bc" /\ PollMsg(cmd)
              \/ cmd.c = "alive" /\ PollAlive
              \/ cmd.c = "err" /\ PollErr
              \/ cmd.c = "add" /\ PollAdd(cmd.slot)
              \/ cmd.c = "handler" /\ handlers' = 1 /\ reg' = Cleaned
                 /\ UNCHANGED <<callbacks, poller, held, target, rx>>
    /\ UNCHANGED <<task_vars, sink, reader, writer, cam_vars>>

\* Mutant of Deliver: a message that finds no room is dropped.
DeliverNoWait(s) ==
    /\ poller \in {"send", "errs"} /\ s \in target
    /\ rx' = IF s \in open /\ Len(rx[s]) < SubCap
             THEN [rx EXCEPT ![s] = Append(@, held)] ELSE rx
    /\ target' = target \ {s}
    /\ IF poller = "send" THEN poller' = "idle" /\ held' = Nothing ELSE UNCHANGED <<poller, held>>
    /\ UNCHANGED <<task_vars, commander, sink, reg, handlers, callbacks, reader, writer, cam_vars>>

\* The poller waits for room in the subscription, unless its receiver is gone.
Deliver(s) ==
    /\ poller \in {"send", "errs"} /\ s \in target
    /\ IF s \in open
       THEN Len(rx[s]) < SubCap /\ rx' = [rx EXCEPT ![s] = Append(@, held)]
       ELSE UNCHANGED rx
    /\ target' = target \ {s}
    /\ IF poller = "send" THEN poller' = "idle" /\ held' = Nothing ELSE UNCHANGED <<poller, held>>
    /\ UNCHANGED <<task_vars, commander, sink, reg, handlers, callbacks, reader, writer, cam_vars>>

ErrsDone ==
    /\ poller = "errs" /\ target = {}
    /\ PollerDies
    /\ UNCHANGED <<task_vars, rx, sink, reader, writer, cam_vars>>

\* A handler's reply.  The spawned task is cancelled with the poller.
Callback ==
    /\ callbacks > 0 /\ writer = "up" /\ Len(sink) < SinkCap
    /\ callbacks' = callbacks - 1
    /\ sink' = Append(sink, AliveReply)
    /\ UNCHANGED <<task_vars, rx, commander, reg, handlers, poller, held, target, reader, writer, cam_vars>>

\* keepalive(), and any further handle_msg for the same id.
HandleMsg ==
    /\ poller # "dead" /\ Len(commander) < CmdCap
    /\ Len(SelectSeq(commander, LAMBDA m : m = AddHandler)) + handlers < MaxHandlers
    /\ commander' = Append(commander, AddHandler)
    /\ UNCHANGED <<task_vars, rx, sink, poll_vars, reader, writer, cam_vars>>

-----------------------------------------------------------------------------
(* The reader and the writer, and the camera behind them.                  *)

Read ==
    /\ reader = "up" /\ wire_in # <<>>
    /\ IF poller = "dead" THEN reader' = "down" /\ UNCHANGED <<commander, wire_in>>
       ELSE /\ Len(commander) < CmdCap
            /\ commander' = Append(commander, Head(wire_in))
            /\ wire_in' = Tail(wire_in) /\ UNCHANGED reader
    /\ UNCHANGED <<task_vars, rx, sink, poll_vars, writer, cam_up, cam_sent, cam_work>>

\* The source reports an error.
SourceFails ==
    /\ reader = "up" /\ wire_in = <<>> /\ cam_up
    /\ wire_in' = <<Failed>> /\ cam_up' = FALSE
    /\ UNCHANGED <<task_vars, rx, commander, sink, poll_vars, reader, writer, cam_sent, cam_work>>

\* The source comes to its end.  The poller is told nothing.
SourceEnds ==
    /\ reader = "up" /\ wire_in = <<>>
    /\ reader' = "down" /\ cam_up' = FALSE
    /\ UNCHANGED <<task_vars, rx, commander, sink, poll_vars, writer, wire_in, cam_sent, cam_work>>

\* A request leaves.  A stop takes back the start of the stream.
Write ==
    /\ writer = "up" /\ sink # <<>>
    /\ sink' = Tail(sink)
    /\ LET m == Head(sink)
           stopped == {k \in cam_work : m.id = "stop" /\ k.id = "video" /\ k.num = m.num}
       IN  cam_work' = IF m = AliveReply THEN cam_work ELSE (cam_work \ stopped) \union {m}
    /\ UNCHANGED <<task_vars, rx, commander, poll_vars, reader, writer, wire_in, cam_up, cam_sent>>

\* The sink reports an error.
WriterFails ==
    /\ writer = "up" /\ sink # <<>>
    /\ writer' = "down" /\ sink' = <<>>
    /\ UNCHANGED <<task_vars, rx, commander, poll_vars, reader, cam_vars>>

\* How many messages a request is answered with: a video start with the reply
\* and the frames, the picture's data with its parts.
Amount(k) ==
    IF k.id = "video" THEN 1 + MaxFrames ELSE IF k.num = Push THEN Parts ELSE 1

CamSends(k) ==
    /\ cam_up /\ k \in cam_work
    /\ cam_sent' = [cam_sent EXCEPT ![k] = @ + 1]
    /\ wire_in' = Append(wire_in, Msg(k.id, k.num, cam_sent'[k]))
    /\ LET left == IF cam_sent'[k] < Amount(k) THEN cam_work ELSE cam_work \ {k}
           picture == [id |-> "snap", num |-> Push]
       IN  cam_work' = IF k.id = "snap" /\ k # picture THEN left \union {picture} ELSE left
    /\ UNCHANGED <<task_vars, rx, commander, sink, poll_vars, reader, writer, cam_up>>

CamAlive ==
    /\ cam_up /\ SelectSeq(wire_in \o commander, LAMBDA m : m = Alive) = <<>>
    /\ callbacks < MaxAlive
    /\ wire_in' = Append(wire_in, Alive)
    /\ UNCHANGED <<task_vars, rx, commander, sink, poll_vars, reader, writer, cam_up, cam_sent, cam_work>>

\* shutdown, the drop of the connection, or join after a task ended with an
\* error: every task is cancelled.
Shutdown ==
    /\ {reader, writer} # {"down"} \/ poller # "dead"
    /\ reader' = "down" /\ writer' = "down" /\ sink' = <<>>
    /\ PollerDies
    /\ UNCHANGED <<task_vars, rx, cam_vars>>

\* Nothing is left to do.
Ended ==
    /\ reader = "down" /\ writer = "down" /\ poller = "dead" /\ \A t \in Tasks : pc[t] = "gone"
    /\ UNCHANGED vars

-----------------------------------------------------------------------------
Init ==
    /\ \E group \in Groups : pc = [t \in Tasks |-> IF t \in group THEN "start" ELSE "gone"]
    /\ rx = [s \in Slots |-> <<>>] /\ open = {} /\ got = [s \in Slots |-> 0]
    /\ out = [t \in Videos |-> 0] /\ aborted = [t \in Videos |-> FALSE]
    /\ commander = <<>> /\ sink = <<>>
    /\ reg = [s \in Slots |-> Absent]
    /\ handlers = 0 /\ callbacks = 0
    /\ poller = "idle" /\ held = Nothing /\ target = {}
    /\ reader = "up" /\ writer = "up"
    /\ wire_in = <<>> /\ cam_up = TRUE /\ cam_sent = [k \in Keys |-> 0] /\ cam_work = {}

Polling == Poll \/ (\E s \in Slots : Deliver(s)) \/ ErrsDone

Next ==
    \/ \E t \in Rpcs : Rpc(t)
    \/ \E t \in Snaps : Snap(t)
    \/ \E t \in Videos : Video(t) \/ Owner(t)
    \/ \E t \in Tasks : Finish(t) \/ Cancel(t)
    \/ Polling \/ Callback \/ HandleMsg
    \/ Read \/ SourceFails \/ SourceEnds \/ Write \/ WriterFails
    \/ (\E k \in Keys : CamSends(k)) \/ CamAlive
    \/ Shutdown \/ Ended

Spec == Init /\ [][Next]_vars

\* The runtime runs every task that can go on; the owner of a stream takes its
\* frames or drops it.  Neither the camera nor a shutdown can be counted on.
FairSpec ==
    /\ Spec
    /\ \A t \in Rpcs : WF_vars(Rpc(t))
    /\ \A t \in Snaps : WF_vars(Snap(t))
    /\ \A t \in Videos : WF_vars(Video(t)) /\ WF_vars(Owner(t))
    /\ \A t \in Tasks : WF_vars(Finish(t))
    /\ WF_vars(Polling) /\ WF_vars(Callback) /\ WF_vars(Read) /\ WF_vars(Write)

-----------------------------------------------------------------------------
(* Properties.                                                             *)

TypeOK ==
    /\ pc \in [Tasks -> {"start", "send", "recv", "drop", "next", "data", "stream",
                         "stop", "stop_send", "stop_recv", "done", "failed", "gone"}]
    /\ open \subseteq Slots /\ target \subseteq Slots
    /\ reg \in [Slots -> Nums \union {Absent, Unnumbered}]
    /\ \A s \in Slots : Len(rx[s]) <= SubCap
    /\ got \in [Slots -> Nat]
    /\ out \in [Videos -> 0..BufCap] /\ aborted \in [Videos -> BOOLEAN]
    /\ Len(commander) <= CmdCap /\ Len(sink) <= SinkCap
    /\ handlers \in {0, 1} /\ callbacks \in Nat
    /\ poller \in {"idle", "send", "errs", "dead"}
    /\ {reader, writer} \subseteq {"up", "down"}
    /\ cam_up \in BOOLEAN /\ cam_sent \in [Keys -> Nat] /\ cam_work \subseteq Keys

Of(m, k) == m.c = "bc" /\ m.id = k.id /\ m.num = k.num

\* The messages of k in q are, in order, those after the lo-th up to the hi-th of what
\* the camera sent.
Carries(q, k, lo, hi) ==
    LET own == {i \in DOMAIN q : Of(q[i], k)} IN
    /\ {q[i].n : i \in own} = (lo + 1)..hi
    /\ \A i, j \in own : i < j => q[i].n < q[j].n

\* A task that subscribes before it asks misses nothing: while the poller lives,
\* what its subscription has yet to receive is what the camera sent, all of it
\* and in order, wherever it is on the way: bcconn.rs:245-349, and the commands
\* that subscribe first and send then.
Delivered ==
    \A s \in open :
        poller # "dead" /\ s[2] # "data" =>
            LET sending == IF poller = "send" /\ s \in target THEN <<held>> ELSE <<>>
            IN  Carries(rx[s] \o sending \o commander \o wire_in, Key(s), got[s], cam_sent[Key(s)])

\* A subscription is sent only messages of its own id and number, and one
\* without a number only those of the first it was sent (the assertions of
\* bcsub.rs:51-72).
OnlyOwn ==
    \A s \in Slots : \A m \in ToSet(rx[s]) : m.c = "bc" =>
        /\ m.id = Id(s)
        /\ IF s[2] = "data" THEN \A o \in ToSet(rx[s]) : o.c = "bc" => o.num = m.num
           ELSE m.num = Task(s)

\* When the poller is gone, whatever ended it, every task that waits on it comes
\* to know: no subscription keeps a sender nobody will use (bcconn.rs:350-359).
EveryoneTold ==
    poller = "dead" ~> \A t \in Tasks : pc[t] \in {"done", "failed", "gone"}

\* A stream whose StreamData is dropped asks the camera to stop, or finds the
\* connection gone: "When this object is dropped the streaming is stopped"
\* (stream.rs:39).
DropStops ==
    \A t \in Videos :
        aborted[t] /\ pc[t] = "stream" ~> pc[t] \in {"stop_recv", "done", "failed", "gone"}

\* A picture reported as received is all of the picture the camera sent:
\* "listen for the next 109 grab the message num and subscribe to it"
\* (snap.rs:70-71).
SnapWhole == \A t \in Snaps : pc[t] = "done" => got[<<t, "data">>] = Parts
=============================================================================
