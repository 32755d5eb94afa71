---------------------------- MODULE UdpTransport ----------------------------
(***************************************************************************)
(* The reliable byte transport that neolink runs over the camera's UDP     *)
(* protocol: crates/core/src/bc_protocol/connection/udpsource.rs.          *)
(*                                                                         *)
(* Four tasks share bounded channels.  The *inner* task (UdpPayloadInner)  *)
(* owns the window state; the *socket* task moves packets between the      *)
(* channels and the network; the *ack* task repeats the latest ack; the    *)
(* *heartbeat* task competes with both for the socket channel.  The        *)
(* network loses, duplicates and reorders; the camera is external.         *)
(*                                                                         *)
(* A packet is its packet id and a payload; the payload of the camera's    *)
(* k-th packet is k, so delivery in order is delivery of 0, 1, 2, ...      *)
(***************************************************************************)
EXTENDS Integers, Sequences, FiniteSets

CONSTANTS
    MaxSend,    \* packets the application sends in the session
    MaxRecv,    \* packets the camera sends in the session
    MaxChunks,  \* packets one application write is cut into, at most
    SinkCap,    \* capacity of thread_sink, application writes (100)
    StreamCap,  \* capacity of thread_stream, payloads to the application (100)
    InCap,      \* capacity of socket_in, packets to the socket task (500)
    OutCap,     \* capacity of socket_out, packets from the socket task (500)
    NetCap,     \* packets the network holds, each direction
    SocketDies, \* whether the socket task may fail on its own
    Strays      \* whether packets of another connection may arrive

ASSUME TransportAssumption ==
    /\ MaxSend \in Nat /\ MaxRecv \in Nat
    /\ MaxChunks \in Nat
    /\ {SinkCap, StreamCap, InCap, OutCap, NetCap} \subseteq Nat \ {0}
    /\ SocketDies \in BOOLEAN /\ Strays \in BOOLEAN

VARIABLES
    pc,            \* where the inner task stands in run()
    todo,          \* chunks of the current write still to be fed
    outq,          \* ids of the current resend round still to be fed
    packets_sent, packets_want,
    sent,          \* ids in the retransmission buffer
    recieved,      \* packet id |-> payload, arrived and not yet delivered
    ack_tx,        \* the watch value the ack task repeats
    thread_sink, thread_stream, socket_in, socket_out,
    sock,          \* "up" while the socket, ack and heartbeat tasks run
    to_cam, to_app,            \* the network, each direction
    cam_got,       \* ids the camera has received
    cam_unacked,   \* ids the camera still keeps for retransmission
    cam_next,      \* next id the camera will send
    app_written,   \* packets the application has written
    app_got        \* what the application has read

inner_vars == <<pc, todo, outq, packets_sent, packets_want, sent, recieved, ack_tx>>
chan_vars == <<thread_sink, thread_stream, socket_in, socket_out, sock>>
cam_vars == <<cam_got, cam_unacked, cam_next>>
app_vars == <<app_written, app_got>>
udp_vars == <<inner_vars, chan_vars, to_cam, to_app, cam_vars, app_vars>>

SendIds == 0 .. MaxSend - 1
RecvIds == 0 .. MaxRecv - 1
Horizon == MaxSend + MaxRecv   \* no packet id reaches it

StrayPayload == -1      \* the payload of a packet that is not ours
ErrItem == -2           \* the Err that ends the payload stream
NothingYet == -1        \* packet_id 0xffffffff: nothing received so far

EmptyAck == [packet_id |-> NothingYet, payload |-> <<>>]

\* The ids an ack acknowledges: everything up to packet_id, and the ids after
\* it whose byte is not zero.
AckedBy(ack) ==
    IF ack.packet_id = NothingYet THEN {}
    ELSE 0 .. ack.packet_id
         \union {ack.packet_id + i : i \in {j \in DOMAIN ack.payload : ack.payload[j] > 0}}

Data(conn, id, payload) == [t |-> "data", conn |-> conn, id |-> id, payload |-> payload]
Ack(conn, ack) == [t |-> "ack", conn |-> conn, ack |-> ack]
Hb == [t |-> "hb", conn |-> "ours"]
StrayPackets == {Data("stray", 0, StrayPayload), Ack("stray", [packet_id |-> Horizon, payload |-> <<>>]), Hb}

\* A packet enters the network, which has room for NetCap, or is lost; one that
\* says nothing to either end need not be followed further.
Transmit(m, net, net_new, lost) ==
    IF lost \/ m \in {Hb, Ack("ours", EmptyAck)} THEN net_new = net
    ELSE Cardinality(net \union {m}) <= NetCap /\ net_new = net \union {m}

-----------------------------------------------------------------------------
(* Acks.                                                                   *)

\* `m` is the first id from `want` on that has not arrived.
FirstMissing(m, want, held) == m \notin held /\ want .. m - 1 \subseteq held

\* `g` is the greatest id held, or the last of the prefix if there is none after.
Greatest(g, m, held) == g \in held \union {m - 1} /\ \A k \in held : k <= g

\* Faulty: the bitmap starts one id too late.
AckAtShifted(m, g, held) ==
    [packet_id |-> m - 1,
     payload |-> [i \in 1 .. g - m |-> IF m + i \in held THEN 1 ELSE 0]]

\* The last id of the contiguous prefix, then one byte per id up to the
\* greatest one held.
AckAt(m, g, held) ==
    [packet_id |-> m - 1,
     payload |-> [i \in 1 .. g + 1 - m |-> IF m + i - 1 \in held THEN 1 ELSE 0]]

\* Faulty: acknowledges up to the greatest id held, over the holes.
BuildSendAckOverHoles(want, held) ==
    IF want > 0
    THEN {AckAt(g + 1, g, held) : g \in {n \in want - 1 .. Horizon : Greatest(n, want, held)}}
    ELSE {EmptyAck}

\* build_send_ack on this window, as the set of its one result.
BuildSendAck(want, held) ==
    IF want > 0
    THEN UNION {{AckAt(m, g, held) : g \in {n \in m - 1 .. Horizon : Greatest(n, m, held)}} :
                    m \in {n \in want .. Horizon : FirstMissing(n, want, held)}}
    ELSE {EmptyAck}

\* Faulty: takes the whole span of the bitmap as acknowledged.
HandleAckSpan(ack) ==
    sent' = IF ack.packet_id = NothingYet THEN sent
            ELSE {k \in sent : k > ack.packet_id + Len(ack.payload)}

HandleAck(ack) ==
    sent' = IF ack.packet_id = NothingYet THEN sent
            ELSE {k \in sent : k > ack.packet_id} \ AckedBy(ack)

-----------------------------------------------------------------------------
(* The inner task: one turn of UdpPayloadInner::run.                       *)

\* The resend interval fires: every packet in the buffer is fed again.
ResendTick ==
    /\ pc = "select"
    /\ pc' = "resend" /\ outq' = sent
    /\ UNCHANGED <<todo, packets_sent, packets_want, sent, recieved, ack_tx,
                   chan_vars, to_cam, to_app, cam_vars, app_vars>>

ResendFeed(id) ==
    /\ pc = "resend" /\ id \in outq /\ \A k \in outq : id <= k
    /\ sock = "up" /\ Len(socket_in) < InCap
    /\ socket_in' = Append(socket_in, Data("ours", id, id))
    /\ outq' = outq \ {id}
    /\ UNCHANGED <<pc, todo, packets_sent, packets_want, sent, recieved, ack_tx,
                   thread_sink, thread_stream, socket_out, sock,
                   to_cam, to_app, cam_vars, app_vars>>

\* Faulty: the resend round does not refresh the ack.
ResendDoneNoAck ==
    /\ pc = "resend" /\ outq = {}
    /\ pc' = "deliver"
    /\ UNCHANGED <<todo, outq, packets_sent, packets_want, sent, recieved, ack_tx,
                   chan_vars, to_cam, to_app, cam_vars, app_vars>>

ResendDone ==
    /\ pc = "resend" /\ outq = {}
    /\ pc' = "deliver"
    /\ ack_tx' \in BuildSendAck(packets_want, DOMAIN recieved)
    /\ UNCHANGED <<todo, outq, packets_sent, packets_want, sent, recieved,
                   chan_vars, to_cam, to_app, cam_vars, app_vars>>

\* A write from the application, to be cut into chunks.
TakeWrite ==
    /\ pc = "select" /\ thread_sink # <<>>
    /\ pc' = "chunk" /\ todo' = Head(thread_sink)
    /\ thread_sink' = Tail(thread_sink)
    /\ UNCHANGED <<outq, packets_sent, packets_want, sent, recieved, ack_tx,
                   thread_stream, socket_in, socket_out, sock,
                   to_cam, to_app, cam_vars, app_vars>>

\* Faulty: the packet is sent but not kept for resending.
ChunkFeedUnsaved ==
    /\ pc = "chunk" /\ todo > 0
    /\ sock = "up" /\ Len(socket_in) < InCap
    /\ packets_sent' = packets_sent + 1
    /\ socket_in' = Append(socket_in, Data("ours", packets_sent, packets_sent))
    /\ todo' = todo - 1
    /\ UNCHANGED <<pc, outq, packets_want, sent, recieved, ack_tx,
                   thread_sink, thread_stream, socket_out, sock,
                   to_cam, to_app, cam_vars, app_vars>>

ChunkFeed ==
    /\ pc = "chunk" /\ todo > 0
    /\ sock = "up" /\ Len(socket_in) < InCap
    /\ packets_sent' = packets_sent + 1
    /\ sent' = sent \union {packets_sent}
    /\ socket_in' = Append(socket_in, Data("ours", packets_sent, packets_sent))
    /\ todo' = todo - 1
    /\ UNCHANGED <<pc, outq, packets_want, recieved, ack_tx,
                   thread_sink, thread_stream, socket_out, sock,
                   to_cam, to_app, cam_vars, app_vars>>

ChunkDone ==
    /\ pc = "chunk" /\ todo = 0
    /\ pc' = "deliver"
    /\ UNCHANGED <<todo, outq, packets_sent, packets_want, sent, recieved, ack_tx,
                   chan_vars, to_cam, to_app, cam_vars, app_vars>>

\* Feeding a channel whose socket task has ended is an error.
FeedFails ==
    /\ sock = "down"
    /\ \/ pc = "resend" /\ outq # {}
       \/ pc = "chunk" /\ todo > 0
    /\ pc' = "fail"
    /\ UNCHANGED <<todo, outq, packets_sent, packets_want, sent, recieved, ack_tx,
                   chan_vars, to_cam, to_app, cam_vars, app_vars>>

\* Faulty: does not look at the connection id.
KeepDataOfAny(m) ==
    /\ m.id >= packets_want
    /\ recieved' = [k \in DOMAIN recieved \union {m.id} |->
                       IF k = m.id THEN m.payload ELSE recieved[k]]
    /\ ack_tx' \in BuildSendAck(packets_want, DOMAIN recieved')
    /\ UNCHANGED sent

\* A data packet of this connection that is not already delivered.
KeepData(m) ==
    /\ m.conn = "ours" /\ m.id >= packets_want
    /\ recieved' = [k \in DOMAIN recieved \union {m.id} |->
                       IF k = m.id THEN m.payload ELSE recieved[k]]
    /\ ack_tx' \in BuildSendAck(packets_want, DOMAIN recieved')
    /\ UNCHANGED sent

IgnoreData(m) ==
    /\ m.conn # "ours" \/ m.id < packets_want
    /\ UNCHANGED <<recieved, ack_tx, sent>>

TakeAck(m) ==
    /\ IF m.conn = "ours" THEN HandleAck(m.ack) ELSE UNCHANGED sent
    /\ UNCHANGED <<recieved, ack_tx>>

TakePacket ==
    /\ pc = "select" /\ socket_out # <<>>
    /\ LET m == Head(socket_out) IN
           \/ m.t = "data" /\ (KeepData(m) \/ IgnoreData(m))
           \/ m.t = "ack" /\ TakeAck(m)
           \/ m.t = "hb" /\ UNCHANGED <<recieved, ack_tx, sent>>
    /\ pc' = "deliver"
    /\ socket_out' = Tail(socket_out)
    /\ UNCHANGED <<todo, outq, packets_sent, packets_want,
                   thread_sink, thread_stream, socket_in, sock,
                   to_cam, to_app, cam_vars, app_vars>>

\* The socket task is gone and its channel is drained.
TakeNone ==
    /\ pc = "select" /\ socket_out = <<>> /\ sock = "down"
    /\ pc' = "fail"
    /\ UNCHANGED <<todo, outq, packets_sent, packets_want, sent, recieved, ack_tx,
                   chan_vars, to_cam, to_app, cam_vars, app_vars>>

\* Faulty: does not wait for room in the payload stream.
DeliverNoWait ==
    /\ pc = "deliver" /\ packets_want \in DOMAIN recieved
    /\ thread_stream' = Append(thread_stream, recieved[packets_want])
    /\ recieved' = [k \in DOMAIN recieved \ {packets_want} |-> recieved[k]]
    /\ packets_want' = packets_want + 1
    /\ UNCHANGED <<pc, todo, outq, packets_sent, sent, ack_tx,
                   thread_sink, socket_in, socket_out, sock,
                   to_cam, to_app, cam_vars, app_vars>>

\* The loop at the end of run: hand over everything that is contiguous.
Deliver ==
    /\ pc = "deliver" /\ packets_want \in DOMAIN recieved
    /\ Len(thread_stream) < StreamCap
    /\ thread_stream' = Append(thread_stream, recieved[packets_want])
    /\ recieved' = [k \in DOMAIN recieved \ {packets_want} |-> recieved[k]]
    /\ packets_want' = packets_want + 1
    /\ UNCHANGED <<pc, todo, outq, packets_sent, sent, ack_tx,
                   thread_sink, socket_in, socket_out, sock,
                   to_cam, to_app, cam_vars, app_vars>>

DeliverDone ==
    /\ pc = "deliver" /\ packets_want \notin DOMAIN recieved
    /\ pc' = "select"
    /\ UNCHANGED <<todo, outq, packets_sent, packets_want, sent, recieved, ack_tx,
                   chan_vars, to_cam, to_app, cam_vars, app_vars>>

\* Faulty: the task ends without passing its error up.
FailSilently ==
    /\ pc = "fail"
    /\ pc' = "dead" /\ sock' = "down"
    /\ UNCHANGED <<todo, outq, packets_sent, packets_want, sent, recieved, ack_tx,
                   thread_sink, thread_stream, socket_in, socket_out,
                   to_cam, to_app, cam_vars, app_vars>>

\* The task ends by passing its error up the payload stream.
Fail ==
    /\ pc = "fail" /\ Len(thread_stream) < StreamCap
    /\ thread_stream' = Append(thread_stream, ErrItem)
    /\ pc' = "dead" /\ sock' = "down"
    /\ UNCHANGED <<todo, outq, packets_sent, packets_want, sent, recieved, ack_tx,
                   thread_sink, socket_in, socket_out,
                   to_cam, to_app, cam_vars, app_vars>>

-----------------------------------------------------------------------------
(* The socket, ack and heartbeat tasks.                                    *)

\* A packet leaves the host.  The network may lose it, and so does the
\* reconnect path, which never re-sends the packet whose send timed out.
SocketSend(lost) ==
    /\ sock = "up" /\ socket_in # <<>>
    /\ Transmit(Head(socket_in), to_cam, to_cam', lost)
    /\ socket_in' = Tail(socket_in)
    /\ UNCHANGED <<inner_vars, thread_sink, thread_stream, socket_out, sock,
                   to_app, cam_vars, app_vars>>

\* A packet arrives; `again` when the network will deliver it once more.  The
\* socket task never waits for room: a full channel ends the session.
SocketRecv(m, again) ==
    /\ sock = "up" /\ m \in to_app
    /\ to_app' = IF again THEN to_app ELSE to_app \ {m}
    /\ IF Len(socket_out) < OutCap
       THEN socket_out' = Append(socket_out, m) /\ UNCHANGED sock
       ELSE sock' = "down" /\ UNCHANGED socket_out
    /\ UNCHANGED <<inner_vars, thread_sink, thread_stream, socket_in,
                   to_cam, cam_vars, app_vars>>

\* The keep-warm probes ran out, or the socket reported an error.
SocketDie ==
    /\ SocketDies /\ sock = "up"
    /\ sock' = "down"
    /\ UNCHANGED <<inner_vars, thread_sink, thread_stream, socket_in, socket_out,
                   to_cam, to_app, cam_vars, app_vars>>

Tick(m) ==
    /\ sock = "up" /\ Len(socket_in) < InCap
    /\ socket_in' = Append(socket_in, m)
    /\ UNCHANGED <<inner_vars, thread_sink, thread_stream, socket_out, sock,
                   to_cam, to_app, cam_vars, app_vars>>

AckTick == Tick(Ack("ours", ack_tx))
HbTick == Tick(Hb)

-----------------------------------------------------------------------------
(* The application end, a UdpPayloadSource.                                *)

\* A message whose bytes fill n packets.
AppWrite(n) ==
    /\ pc \notin {"dead", "dropped"} /\ Len(thread_sink) < SinkCap
    /\ app_written + n <= MaxSend
    /\ app_written' = app_written + n
    /\ thread_sink' = Append(thread_sink, n)
    /\ UNCHANGED <<inner_vars, thread_stream, socket_in, socket_out, sock,
                   to_cam, to_app, cam_vars, app_got>>

AppRead ==
    /\ pc # "dropped" /\ thread_stream # <<>>
    /\ app_got' = Append(app_got, Head(thread_stream))
    /\ thread_stream' = Tail(thread_stream)
    /\ UNCHANGED <<inner_vars, thread_sink, socket_in, socket_out, sock,
                   to_cam, to_app, cam_vars, app_written>>

\* The application drops its end: every task is cancelled wherever it waits.
AppDrop ==
    /\ pc # "dropped"
    /\ pc' = "dropped" /\ sock' = "down"
    /\ UNCHANGED <<todo, outq, packets_sent, packets_want, sent, recieved, ack_tx,
                   thread_sink, thread_stream, socket_in, socket_out,
                   to_cam, to_app, cam_vars, app_vars>>

-----------------------------------------------------------------------------
(* The camera and the network: external.                                   *)

CamRecvData(m) ==
    /\ m \in to_cam /\ m.t = "data"
    /\ cam_got' = cam_got \union {m.id}
    /\ to_cam' = to_cam \ {m}
    /\ UNCHANGED <<inner_vars, chan_vars, to_app, cam_unacked, cam_next, app_vars>>

CamRecvAck(m) ==
    /\ m \in to_cam /\ m.t = "ack"
    /\ cam_unacked' = cam_unacked \ AckedBy(m.ack)
    /\ to_cam' = to_cam \ {m}
    /\ UNCHANGED <<inner_vars, chan_vars, to_app, cam_got, cam_next, app_vars>>

\* A new packet, or one not acknowledged yet again.
CamSendData(k, lost) ==
    /\ k \in cam_unacked \union {cam_next} /\ k < MaxRecv
    /\ cam_unacked' = cam_unacked \union {k}
    /\ cam_next' = IF k = cam_next THEN cam_next + 1 ELSE cam_next
    /\ Transmit(Data("ours", k, k), to_app, to_app', lost)
    /\ UNCHANGED <<inner_vars, chan_vars, to_cam, cam_got, app_vars>>

\* The camera acks the way build_send_ack does.
CamSendAck(lost) ==
    /\ cam_got # {}
    /\ \E m \in 0 .. Horizon :
          /\ FirstMissing(m, 0, cam_got)
          /\ \E ack \in BuildSendAck(m, cam_got) :
                 Transmit(Ack("ours", ack), to_app, to_app', lost)
    /\ UNCHANGED <<inner_vars, chan_vars, to_cam, cam_vars, app_vars>>

\* A camera heartbeat, or a packet of another connection.
NetStray(m) ==
    /\ Strays
    /\ to_app' = to_app \union {m} /\ Cardinality(to_app') <= NetCap
    /\ UNCHANGED <<inner_vars, chan_vars, to_cam, cam_vars, app_vars>>

-----------------------------------------------------------------------------
UdpInit ==
    /\ pc = "select" /\ todo = 0 /\ outq = {}
    /\ packets_sent = 0 /\ packets_want = 0
    /\ sent = {} /\ recieved = <<>> /\ ack_tx = EmptyAck
    /\ thread_sink = <<>> /\ thread_stream = <<>>
    /\ socket_in = <<>> /\ socket_out = <<>> /\ sock = "up"
    /\ to_cam = {} /\ to_app = {}
    /\ cam_got = {} /\ cam_unacked = {} /\ cam_next = 0
    /\ app_written = 0 /\ app_got = <<>>

InnerNext ==
    \/ ResendTick \/ \E id \in outq : ResendFeed(id)
    \/ ResendDone
    \/ TakeWrite \/ ChunkFeed \/ ChunkDone
    \/ FeedFails
    \/ TakePacket \/ TakeNone
    \/ Deliver \/ DeliverDone
    \/ Fail

SocketNext ==
    \/ \E lost \in BOOLEAN : SocketSend(lost)
    \/ \E m \in to_app, again \in BOOLEAN : SocketRecv(m, again)
    \/ SocketDie \/ AckTick \/ HbTick

AppNext == (\E n \in 1 .. MaxChunks : AppWrite(n)) \/ AppRead \/ AppDrop

CamNext ==
    \/ \E m \in to_cam : CamRecvData(m) \/ CamRecvAck(m)
    \/ \E k \in cam_unacked \union {cam_next}, lost \in BOOLEAN : CamSendData(k, lost)
    \/ \E lost \in BOOLEAN : CamSendAck(lost)
    \/ \E m \in StrayPackets : NetStray(m)

\* Nothing more need happen in a session that is over.
Ended == pc \in {"dead", "dropped"} /\ UNCHANGED udp_vars

UdpNext == InnerNext \/ SocketNext \/ AppNext \/ CamNext \/ Ended

UdpSpec == UdpInit /\ [][UdpNext]_udp_vars

\* A packet at the head of the socket task's queue tells the camera something.
News(m) ==
    \/ m.t = "data" /\ m.id \notin cam_got
    \/ m.t = "ack" /\ AckedBy(m.ack) \intersect cam_unacked # {}

PassNews == socket_in # <<>> /\ News(Head(socket_in)) /\ SocketSend(FALSE)

\* What the tasks and the network owe.  tokio polls a task that can run, picks
\* among the ready branches of a select at random, and serves the senders of a
\* full channel in turn (so the inner and the ack task each get their place).
\* The network does not lose every copy of a packet that is sent again and
\* again; the camera and the application keep going.
Fairness ==
    /\ WF_udp_vars(InnerNext)
    /\ SF_udp_vars(ResendTick) /\ SF_udp_vars(TakeWrite) /\ SF_udp_vars(TakePacket \/ TakeNone)
    /\ SF_udp_vars(ChunkFeed \/ \E id \in outq : ResendFeed(id)) /\ SF_udp_vars(AckTick)
    /\ WF_udp_vars(\E lost \in BOOLEAN : SocketSend(lost)) /\ SF_udp_vars(PassNews)
    /\ WF_udp_vars(\E m \in to_cam : CamRecvAck(m))
    /\ \A id \in SendIds : WF_udp_vars(CamRecvData(Data("ours", id, id)))
    /\ \A k \in RecvIds :
          /\ WF_udp_vars(CamSendData(k, FALSE))
          /\ WF_udp_vars(SocketRecv(Data("ours", k, k), FALSE))
    /\ WF_udp_vars(AppRead)

FairSpec == UdpSpec /\ Fairness

-----------------------------------------------------------------------------
Conns == {"ours", "stray"}
UdpAcks == [packet_id : Nat \union {NothingYet}, payload : Seq({0, 1})]
Packets ==
    [t : {"data"}, conn : Conns, id : Nat, payload : Nat \union {StrayPayload}]
    \union [t : {"ack"}, conn : Conns, ack : UdpAcks]
    \union {Hb}
Items == Nat \union {StrayPayload, ErrItem}

\* The type of every variable of the tasks, the channels and the network.
TypeOK ==
    /\ pc \in {"select", "resend", "chunk", "deliver", "fail", "dead", "dropped"}
    /\ todo \in Nat /\ outq \subseteq Nat
    /\ packets_sent \in Nat /\ packets_want \in Nat
    /\ sent \subseteq Nat
    /\ DOMAIN recieved \subseteq Nat
    /\ \A k \in DOMAIN recieved : recieved[k] \in Nat \union {StrayPayload}
    /\ recieved = [k \in DOMAIN recieved |-> recieved[k]]
    /\ ack_tx \in UdpAcks
    /\ thread_sink \in Seq(Nat) /\ Len(thread_sink) <= SinkCap
    /\ thread_stream \in Seq(Items) /\ Len(thread_stream) <= StreamCap
    /\ socket_in \in Seq(Packets) /\ Len(socket_in) <= InCap
    /\ socket_out \in Seq(Packets) /\ Len(socket_out) <= OutCap
    /\ sock \in {"up", "down"}
    /\ to_cam \subseteq Packets /\ to_app \subseteq Packets
    /\ cam_got \subseteq Nat /\ cam_unacked \subseteq Nat /\ cam_next \in Nat
    /\ app_written \in Nat /\ app_got \in Seq(Items)

-----------------------------------------------------------------------------
(* Safety.                                                                 *)

Over == pc \in {"dead", "dropped"}

\* What may be the i-th item of the payload stream.
Expected(i, item) ==
    \/ item = i - 1 /\ i <= packets_want
    \/ item = ErrItem /\ i = packets_want + 1 /\ Over

\* Whatever the network loses, repeats or reorders, and whatever packets of
\* other connections arrive, the application is handed the camera's packets
\* 0, 1, 2, ... each exactly once, and an error only as the last item.
InOrder ==
    /\ Len(app_got) + Len(thread_stream) >= packets_want
    /\ \A i \in DOMAIN app_got : Expected(i, app_got[i])
    /\ \A i \in DOMAIN thread_stream : Expected(Len(app_got) + i, thread_stream[i])

\* An id this end can vouch for: delivered or held.
Held(k) == k < packets_want \/ k \in DOMAIN recieved

Truthful(ack) == \A k \in AckedBy(ack) : Held(k)

\* No ack, in the watch, in the socket's queue or on its way, however old,
\* claims a packet that has not arrived: the bitmap of build_send_ack is not
\* one off against the packet id it starts from.
AckTruthful ==
    /\ Truthful(ack_tx)
    /\ \A i \in DOMAIN socket_in : socket_in[i].t = "ack" => Truthful(socket_in[i].ack)
    /\ \A m \in to_cam : m.t = "ack" => Truthful(m.ack)

\* Bound: of the two directions, which share only the tasks and the channels, one is used.
OneWay == app_written = 0 \/ cam_next = 0

\* A packet leaves the retransmission buffer only when the camera has it, also
\* when acks arrive late, twice or out of order.
SendNoLoss == \A id \in 0 .. packets_sent - 1 : id \in sent \union cam_got

\* A packet the camera has stopped repeating is delivered or held here: the two
\* ends never both forget one.
RecvNoLoss == \A k \in 0 .. cam_next - 1 : k \in cam_unacked \/ Held(k)

-----------------------------------------------------------------------------
(* Liveness.                                                               *)

\* What the application writes reaches the camera as long as the session lasts:
\* no task waits for ever behind another's full channel.
WritesArrive ==
    \A n \in 1 .. MaxSend :
        app_written = n ~> (0 .. n - 1 \subseteq cam_got \/ sock = "down")

\* What the camera sends is read by the application, and the camera learns that
\* it has arrived (the first packet only by the resend interval's ack).
ReadsArrive ==
    \A n \in 1 .. MaxRecv :
        cam_next = n ~> \/ Len(app_got) >= n /\ cam_unacked \subseteq n .. MaxRecv
                        \/ sock = "down"

\* A session that ends under the application is reported to it: the stream ends
\* with the error, it does not just fall silent.
DeathReported ==
    sock = "down" ~> pc = "dropped" \/ \E i \in DOMAIN app_got : app_got[i] = ErrItem
=============================================================================
