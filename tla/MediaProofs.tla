----------------------------- MODULE MediaProofs ----------------------------
(***************************************************************************)
(* What carries the media at both ends: the UDP transport by which it     *)
(* comes from the camera (UdpTransport) and the RTSP server by which it    *)
(* goes to the clients (MediaClock, RtspMedia, RtspMounts).  The two have  *)
(* nothing in common but this module.                                      *)
(***************************************************************************)
EXTENDS UdpTransport, RtspMedia, RtspMounts, SequenceTheorems, TLAPS

-----------------------------------------------------------------------------
(***************************************************************************)
(* The safety of the transport, for sessions of every length, channels of  *)
(* every capacity and networks of every size.                              *)
(*                                                                         *)
(* What reaches the application rests on what is on its way there: a data  *)
(* packet of this connection is one the camera has sent (FromCam), what is *)
(* held is what it was sent as (HeldIsSent), and while the session lasts   *)
(* what was handed over is exactly what is not wanted any more             *)
(* (HandedOver).  What may be forgotten rests on the acks: those of the    *)
(* camera claim only what it has (FromCam), ours only what arrived.        *)
(***************************************************************************)

(* Acks.                                                                   *)

\* What a window is acknowledged with claims the contiguous prefix and the ids
\* held, and nothing else.
LEMMA AckClaims ==
    ASSUME NEW m \in Nat, NEW g \in Int, NEW held \in SUBSET Nat
    PROVE  AckedBy(AckAt(m, g, held)) \subseteq 0 .. m - 1 \union held
<1>1. AckAt(m, g, held).packet_id = m - 1
  BY DEF AckAt
<1>2. ASSUME NEW j \in DOMAIN AckAt(m, g, held).payload, AckAt(m, g, held).payload[j] > 0
      PROVE  (m - 1) + j \in held
  <2>1. j \in 1 .. g + 1 - m /\ (IF m + j - 1 \in held THEN 1 ELSE 0) > 0
    BY <1>2 DEF AckAt
  <2> QED BY <2>1
<1> QED BY <1>1, <1>2 DEF AckedBy

\* build_send_ack claims only what has been delivered or is held.
LEMMA SendAckClaims ==
    ASSUME NEW want \in Nat, NEW held \in SUBSET Nat, NEW ack \in BuildSendAck(want, held)
    PROVE  AckedBy(ack) \subseteq 0 .. want - 1 \union held
<1>1. CASE want = 0
  BY <1>1 DEF BuildSendAck, AckedBy, EmptyAck
<1>2. CASE want > 0
  <2>1. PICK m \in want .. Horizon : \E g \in Int :
           FirstMissing(m, want, held) /\ ack = AckAt(m, g, held)
    BY <1>2 DEF BuildSendAck
  <2>2. want .. m - 1 \subseteq held
    BY <2>1 DEF FirstMissing
  <2>3. AckedBy(ack) \subseteq 0 .. m - 1 \union held
    BY <2>1, AckClaims
  <2> QED BY <2>2, <2>3
<1> QED BY <1>1, <1>2

\* build_send_ack makes acks.
LEMMA SendAckType ==
    ASSUME NEW want \in Nat, NEW held \in SUBSET Nat, NEW ack \in BuildSendAck(want, held)
    PROVE  ack \in UdpAcks
<1>1. EmptyAck \in UdpAcks
  <2>1. <<>> \in Seq({0, 1})
    BY EmptySeq
  <2> QED BY <2>1 DEF EmptyAck, UdpAcks
<1>2. CASE want = 0
  BY <1>1, <1>2 DEF BuildSendAck
<1>3. CASE want > 0
  <2>1. PICK m \in want .. Horizon : \E g \in m - 1 .. Horizon : ack = AckAt(m, g, held)
    BY <1>3 DEF BuildSendAck
  <2> PICK g \in m - 1 .. Horizon : ack = AckAt(m, g, held)
    BY <2>1
  <2>2. m - 1 \in Nat /\ g + 1 - m \in Nat
    BY <1>3, <2>1
  <2> DEFINE n == g + 1 - m
  <2>3. [i \in 1 .. n |-> IF m + i - 1 \in held THEN 1 ELSE 0] \in [1 .. n -> {0, 1}]
    OBVIOUS
  <2>4. [i \in 1 .. n |-> IF m + i - 1 \in held THEN 1 ELSE 0] \in Seq({0, 1})
    BY <2>2, <2>3
  <2> QED BY <2>1, <2>2, <2>4 DEF AckAt, UdpAcks
<1> QED BY <1>2, <1>3

-----------------------------------------------------------------------------
(* Type correctness.                                                       *)

\* The packets the tasks, the camera and the network make are packets.
LEMMA PacketTypes ==
    /\ \A k \in Nat : Data("ours", k, k) \in Packets
    /\ \A ack \in UdpAcks : Ack("ours", ack) \in Packets
    /\ Hb \in Packets
    /\ StrayPackets \subseteq Packets
    /\ EmptyAck \in UdpAcks
<1>1. <<>> \in Seq({0, 1})
  BY EmptySeq
<1>2. EmptyAck \in UdpAcks
  BY <1>1 DEF EmptyAck, UdpAcks
<1>3. Horizon \in Nat
  BY TransportAssumption DEF Horizon
<1>4. [packet_id |-> Horizon, payload |-> <<>>] \in UdpAcks
  BY <1>1, <1>3 DEF UdpAcks
<1>5. \A k \in Nat : Data("ours", k, k) \in Packets
  BY DEF Data, Packets, Conns
<1>6. Data("stray", 0, StrayPayload) \in Packets
  BY DEF Data, Packets, Conns
<1>7. \A ack \in UdpAcks, conn \in Conns : Ack(conn, ack) \in Packets
  BY DEF Ack, Packets
<1>8. Hb \in Packets
  BY DEF Packets
<1> QED BY <1>2, <1>4, <1>5, <1>6, <1>7, <1>8 DEF StrayPackets, Conns

\* What a packet's kind says of its fields.
LEMMA PacketFields ==
    ASSUME NEW m \in Packets
    PROVE  /\ m.t = "data" => m.id \in Nat /\ m.payload \in Nat \union {StrayPayload}
           /\ m.t = "ack" => m.ack \in UdpAcks
  BY DEF Packets, Hb

\* What is in a queue has the type of its items.
LEMMA Item ==
    ASSUME NEW S, NEW q \in Seq(S), NEW i \in DOMAIN q
    PROVE  q[i] \in S
  BY LenProperties

\* A queue that is not empty has its head in first place.
LEMMA First ==
    ASSUME NEW S, NEW q \in Seq(S), q # <<>>
    PROVE  Head(q) = q[1] /\ 1 \in DOMAIN q
  BY HeadTailProperties, LenProperties, EmptySeq

\* Taking the head of a bounded queue keeps it one.
LEMMA Taken ==
    ASSUME NEW S, NEW q \in Seq(S), NEW cap \in Nat, Len(q) <= cap, q # <<>>
    PROVE  Head(q) \in S /\ Tail(q) \in Seq(S) /\ Len(Tail(q)) <= cap
  BY HeadTailProperties, LenProperties

\* So does putting something at its end while there is room.
LEMMA Put ==
    ASSUME NEW S, NEW q \in Seq(S), NEW cap \in Nat, Len(q) < cap, NEW x \in S
    PROVE  Append(q, x) \in Seq(S) /\ Len(Append(q, x)) <= cap
  OBVIOUS

\* The capacities are natural numbers.
LEMMA Capacities ==
    {SinkCap, StreamCap, InCap, OutCap} \subseteq Nat /\ \A n \in 1 .. MaxChunks : n \in Nat
  BY TransportAssumption

\* A packet the network accepts is in it afterwards, and nothing else is new.
LEMMA TransmitAdds ==
    ASSUME NEW m, NEW net, NEW net_new, NEW lost, Transmit(m, net, net_new, lost)
    PROVE  net_new \subseteq net \union {m}
  BY DEF Transmit

\* The inner task keeps the types.
LEMMA TypeInner ==
    ASSUME TypeOK, InnerNext
    PROVE  TypeOK'
<1> USE DEF TypeOK
<1>1. DOMAIN recieved \in SUBSET Nat /\ ErrItem \in Items /\ Nat \union {StrayPayload} \subseteq Items
  BY DEF Items
<1>2. CASE ResendTick
  BY <1>2 DEF ResendTick, chan_vars, cam_vars, app_vars
<1>3. ASSUME NEW id \in outq, ResendFeed(id) PROVE TypeOK'
  <2>1. Data("ours", id, id) \in Packets
    BY PacketTypes
  <2>2. socket_in' \in Seq(Packets) /\ Len(socket_in') <= InCap
    BY <1>3, <2>1, Put, Capacities DEF ResendFeed
  <2> QED BY <1>3, <2>2 DEF ResendFeed, cam_vars, app_vars
<1>4. CASE ResendDone
  <2>1. ack_tx' \in UdpAcks
    BY <1>1, <1>4, SendAckType DEF ResendDone
  <2> QED BY <1>4, <2>1 DEF ResendDone, chan_vars, cam_vars, app_vars
<1>5. CASE TakeWrite
  <2>1. todo' \in Nat /\ thread_sink' \in Seq(Nat) /\ Len(thread_sink') <= SinkCap
    <3>1. thread_sink \in Seq(Nat) /\ Len(thread_sink) <= SinkCap /\ thread_sink # <<>>
      BY <1>5 DEF TakeWrite
    <3>2. Head(thread_sink) \in Nat /\ Tail(thread_sink) \in Seq(Nat)
          /\ Len(Tail(thread_sink)) <= SinkCap
      BY <3>1, Taken, Capacities
    <3> QED BY <1>5, <3>2 DEF TakeWrite
  <2> QED BY <1>5, <2>1 DEF TakeWrite, cam_vars, app_vars
<1>6. CASE ChunkFeed
  <2>1. Data("ours", packets_sent, packets_sent) \in Packets
    BY PacketTypes
  <2>2. socket_in' \in Seq(Packets) /\ Len(socket_in') <= InCap
    BY <1>6, <2>1, Put, Capacities DEF ChunkFeed
  <2>3. packets_sent' \in Nat /\ todo' \in Nat /\ sent' \subseteq Nat
    BY <1>6 DEF ChunkFeed
  <2> QED BY <1>6, <2>2, <2>3 DEF ChunkFeed, cam_vars, app_vars
<1>7. CASE ChunkDone \/ FeedFails \/ TakeNone \/ DeliverDone
  BY <1>7 DEF ChunkDone, FeedFails, TakeNone, DeliverDone, chan_vars, cam_vars, app_vars
<1>8. CASE TakePacket
  <2> DEFINE m == Head(socket_out)
  <2>1. m \in Packets /\ socket_out' \in Seq(Packets) /\ Len(socket_out') <= OutCap
    BY <1>8, Taken, Capacities DEF TakePacket
  <2>2. ASSUME m.t = "data", KeepData(m)
        PROVE  /\ DOMAIN recieved' \subseteq Nat
               /\ \A k \in DOMAIN recieved' : recieved'[k] \in Nat \union {StrayPayload}
               /\ recieved' = [k \in DOMAIN recieved' |-> recieved'[k]]
               /\ ack_tx' \in UdpAcks /\ sent' \subseteq Nat
    <3>1. m.id \in Nat /\ m.payload \in Nat \union {StrayPayload}
      BY <2>1, <2>2, PacketFields
    <3>2. DOMAIN recieved' = DOMAIN recieved \union {m.id}
      BY <2>2 DEF KeepData
    <3>3. ack_tx' \in UdpAcks
      BY <1>1, <2>2, <3>1, <3>2, SendAckType DEF KeepData
    <3> QED BY <2>2, <3>1, <3>2, <3>3 DEF KeepData
  <2>3. ASSUME IgnoreData(m) \/ TakeAck(m) \/ UNCHANGED <<recieved, ack_tx, sent>>
        PROVE  recieved' = recieved /\ ack_tx' = ack_tx /\ sent' \subseteq Nat
    BY <2>3 DEF IgnoreData, TakeAck, HandleAck
  <2> HIDE DEF m
  <2>4. /\ DOMAIN recieved' \subseteq Nat
        /\ \A k \in DOMAIN recieved' : recieved'[k] \in Nat \union {StrayPayload}
        /\ recieved' = [k \in DOMAIN recieved' |-> recieved'[k]]
        /\ ack_tx' \in UdpAcks /\ sent' \subseteq Nat
    BY <1>8, <2>2, <2>3 DEF TakePacket, m
  <2> QED BY <1>8, <2>1, <2>4 DEF TakePacket, cam_vars, app_vars
<1>9. CASE Deliver
  <2>1. recieved[packets_want] \in Items
    BY <1>1, <1>9 DEF Deliver
  <2>2. thread_stream' \in Seq(Items) /\ Len(thread_stream') <= StreamCap
    BY <1>9, <2>1, Put, Capacities DEF Deliver
  <2>3. /\ DOMAIN recieved' = DOMAIN recieved \ {packets_want}
        /\ \A k \in DOMAIN recieved' : recieved'[k] = recieved[k]
        /\ recieved' = [k \in DOMAIN recieved' |-> recieved'[k]]
    BY <1>9, SMTT(30) DEF Deliver
  <2> QED BY <1>9, <2>2, <2>3 DEF Deliver, cam_vars, app_vars
<1>10. CASE Fail
  <2>1. thread_stream' \in Seq(Items) /\ Len(thread_stream') <= StreamCap
    BY <1>1, <1>10, Put, Capacities DEF Fail
  <2> QED BY <1>10, <2>1 DEF Fail, cam_vars, app_vars
<1> QED
  BY <1>2, <1>3, <1>4, <1>5, <1>6, <1>7, <1>8, <1>9, <1>10 DEF InnerNext

\* So do the socket, ack and heartbeat tasks.
LEMMA TypeSocket ==
    ASSUME TypeOK, SocketNext
    PROVE  TypeOK'
<1> USE DEF TypeOK
<1>1. ASSUME NEW lost \in BOOLEAN, SocketSend(lost) PROVE TypeOK'
  <2>1. /\ Head(socket_in) \in Packets /\ socket_in' \in Seq(Packets)
        /\ Len(socket_in') <= InCap
    BY <1>1, Taken, Capacities DEF SocketSend
  <2>2. to_cam' \subseteq Packets
    BY <1>1, <2>1, TransmitAdds DEF SocketSend
  <2> QED BY <1>1, <2>1, <2>2 DEF SocketSend, inner_vars, cam_vars, app_vars
<1>2. ASSUME NEW m \in to_app, NEW again \in BOOLEAN, SocketRecv(m, again) PROVE TypeOK'
  <2>1. socket_out' \in Seq(Packets) /\ Len(socket_out') <= OutCap
    <3>1. m \in Packets
      BY <1>2
    <3>2. CASE Len(socket_out) < OutCap
      <4>1. socket_out' = Append(socket_out, m)
        BY <1>2, <3>2 DEF SocketRecv
      <4> QED BY <3>1, <3>2, <4>1, Put, Capacities
    <3>3. CASE ~(Len(socket_out) < OutCap)
      BY <1>2, <3>3 DEF SocketRecv
    <3> QED BY <3>2, <3>3
  <2> QED BY <1>2, <2>1 DEF SocketRecv, inner_vars, cam_vars, app_vars
<1>3. CASE SocketDie
  BY <1>3 DEF SocketDie, inner_vars, cam_vars, app_vars
<1>4. ASSUME NEW m \in Packets, Tick(m) PROVE TypeOK'
  <2>1. socket_in' \in Seq(Packets) /\ Len(socket_in') <= InCap
    BY <1>4, Put, Capacities DEF Tick
  <2> QED BY <1>4, <2>1 DEF Tick, inner_vars, cam_vars, app_vars
<1>5. Ack("ours", ack_tx) \in Packets /\ Hb \in Packets
  BY PacketTypes
<1> QED BY <1>1, <1>2, <1>3, <1>4, <1>5 DEF SocketNext, AckTick, HbTick

\* So do the application and the camera.
LEMMA TypeOthers ==
    ASSUME TypeOK, AppNext \/ CamNext \/ Ended
    PROVE  TypeOK'
<1> USE DEF TypeOK
<1>1. ASSUME NEW n \in 1 .. MaxChunks, AppWrite(n) PROVE TypeOK'
  <2>1. n \in Nat
    BY Capacities
  <2>2. thread_sink' \in Seq(Nat) /\ Len(thread_sink') <= SinkCap
    BY <1>1, <2>1, Put, Capacities DEF AppWrite
  <2>3. app_written' \in Nat
    BY <1>1, <2>1 DEF AppWrite
  <2> QED BY <1>1, <2>2, <2>3 DEF AppWrite, inner_vars, cam_vars
<1>2. CASE AppRead
  <2>1. /\ thread_stream' \in Seq(Items) /\ Len(thread_stream') <= StreamCap
        /\ app_got' \in Seq(Items)
    <3>1. thread_stream \in Seq(Items) /\ Len(thread_stream) <= StreamCap /\ thread_stream # <<>>
      BY <1>2 DEF AppRead
    <3>2. Head(thread_stream) \in Items /\ Tail(thread_stream) \in Seq(Items)
          /\ Len(Tail(thread_stream)) <= StreamCap
      BY <3>1, Taken, Capacities
    <3> QED BY <1>2, <3>2 DEF AppRead
  <2> QED BY <1>2, <2>1 DEF AppRead, inner_vars, cam_vars
<1>3. CASE AppDrop
  BY <1>3 DEF AppDrop, cam_vars, app_vars
<1>4. ASSUME NEW m \in to_cam, CamRecvData(m) \/ CamRecvAck(m) PROVE TypeOK'
  <2>1. m \in Packets /\ (m.t = "data" => m.id \in Nat)
    BY <1>4, PacketFields
  <2> QED BY <1>4, <2>1 DEF CamRecvData, CamRecvAck, inner_vars, chan_vars, app_vars
<1>5. ASSUME NEW k \in cam_unacked \union {cam_next}, NEW lost \in BOOLEAN, CamSendData(k, lost)
      PROVE  TypeOK'
  <2>1. k \in Nat /\ Data("ours", k, k) \in Packets
    BY <1>5, PacketTypes
  <2>2. to_app' \subseteq Packets
    BY <1>5, <2>1, TransmitAdds DEF CamSendData
  <2> QED BY <1>5, <2>1, <2>2 DEF CamSendData, inner_vars, chan_vars, app_vars
<1>6. ASSUME NEW lost \in BOOLEAN, CamSendAck(lost) PROVE TypeOK'
  <2>1. PICK m \in 0 .. Horizon : \E ack \in BuildSendAck(m, cam_got) :
                                     Transmit(Ack("ours", ack), to_app, to_app', lost)
    BY <1>6 DEF CamSendAck
  <2> PICK ack \in BuildSendAck(m, cam_got) : Transmit(Ack("ours", ack), to_app, to_app', lost)
    BY <2>1
  <2>2. Ack("ours", ack) \in Packets
    <3>1. m \in Nat /\ cam_got \in SUBSET Nat
      OBVIOUS
    <3>2. ack \in UdpAcks
      BY <3>1, SendAckType
    <3> QED BY <3>2, PacketTypes
  <2>3. to_app' \subseteq Packets
    BY <2>2, TransmitAdds
  <2> QED BY <1>6, <2>3 DEF CamSendAck, inner_vars, chan_vars, cam_vars, app_vars
<1>7. ASSUME NEW m \in StrayPackets, NetStray(m) PROVE TypeOK'
  BY <1>7, PacketTypes DEF NetStray, inner_vars, chan_vars, cam_vars, app_vars
<1>8. CASE Ended
  BY <1>8 DEF Ended, udp_vars, inner_vars, chan_vars, cam_vars, app_vars
<1> QED
  BY <1>1, <1>2, <1>3, <1>4, <1>5, <1>6, <1>7, <1>8 DEF AppNext, CamNext

\* A session starts with nothing sent, received, queued or on its way.
LEMMA TypeInit == UdpInit => TypeOK
<1>1. \A S : <<>> \in Seq(S) /\ Len(<<>>) = 0
  BY EmptySeq
<1>2. EmptyAck \in UdpAcks
  BY PacketTypes
<1> SUFFICES ASSUME UdpInit PROVE TypeOK
  OBVIOUS
<1>3. DOMAIN recieved = {} /\ recieved = [k \in DOMAIN recieved |-> recieved[k]]
  BY DEF UdpInit
<1> QED BY <1>1, <1>2, <1>3, TransportAssumption DEF UdpInit, TypeOK

\* Every step keeps the types.
LEMMA TypeStep == TypeOK /\ [UdpNext]_udp_vars => TypeOK'
<1> SUFFICES ASSUME TypeOK, [UdpNext]_udp_vars PROVE TypeOK'
  OBVIOUS
<1>1. CASE UNCHANGED udp_vars
  BY <1>1 DEF udp_vars, inner_vars, chan_vars, cam_vars, app_vars, TypeOK
<1> QED BY <1>1, TypeInner, TypeSocket, TypeOthers DEF UdpNext

\* Every variable of the tasks, the channels and the network keeps its type, and
\* no channel ever holds more than its capacity.
THEOREM TypeCorrect == UdpSpec => []TypeOK
  BY TypeInit, TypeStep, PTL DEF UdpSpec

-----------------------------------------------------------------------------
(* What comes from the camera.                                             *)

\* m is not of this connection, or one that a camera which has sent n packets
\* and received the ids got may have sent.
FromCam(m, n, got) ==
    m.conn = "ours" =>
        /\ m.t = "data" => m.payload = m.id /\ m.id < n
        /\ m.t = "ack" => AckedBy(m.ack) \subseteq got

FromCamNow(m) == FromCam(m, cam_next, cam_got)
FromCamNext(m) == FromCam(m, cam_next', cam_got')

\* Packets of this connection on their way to the inner task are the camera's.
ArrivalsOK ==
    /\ \A m \in to_app : FromCamNow(m)
    /\ \A i \in DOMAIN socket_out : FromCamNow(socket_out[i])

\* The camera keeps for retransmission only what it has sent.
UnackedIsSent == \A k \in cam_unacked : k < cam_next

\* What the camera has sent and received only grows.
CamGrows == cam_next <= cam_next' /\ cam_got \subseteq cam_got'

LEMMA FromCamKept ==
    ASSUME TypeOK, TypeOK', CamGrows, NEW m \in Packets, FromCamNow(m)
    PROVE  FromCamNext(m)
<1>1. m.t = "data" => m.id \in Nat
  BY PacketFields
<1>2. cam_next \in Nat /\ cam_next' \in Nat
  BY DEF TypeOK
<1> QED BY <1>1, <1>2 DEF FromCam, FromCamNow, FromCamNext, CamGrows

\* The camera never goes back on what it has sent or received.
LEMMA CamGrowsStep ==
    ASSUME TypeOK, UnackedIsSent, [UdpNext]_udp_vars
    PROVE  CamGrows /\ UnackedIsSent'
<1>1. cam_next \in Nat /\ cam_unacked \subseteq Nat
  BY DEF TypeOK
<1> DEFINE Same == UNCHANGED cam_vars
<1>0. Same => CamGrows /\ UnackedIsSent'
  BY <1>1 DEF cam_vars, CamGrows, UnackedIsSent
<1>2. CASE InnerNext
  <2>1. Same
    BY <1>2
     DEF InnerNext, ResendTick, ResendFeed, ResendDone, TakeWrite, ChunkFeed, ChunkDone,
         FeedFails, TakePacket, TakeNone, Deliver, DeliverDone, Fail
  <2> QED BY <1>0, <2>1
<1>3. CASE SocketNext
  <2>1. Same
    BY <1>3 DEF SocketNext, SocketSend, SocketRecv, SocketDie, AckTick, HbTick, Tick
  <2> QED BY <1>0, <2>1
<1>4. CASE AppNext
  <2>1. Same
    BY <1>4 DEF AppNext, AppWrite, AppRead, AppDrop
  <2> QED BY <1>0, <2>1
<1>5. CASE CamNext
  <2>1. ASSUME NEW m \in to_cam, CamRecvData(m) \/ CamRecvAck(m) PROVE CamGrows /\ UnackedIsSent'
    <3>1. /\ cam_next' = cam_next /\ cam_got \subseteq cam_got'
          /\ cam_unacked' \subseteq cam_unacked
      BY <2>1 DEF CamRecvData, CamRecvAck
    <3> QED BY <1>1, <3>1 DEF CamGrows, UnackedIsSent
  <2>2. ASSUME NEW k \in cam_unacked \union {cam_next}, NEW lost \in BOOLEAN, CamSendData(k, lost)
        PROVE  CamGrows /\ UnackedIsSent'
    BY <1>1, <2>2 DEF CamSendData, CamGrows, UnackedIsSent
  <2>3. ASSUME NEW lost \in BOOLEAN, CamSendAck(lost) PROVE CamGrows /\ UnackedIsSent'
    BY <1>1, <2>3 DEF CamSendAck, cam_vars, CamGrows, UnackedIsSent
  <2>4. ASSUME NEW m \in StrayPackets, NetStray(m) PROVE CamGrows /\ UnackedIsSent'
    BY <1>1, <2>4 DEF NetStray, cam_vars, CamGrows, UnackedIsSent
  <2> QED BY <1>5, <2>1, <2>2, <2>3, <2>4 DEF CamNext
<1>6. CASE Ended \/ UNCHANGED udp_vars
  BY <1>6, <1>0 DEF Ended, udp_vars
<1> QED BY <1>2, <1>3, <1>4, <1>5, <1>6 DEF UdpNext

\* Taking the head of a queue leaves in it only what was in it.
LEMMA TailIn ==
    ASSUME NEW S, NEW q \in Seq(S), q # <<>>
    PROVE  \A i \in DOMAIN Tail(q) : \E j \in DOMAIN q : Tail(q)[i] = q[j]
<1> SUFFICES ASSUME NEW i \in DOMAIN Tail(q) PROVE \E j \in DOMAIN q : Tail(q)[i] = q[j]
  OBVIOUS
<1>1. i \in Nat /\ i + 1 \in DOMAIN q /\ Tail(q)[i] = q[i + 1]
  BY HeadTailProperties, LenProperties
<1> QED BY <1>1

\* What is put at the end of a queue is what is new in it.
LEMMA AppendIn ==
    ASSUME NEW S, NEW q \in Seq(S), NEW x \in S
    PROVE  \A i \in DOMAIN Append(q, x) :
              Append(q, x)[i] = x \/ \E j \in DOMAIN q : Append(q, x)[i] = q[j]
  OBVIOUS

\* Nothing reaches socket_out but from the network, and nothing the network for
\* this connection but from the camera.
LEMMA ArrivalsStep ==
    ASSUME TypeOK, TypeOK', CamGrows, UnackedIsSent, ArrivalsOK, [UdpNext]_udp_vars
    PROVE  ArrivalsOK'
<1>1. \A m \in to_app : FromCamNext(m)
  BY FromCamKept DEF ArrivalsOK, TypeOK
<1>2. \A i \in DOMAIN socket_out : FromCamNext(socket_out[i])
  <2> SUFFICES ASSUME NEW i \in DOMAIN socket_out PROVE FromCamNext(socket_out[i])
    OBVIOUS
  <2>1. socket_out[i] \in Packets
    <3>1. socket_out \in Seq(Packets)
      BY DEF TypeOK
    <3> QED BY <3>1, Item
  <2>2. FromCamNow(socket_out[i])
    BY DEF ArrivalsOK
  <2> QED BY <2>1, <2>2, FromCamKept
<1>3. ASSUME UNCHANGED <<to_app, socket_out>> PROVE ArrivalsOK'
  BY <1>1, <1>2, <1>3 DEF ArrivalsOK, FromCam, FromCamNow, FromCamNext
<1>4. ASSUME TakePacket PROVE ArrivalsOK'
  <2>1. to_app' = to_app /\ socket_out # <<>> /\ socket_out' = Tail(socket_out)
    BY <1>4 DEF TakePacket
  <2>2. \A i \in DOMAIN socket_out' : \E j \in DOMAIN socket_out : socket_out'[i] = socket_out[j]
    <3>1. socket_out \in Seq(Packets)
      BY DEF TypeOK
    <3> QED BY <2>1, <3>1, TailIn
  <2>3. \A i \in DOMAIN socket_out' : FromCamNext(socket_out'[i])
    BY <1>2, <2>2
  <2>4. \A m \in to_app' : FromCamNext(m)
    BY <1>1, <2>1
  <2> QED BY <2>3, <2>4 DEF ArrivalsOK, FromCamNow, FromCamNext
<1>5. CASE InnerNext /\ ~TakePacket
  BY <1>3, <1>5
     DEF InnerNext, ResendTick, ResendFeed, ResendDone, TakeWrite, ChunkFeed, ChunkDone,
         FeedFails, TakeNone, Deliver, DeliverDone, Fail, chan_vars
<1>6. ASSUME NEW m \in to_app, NEW again \in BOOLEAN, SocketRecv(m, again) PROVE ArrivalsOK'
  <2>1. to_app' \subseteq to_app
    BY <1>6 DEF SocketRecv
  <2>2. socket_out' = socket_out \/ socket_out' = Append(socket_out, m)
    BY <1>6 DEF SocketRecv
  <2>3. m \in Packets /\ socket_out \in Seq(Packets)
    BY DEF TypeOK
  <2>4. \A i \in DOMAIN socket_out' :
           socket_out'[i] = m \/ \E j \in DOMAIN socket_out : socket_out'[i] = socket_out[j]
    BY <2>2, <2>3, AppendIn
  <2> QED BY <1>1, <1>2, <2>1, <2>4 DEF ArrivalsOK, FromCam, FromCamNow, FromCamNext
<1>7. CASE SocketNext /\ ~(\E m \in to_app, again \in BOOLEAN : SocketRecv(m, again))
  BY <1>3, <1>7 DEF SocketNext, SocketSend, SocketDie, AckTick, HbTick, Tick
<1>8. CASE AppNext
  BY <1>3, <1>8 DEF AppNext, AppWrite, AppRead, AppDrop
<1>9. ASSUME NEW m, FromCamNext(m), to_app' \subseteq to_app \union {m}, socket_out' = socket_out
      PROVE  ArrivalsOK'
  BY <1>1, <1>2, <1>9 DEF ArrivalsOK, FromCam, FromCamNow, FromCamNext
<1>10. CASE CamNext
  <2>1. ASSUME NEW m \in to_cam, CamRecvData(m) \/ CamRecvAck(m) PROVE ArrivalsOK'
    BY <1>3, <2>1 DEF CamRecvData, CamRecvAck, chan_vars
  <2>2. ASSUME NEW k \in cam_unacked \union {cam_next}, NEW lost \in BOOLEAN, CamSendData(k, lost)
        PROVE  ArrivalsOK'
    <3> DEFINE m == Data("ours", k, k)
    <3>1. to_app' \subseteq to_app \union {m} /\ socket_out' = socket_out
      BY <2>2, TransmitAdds DEF CamSendData, chan_vars
    <3>2. CASE k < cam_next'
      <4>1. FromCamNext(m)
        BY <3>2 DEF FromCam, FromCamNow, FromCamNext, Data
      <4> QED BY <1>9, <3>1, <4>1
    <3>3. k < cam_next'
      <4>1. k \in Nat /\ cam_next \in Nat /\ cam_next' \in Nat /\ cam_next <= cam_next'
        BY DEF TypeOK, CamGrows
      <4>2. CASE k = cam_next
        BY <2>2, <4>1, <4>2 DEF CamSendData
      <4>3. CASE k \in cam_unacked
        BY <4>1, <4>3 DEF UnackedIsSent
      <4> QED BY <4>2, <4>3
    <3> QED BY <3>2, <3>3
  <2>3. ASSUME NEW lost \in BOOLEAN, CamSendAck(lost) PROVE ArrivalsOK'
    <3>1. PICK n \in 0 .. Horizon :
             /\ FirstMissing(n, 0, cam_got)
             /\ \E ack \in BuildSendAck(n, cam_got) :
                   Transmit(Ack("ours", ack), to_app, to_app', lost)
      BY <2>3 DEF CamSendAck
    <3> PICK ack \in BuildSendAck(n, cam_got) : Transmit(Ack("ours", ack), to_app, to_app', lost)
      BY <3>1
    <3>2. n \in Nat /\ cam_got \in SUBSET Nat /\ 0 .. n - 1 \subseteq cam_got
      <4>1. n \in Nat /\ cam_got \in SUBSET Nat
        BY DEF TypeOK
      <4> QED BY <3>1, <4>1 DEF FirstMissing
    <3>3. AckedBy(ack) \subseteq cam_got /\ cam_got' = cam_got
      BY <2>3, <3>2, SendAckClaims DEF CamSendAck, cam_vars
    <3>4. FromCamNext(Ack("ours", ack))
      BY <3>3 DEF FromCam, FromCamNow, FromCamNext, Ack
    <3>5. to_app' \subseteq to_app \union {Ack("ours", ack)} /\ socket_out' = socket_out
      BY <2>3, TransmitAdds DEF CamSendAck, chan_vars
    <3> QED BY <1>9, <3>4, <3>5
  <2>4. ASSUME NEW m \in StrayPackets, NetStray(m) PROVE ArrivalsOK'
    <3>1. FromCamNext(m)
      BY DEF StrayPackets, FromCam, FromCamNow, FromCamNext, Data, Ack, Hb
    <3> QED BY <1>9, <2>4, <3>1 DEF NetStray, chan_vars
  <2> QED BY <1>10, <2>1, <2>2, <2>3, <2>4 DEF CamNext
<1>11. CASE Ended \/ UNCHANGED udp_vars
  BY <1>3, <1>11 DEF Ended, udp_vars, chan_vars
<1> QED BY <1>4, <1>5, <1>6, <1>7, <1>8, <1>10, <1>11 DEF UdpNext

-----------------------------------------------------------------------------
(* In order, each once.                                                    *)

\* What is held is what the camera sent under that id.
HeldIsSent == \A k \in DOMAIN recieved : recieved[k] = k

\* While the session lasts, what was handed over is what is wanted no more.
HandedOver == ~Over => Len(app_got) + Len(thread_stream) = packets_want

\* The steps that move payloads, or end the session.
MovesPayload == TakePacket \/ Deliver \/ Fail \/ AppRead \/ AppDrop

\* No other step touches the payloads.
LEMMA OtherSteps ==
    ASSUME [UdpNext]_udp_vars, ~MovesPayload
    PROVE  UNCHANGED <<app_got, thread_stream, packets_want, recieved>> /\ (Over <=> Over')
<1> USE DEF Over
<1>1. CASE InnerNext
  BY <1>1 DEF InnerNext, MovesPayload, ResendTick, ResendFeed, ResendDone, TakeWrite, ChunkFeed,
              ChunkDone, FeedFails, TakeNone, DeliverDone, chan_vars, app_vars
<1>2. CASE SocketNext
  BY <1>2 DEF SocketNext, SocketSend, SocketRecv, SocketDie, AckTick, HbTick, Tick,
              inner_vars, app_vars
<1>3. CASE AppNext
  BY <1>3 DEF AppNext, MovesPayload, AppWrite, inner_vars
<1>4. CASE CamNext
  BY <1>4 DEF CamNext, CamRecvData, CamRecvAck, CamSendData, CamSendAck, NetStray,
              inner_vars, chan_vars, app_vars
<1>5. CASE Ended \/ UNCHANGED udp_vars
  BY <1>5 DEF Ended, udp_vars, inner_vars, chan_vars, app_vars
<1> QED BY <1>1, <1>2, <1>3, <1>4, <1>5 DEF UdpNext

\* A packet of this connection is kept under its id.
LEMMA HeldStep ==
    ASSUME TypeOK, ArrivalsOK, HeldIsSent, [UdpNext]_udp_vars
    PROVE  HeldIsSent'
<1>1. CASE TakePacket
  <2> DEFINE m == Head(socket_out)
  <2>1. m \in Packets /\ FromCamNow(m)
    <3>1. socket_out \in Seq(Packets) /\ socket_out # <<>>
      BY <1>1 DEF TypeOK, TakePacket
    <3>2. m = socket_out[1] /\ 1 \in DOMAIN socket_out /\ m \in Packets
      BY <3>1, HeadTailProperties, LenProperties, EmptySeq
    <3> QED BY <3>2 DEF ArrivalsOK
  <2>2. ASSUME m.t = "data", KeepData(m) PROVE HeldIsSent'
    <3>1. m.payload = m.id
      BY <2>1, <2>2 DEF KeepData, FromCamNow, FromCam
    <3> QED BY <2>2, <3>1 DEF KeepData, HeldIsSent
  <2>3. ASSUME recieved' = recieved PROVE HeldIsSent'
    BY <2>3 DEF HeldIsSent
  <2> QED BY <1>1, <2>2, <2>3 DEF TakePacket, IgnoreData, TakeAck
<1>2. CASE Deliver
  BY <1>2 DEF Deliver, HeldIsSent
<1>3. CASE Fail \/ AppRead \/ AppDrop
  BY <1>3 DEF Fail, AppRead, AppDrop, inner_vars, HeldIsSent
<1>4. CASE ~MovesPayload
  BY <1>4, OtherSteps DEF HeldIsSent
<1> QED BY <1>1, <1>2, <1>3, <1>4 DEF MovesPayload

\* The payload stream goes on with the packet that is wanted next, and ends with
\* the error.
LEMMA OrderStep ==
    ASSUME TypeOK, HeldIsSent, HandedOver, InOrder, [UdpNext]_udp_vars
    PROVE  HandedOver' /\ InOrder'
<1> DEFINE a == Len(app_got)
           t == Len(thread_stream)
<1>1. /\ app_got \in Seq(Items) /\ thread_stream \in Seq(Items) /\ packets_want \in Nat
      /\ a \in Nat /\ t \in Nat
      /\ DOMAIN app_got = 1 .. a /\ DOMAIN thread_stream = 1 .. t
  BY LenProperties DEF TypeOK
<1>2. CASE TakePacket
  <2>1. UNCHANGED <<app_got, thread_stream, packets_want>> /\ ~Over /\ ~Over'
    BY <1>2 DEF TakePacket, app_vars, Over
  <2> QED BY <2>1 DEF HandedOver, InOrder, Expected
<1>3. CASE Deliver
  <2>1. /\ thread_stream' = Append(thread_stream, packets_want)
        /\ packets_want' = packets_want + 1 /\ app_got' = app_got /\ ~Over /\ ~Over'
    BY <1>3 DEF Deliver, HeldIsSent, app_vars, Over
  <2>2. a + t = packets_want
    BY <2>1 DEF HandedOver
  <2>3. /\ Len(thread_stream') = t + 1 /\ thread_stream'[t + 1] = packets_want
        /\ \A i \in 1 .. t : thread_stream'[i] = thread_stream[i]
        /\ DOMAIN thread_stream' = 1 .. t + 1
    BY <1>1, <2>1
  <2>4. HandedOver'
    BY <1>1, <2>1, <2>2, <2>3 DEF HandedOver
  <2>5. \A i \in DOMAIN app_got' : Expected(i, app_got[i])'
    BY <1>1, <2>1 DEF InOrder, Expected
  <2>6. \A i \in DOMAIN thread_stream' : Expected(Len(app_got) + i, thread_stream[i])'
    <3> SUFFICES ASSUME NEW i \in 1 .. t + 1 PROVE Expected(Len(app_got) + i, thread_stream[i])'
      BY <2>3
    <3>1. CASE i = t + 1
      BY <1>1, <2>1, <2>2, <2>3, <3>1 DEF Expected
    <3>2. CASE i # t + 1
      <4>1. i \in 1 .. t /\ thread_stream'[i] = thread_stream[i]
        BY <1>1, <2>3, <3>2
      <4>2. Expected(a + i, thread_stream[i])
        BY <1>1, <4>1 DEF InOrder
      <4> QED BY <1>1, <2>1, <4>1, <4>2 DEF Expected
    <3> QED BY <3>1, <3>2
  <2>7. Len(app_got') + Len(thread_stream') >= packets_want'
    BY <1>1, <2>1, <2>2, <2>3
  <2> QED BY <2>4, <2>5, <2>6, <2>7 DEF InOrder
<1>4. CASE Fail
  <2>1. /\ thread_stream' = Append(thread_stream, ErrItem)
        /\ packets_want' = packets_want /\ app_got' = app_got /\ ~Over /\ Over'
    BY <1>4 DEF Fail, app_vars, Over
  <2>2. a + t = packets_want
    BY <2>1 DEF HandedOver
  <2>3. /\ Len(thread_stream') = t + 1 /\ thread_stream'[t + 1] = ErrItem
        /\ \A i \in 1 .. t : thread_stream'[i] = thread_stream[i]
        /\ DOMAIN thread_stream' = 1 .. t + 1
    BY <1>1, <2>1
  <2>4. HandedOver'
    BY <2>1 DEF HandedOver
  <2>5. \A i \in DOMAIN app_got' : Expected(i, app_got[i])'
    BY <1>1, <2>1 DEF InOrder, Expected
  <2>6. \A i \in DOMAIN thread_stream' : Expected(Len(app_got) + i, thread_stream[i])'
    <3> SUFFICES ASSUME NEW i \in 1 .. t + 1 PROVE Expected(Len(app_got) + i, thread_stream[i])'
      BY <2>3
    <3>1. CASE i = t + 1
      BY <1>1, <2>1, <2>2, <2>3, <3>1 DEF Expected
    <3>2. CASE i # t + 1
      <4>1. i \in 1 .. t /\ thread_stream'[i] = thread_stream[i]
        BY <1>1, <2>3, <3>2
      <4>2. Expected(a + i, thread_stream[i])
        BY <1>1, <4>1 DEF InOrder
      <4> QED BY <1>1, <2>1, <4>1, <4>2 DEF Expected
    <3> QED BY <3>1, <3>2
  <2>7. Len(app_got') + Len(thread_stream') >= packets_want'
    BY <1>1, <2>1, <2>2, <2>3
  <2> QED BY <2>4, <2>5, <2>6, <2>7 DEF InOrder
<1>5. CASE AppRead
  <2>1. /\ thread_stream # <<>> /\ thread_stream' = Tail(thread_stream)
        /\ app_got' = Append(app_got, Head(thread_stream))
        /\ packets_want' = packets_want /\ (Over <=> Over')
    BY <1>5 DEF AppRead, inner_vars, Over
  <2>2. /\ t > 0 /\ Len(thread_stream') = t - 1 /\ DOMAIN thread_stream' = 1 .. t - 1
        /\ \A i \in 1 .. t - 1 : thread_stream'[i] = thread_stream[i + 1]
        /\ Head(thread_stream) = thread_stream[1]
    BY <1>1, <2>1, HeadTailProperties, LenProperties, EmptySeq
  <2>3. /\ Len(app_got') = a + 1 /\ DOMAIN app_got' = 1 .. a + 1
        /\ app_got'[a + 1] = thread_stream[1]
        /\ \A i \in 1 .. a : app_got'[i] = app_got[i]
    BY <1>1, <2>1, <2>2
  <2>4. HandedOver' /\ Len(app_got') + Len(thread_stream') >= packets_want'
    BY <1>1, <2>1, <2>2, <2>3 DEF HandedOver, InOrder
  <2>5. \A i \in DOMAIN app_got' : Expected(i, app_got[i])'
    <3> SUFFICES ASSUME NEW i \in 1 .. a + 1 PROVE Expected(i, app_got[i])'
      BY <2>3
    <3>1. CASE i = a + 1
      <4>1. Expected(a + 1, thread_stream[1])
        BY <1>1, <2>2 DEF InOrder
      <4> QED BY <1>1, <2>1, <2>3, <3>1, <4>1 DEF Expected
    <3>2. CASE i # a + 1
      <4>1. i \in 1 .. a /\ app_got'[i] = app_got[i]
        BY <1>1, <2>3, <3>2
      <4>2. Expected(i, app_got[i])
        BY <1>1, <4>1 DEF InOrder
      <4> QED BY <1>1, <2>1, <4>1, <4>2 DEF Expected
    <3> QED BY <3>1, <3>2
  <2>6. \A i \in DOMAIN thread_stream' : Expected(Len(app_got) + i, thread_stream[i])'
    <3> SUFFICES ASSUME NEW i \in 1 .. t - 1 PROVE Expected(Len(app_got) + i, thread_stream[i])'
      BY <2>2
    <3>1. thread_stream'[i] = thread_stream[i + 1] /\ i + 1 \in 1 .. t
      BY <1>1, <2>2
    <3>2. Expected(a + (i + 1), thread_stream[i + 1])
      BY <1>1, <3>1 DEF InOrder
    <3>3. a + (i + 1) = Len(app_got') + i
      BY <1>1, <2>3
    <3> QED BY <2>1, <3>1, <3>2, <3>3 DEF Expected
  <2> QED BY <2>4, <2>5, <2>6 DEF InOrder
<1>6. CASE AppDrop
  <2>1. UNCHANGED <<app_got, thread_stream, packets_want>> /\ Over'
    BY <1>6 DEF AppDrop, app_vars, Over
  <2> QED BY <2>1 DEF HandedOver, InOrder, Expected
<1>7. CASE ~MovesPayload
  <2>1. UNCHANGED <<app_got, thread_stream, packets_want>> /\ (Over <=> Over')
    BY <1>7, OtherSteps
  <2> QED BY <2>1 DEF HandedOver, InOrder, Expected
<1> QED BY <1>2, <1>3, <1>4, <1>5, <1>6, <1>7 DEF MovesPayload

-----------------------------------------------------------------------------
(* What may be forgotten.                                                  *)

\* What this end can vouch for only grows.
HeldGrows == \A k \in Nat : Held(k) => Held(k)'

LEMMA HeldGrowsStep ==
    ASSUME TypeOK, [UdpNext]_udp_vars
    PROVE  HeldGrows
<1>1. packets_want \in Nat /\ DOMAIN recieved \subseteq Nat
  BY DEF TypeOK
<1>2. CASE TakePacket
  <2>1. packets_want' = packets_want
    BY <1>2 DEF TakePacket
  <2>2. DOMAIN recieved \subseteq DOMAIN recieved'
    BY <1>2 DEF TakePacket, KeepData, IgnoreData, TakeAck
  <2> QED BY <2>1, <2>2 DEF HeldGrows, Held
<1>3. CASE Deliver
  <2>1. packets_want' = packets_want + 1 /\ DOMAIN recieved' = DOMAIN recieved \ {packets_want}
    BY <1>3 DEF Deliver
  <2> QED BY <1>1, <2>1 DEF HeldGrows, Held
<1>4. CASE Fail \/ AppRead \/ AppDrop
  <2>1. UNCHANGED <<packets_want, recieved>>
    BY <1>4 DEF Fail, AppRead, AppDrop, inner_vars
  <2> QED BY <2>1 DEF HeldGrows, Held
<1>5. CASE ~MovesPayload
  BY <1>5, OtherSteps DEF HeldGrows, Held
<1> QED BY <1>2, <1>3, <1>4, <1>5 DEF MovesPayload

\* An ack claims packet ids.
LEMMA AckedIds ==
    ASSUME NEW ack \in UdpAcks
    PROVE  AckedBy(ack) \subseteq Nat
<1>1. ack.packet_id \in Nat \union {NothingYet} /\ DOMAIN ack.payload \subseteq Nat
  BY LenProperties DEF UdpAcks
<1>2. CASE ack.packet_id = NothingYet
  BY <1>2 DEF AckedBy
<1>3. CASE ack.packet_id # NothingYet
  <2>1. ack.packet_id \in Nat
    BY <1>1, <1>3
  <2> QED BY <1>1, <1>3, <2>1 DEF AckedBy
<1> QED BY <1>2, <1>3

\* An ack that was true stays true.
LEMMA TruthKept ==
    ASSUME HeldGrows, NEW ack \in UdpAcks, Truthful(ack)
    PROVE  Truthful(ack)'
  BY AckedIds DEF Truthful, HeldGrows

\* What build_send_ack makes of this window is true.
LEMMA SendAckTruthful ==
    ASSUME TypeOK, NEW ack \in BuildSendAck(packets_want, DOMAIN recieved)
    PROVE  Truthful(ack)
<1>1. packets_want \in Nat /\ DOMAIN recieved \in SUBSET Nat
  BY DEF TypeOK
<1>2. AckedBy(ack) \subseteq 0 .. packets_want - 1 \union DOMAIN recieved
  BY <1>1, SendAckClaims
<1> QED BY <1>1, <1>2 DEF Truthful, Held

\* A packet claims nothing that has not arrived.
ClaimsTruth(m) == m.t = "ack" => Truthful(m.ack)

\* No step but these two changes the watch.
LEMMA WatchStep ==
    ASSUME TypeOK, TypeOK', Truthful(ack_tx), [UdpNext]_udp_vars
    PROVE  Truthful(ack_tx)'
<1>1. HeldGrows
  BY HeldGrowsStep
<1>2. packets_want \in Nat /\ DOMAIN recieved \in SUBSET Nat /\ DOMAIN recieved' \in SUBSET Nat
  BY DEF TypeOK
<1>3. ASSUME ack_tx' = ack_tx PROVE Truthful(ack_tx)'
  <2>1. \A k \in AckedBy(ack_tx) : Held(k)'
    BY <1>1, AckedIds DEF TypeOK, Truthful, HeldGrows
  <2>2. AckedBy(ack_tx') = AckedBy(ack_tx)
    BY <1>3
  <2> QED BY <2>1, <2>2 DEF Truthful, AckedBy
<1>4. ASSUME packets_want' = packets_want, ack_tx' \in BuildSendAck(packets_want, DOMAIN recieved')
      PROVE  Truthful(ack_tx)'
  <2>1. AckedBy(ack_tx') \subseteq 0 .. packets_want - 1 \union DOMAIN recieved'
    BY <1>2, <1>4, SendAckClaims
  <2>2. \A k \in AckedBy(ack_tx') : Held(k)'
    BY <1>2, <1>4, <2>1 DEF Held
  <2> QED BY <2>2 DEF Truthful, AckedBy
<1>5. CASE ResendDone
  BY <1>4, <1>5 DEF ResendDone
<1>6. CASE TakePacket
  <2>1. packets_want' = packets_want
    BY <1>6 DEF TakePacket
  <2>2. \/ ack_tx' = ack_tx
        \/ ack_tx' \in BuildSendAck(packets_want, DOMAIN recieved')
    BY <1>6 DEF TakePacket, KeepData, IgnoreData, TakeAck
  <2> QED BY <1>3, <1>4, <2>1, <2>2
<1>7. CASE InnerNext /\ ~ResendDone /\ ~TakePacket
  BY <1>3, <1>7
     DEF InnerNext, ResendTick, ResendFeed, TakeWrite, ChunkFeed, ChunkDone,
         FeedFails, TakeNone, Deliver, DeliverDone, Fail
<1>8. CASE SocketNext \/ AppNext \/ CamNext
  BY <1>3, <1>8
     DEF SocketNext, SocketSend, SocketRecv, SocketDie, AckTick, HbTick, Tick,
         AppNext, AppWrite, AppRead, AppDrop,
         CamNext, CamRecvData, CamRecvAck, CamSendData, CamSendAck, NetStray, inner_vars
<1>9. CASE Ended \/ UNCHANGED udp_vars
  BY <1>3, <1>9 DEF Ended, udp_vars, inner_vars
<1> QED BY <1>5, <1>6, <1>7, <1>8, <1>9 DEF UdpNext

\* What a step may put into the socket task's queue: data, a heartbeat, or the
\* ack of the watch.
Made(m) == m.t = "data" \/ m = Hb \/ m = Ack("ours", ack_tx)

\* How a step may change the socket task's queue and the network to the camera.
LEMMA OutgoingStep ==
    ASSUME TypeOK, [UdpNext]_udp_vars
    PROVE  /\ \/ socket_in' = socket_in
              \/ socket_in # <<>> /\ socket_in' = Tail(socket_in)
              \/ \E m \in Packets : Made(m) /\ socket_in' = Append(socket_in, m)
           /\ \/ to_cam' \subseteq to_cam
              \/ socket_in # <<>> /\ to_cam' \subseteq to_cam \union {Head(socket_in)}
<1>1. ASSUME NEW id \in outq, ResendFeed(id)
      PROVE  /\ \E m \in Packets : Made(m) /\ socket_in' = Append(socket_in, m)
             /\ to_cam' = to_cam
  <2>1. Data("ours", id, id) \in Packets /\ Made(Data("ours", id, id))
    BY PacketTypes DEF TypeOK, Made, Data
  <2> QED BY <1>1, <2>1 DEF ResendFeed
<1>2. ASSUME ChunkFeed
      PROVE  /\ \E m \in Packets : Made(m) /\ socket_in' = Append(socket_in, m)
             /\ to_cam' = to_cam
  <2>1. Data("ours", packets_sent, packets_sent) \in Packets
        /\ Made(Data("ours", packets_sent, packets_sent))
    BY PacketTypes DEF TypeOK, Made, Data
  <2> QED BY <1>2, <2>1 DEF ChunkFeed
<1>3. ASSUME AckTick \/ HbTick
      PROVE  /\ \E m \in Packets : Made(m) /\ socket_in' = Append(socket_in, m)
             /\ to_cam' = to_cam
  <2>1. /\ Ack("ours", ack_tx) \in Packets /\ Made(Ack("ours", ack_tx))
        /\ Hb \in Packets /\ Made(Hb)
    BY PacketTypes DEF TypeOK, Made
  <2> QED BY <1>3, <2>1 DEF AckTick, HbTick, Tick
<1>4. ASSUME NEW lost \in BOOLEAN, SocketSend(lost)
      PROVE  /\ socket_in # <<>> /\ socket_in' = Tail(socket_in)
             /\ to_cam' \subseteq to_cam \union {Head(socket_in)}
  BY <1>4, TransmitAdds DEF SocketSend
<1>5. CASE InnerNext /\ ~ChunkFeed /\ ~(\E id \in outq : ResendFeed(id))
  BY <1>5 DEF InnerNext, ResendTick, ResendDone, TakeWrite, ChunkDone, FeedFails, TakePacket,
              TakeNone, Deliver, DeliverDone, Fail, chan_vars
<1>6. CASE SocketNext /\ ~AckTick /\ ~HbTick /\ ~(\E lost \in BOOLEAN : SocketSend(lost))
  BY <1>6 DEF SocketNext, SocketRecv, SocketDie
<1>7. CASE AppNext \/ CamNext
  BY <1>7 DEF AppNext, AppWrite, AppRead, AppDrop, CamNext, CamRecvData, CamRecvAck,
              CamSendData, CamSendAck, NetStray, chan_vars
<1>8. CASE Ended \/ UNCHANGED udp_vars
  BY <1>8 DEF Ended, udp_vars, chan_vars
<1> QED BY <1>1, <1>2, <1>3, <1>4, <1>5, <1>6, <1>7, <1>8 DEF UdpNext

\* An ack, once true, is true wherever it travels.
LEMMA AckStep ==
    ASSUME TypeOK, TypeOK', AckTruthful, [UdpNext]_udp_vars
    PROVE  AckTruthful'
<1>1. HeldGrows
  BY HeldGrowsStep
<1>2. \A m \in Packets : ClaimsTruth(m) => ClaimsTruth(m)'
  <2> SUFFICES ASSUME NEW m \in Packets, ClaimsTruth(m), m.t = "ack" PROVE Truthful(m.ack)'
    BY DEF ClaimsTruth
  <2>1. m.ack \in UdpAcks /\ Truthful(m.ack)
    BY PacketFields DEF ClaimsTruth
  <2> QED BY <1>1, <2>1, TruthKept
<1>3. \A i \in DOMAIN socket_in : socket_in[i] \in Packets /\ ClaimsTruth(socket_in[i])
  <2>1. socket_in \in Seq(Packets)
    BY DEF TypeOK
  <2>2. \A i \in DOMAIN socket_in : ClaimsTruth(socket_in[i])
    BY DEF AckTruthful, ClaimsTruth
  <2> QED BY <2>1, <2>2, Item
<1>4. \A m \in to_cam : m \in Packets /\ ClaimsTruth(m)
  BY DEF TypeOK, AckTruthful, ClaimsTruth
<1>5. \A m \in Packets : Made(m) => ClaimsTruth(m)
  BY DEF Made, ClaimsTruth, Hb, Ack, AckTruthful
<1>6. \A i \in DOMAIN socket_in' : ClaimsTruth(socket_in[i])'
  <2>2. socket_in \in Seq(Packets) /\ socket_in' \in Seq(Packets)
    BY DEF TypeOK
  <2>3. \A i \in DOMAIN socket_in' : ClaimsTruth(socket_in'[i])
    <3>1. CASE socket_in' = socket_in
      BY <1>3, <3>1
    <3>2. CASE socket_in # <<>> /\ socket_in' = Tail(socket_in)
      BY <1>3, <2>2, <3>2, TailIn
    <3>3. ASSUME NEW m \in Packets, Made(m), socket_in' = Append(socket_in, m)
          PROVE  \A i \in DOMAIN socket_in' : ClaimsTruth(socket_in'[i])
      <4>1. \A i \in DOMAIN socket_in' :
               socket_in'[i] = m \/ \E j \in DOMAIN socket_in : socket_in'[i] = socket_in[j]
        BY <2>2, <3>3, AppendIn
      <4> QED BY <1>3, <1>5, <3>3, <4>1
    <3> QED BY <3>1, <3>2, <3>3, OutgoingStep
  <2>4. \A i \in DOMAIN socket_in' : socket_in'[i] \in Packets
    BY <2>2, LenProperties
  <2> QED BY <1>2, <2>3, <2>4 DEF ClaimsTruth
<1>7. \A m \in to_cam' : ClaimsTruth(m)'
  <2>1. socket_in # <<>> => ClaimsTruth(Head(socket_in)) /\ Head(socket_in) \in Packets
    <3> SUFFICES ASSUME socket_in # <<>>
                 PROVE  ClaimsTruth(Head(socket_in)) /\ Head(socket_in) \in Packets
      OBVIOUS
    <3>1. socket_in \in Seq(Packets)
      BY DEF TypeOK
    <3>2. Head(socket_in) = socket_in[1] /\ 1 \in DOMAIN socket_in
      BY <3>1, First
    <3> QED BY <1>3, <3>2
  <2>2. \A m \in to_cam' : m \in Packets /\ ClaimsTruth(m)
    BY <1>4, <2>1, OutgoingStep
  <2> QED BY <1>2, <2>2
<1>8. Truthful(ack_tx)'
  BY WatchStep DEF AckTruthful
<1> QED BY <1>6, <1>7, <1>8 DEF AckTruthful, ClaimsTruth

\* handle_ack drops from the buffer only what the ack claims.
LEMMA HandleAckDrops ==
    ASSUME TypeOK, NEW ack \in UdpAcks, HandleAck(ack)
    PROVE  sent \ AckedBy(ack) \subseteq sent'
<1>1. sent \subseteq Nat /\ ack.packet_id \in Nat \union {NothingYet}
  BY DEF TypeOK, UdpAcks
<1>2. CASE ack.packet_id = NothingYet
  BY <1>2 DEF HandleAck
<1>3. CASE ack.packet_id # NothingYet
  <2>1. ack.packet_id \in Nat /\ 0 .. ack.packet_id \subseteq AckedBy(ack)
    BY <1>1, <1>3 DEF AckedBy
  <2>2. sent' = {k \in sent : k > ack.packet_id} \ AckedBy(ack)
    BY <1>3 DEF HandleAck
  <2>3. ASSUME NEW k \in sent, k \notin AckedBy(ack) PROVE k > ack.packet_id
    <3> DEFINE n == ack.packet_id
    <3>1. k \in Nat /\ n \in Nat /\ k \notin 0 .. n
      BY <1>1, <2>1, <2>3
    <3> HIDE DEF n
    <3>2. k > n
      BY <3>1
    <3> QED BY <3>2 DEF n
  <2> QED BY <2>2, <2>3
<1> QED BY <1>2, <1>3

\* A packet leaves the buffer only on the camera's ack.
LEMMA SendStep ==
    ASSUME TypeOK, ArrivalsOK, CamGrows, SendNoLoss, [UdpNext]_udp_vars
    PROVE  SendNoLoss'
<1>1. packets_sent \in Nat /\ cam_got \subseteq cam_got'
  BY DEF TypeOK, CamGrows
<1>2. ASSUME packets_sent' = packets_sent, sent \ cam_got \subseteq sent' PROVE SendNoLoss'
  BY <1>1, <1>2 DEF SendNoLoss
<1>3. CASE ChunkFeed
  <2>1. packets_sent' = packets_sent + 1 /\ sent' = sent \union {packets_sent}
    BY <1>3 DEF ChunkFeed
  <2> QED BY <1>1, <2>1 DEF SendNoLoss
<1>4. CASE TakePacket
  <2> DEFINE m == Head(socket_out)
  <2>1. m \in Packets /\ FromCamNow(m)
    <3>1. socket_out \in Seq(Packets) /\ socket_out # <<>>
      BY <1>4 DEF TypeOK, TakePacket
    <3>2. m = socket_out[1] /\ 1 \in DOMAIN socket_out /\ m \in Packets
      BY <3>1, HeadTailProperties, LenProperties, EmptySeq
    <3> QED BY <3>2 DEF ArrivalsOK
  <2>2. ASSUME m.t = "ack", TakeAck(m), m.conn = "ours" PROVE sent \ cam_got \subseteq sent'
    <3>1. m.ack \in UdpAcks /\ AckedBy(m.ack) \subseteq cam_got
      BY <2>1, <2>2, PacketFields DEF FromCamNow, FromCam
    <3> QED BY <2>2, <3>1, HandleAckDrops DEF TakeAck
  <2>3. sent \ cam_got \subseteq sent'
    BY <1>4, <2>2 DEF TakePacket, TakeAck, KeepData, IgnoreData
  <2>4. packets_sent' = packets_sent
    BY <1>4 DEF TakePacket
  <2> QED BY <1>2, <2>3, <2>4
<1>5. CASE InnerNext /\ ~ChunkFeed /\ ~TakePacket
  BY <1>2, <1>5 DEF InnerNext, ResendTick, ResendFeed, ResendDone, TakeWrite, ChunkDone,
                    FeedFails, TakeNone, Deliver, DeliverDone, Fail
<1>6. CASE SocketNext \/ AppNext \/ CamNext
  BY <1>2, <1>6
     DEF SocketNext, SocketSend, SocketRecv, SocketDie, AckTick, HbTick, Tick,
         AppNext, AppWrite, AppRead, AppDrop,
         CamNext, CamRecvData, CamRecvAck, CamSendData, CamSendAck, NetStray, inner_vars
<1>7. CASE Ended \/ UNCHANGED udp_vars
  BY <1>2, <1>7 DEF Ended, udp_vars, inner_vars
<1> QED BY <1>3, <1>4, <1>5, <1>6, <1>7 DEF UdpNext

\* The camera stops repeating a packet only on an ack of ours.
LEMMA RecvStep ==
    ASSUME TypeOK, AckTruthful, RecvNoLoss, [UdpNext]_udp_vars
    PROVE  RecvNoLoss'
<1>1. HeldGrows
  BY HeldGrowsStep
<1>2. cam_next \in Nat
  BY DEF TypeOK
<1>3. ASSUME cam_next' = cam_next, \A k \in cam_unacked : k \in cam_unacked' \/ Held(k)
      PROVE  RecvNoLoss'
  <2>1. \A k \in 0 .. cam_next - 1 : k \in cam_unacked' \/ Held(k)'
    BY <1>1, <1>2, <1>3 DEF RecvNoLoss, HeldGrows
  <2> QED BY <1>3, <2>1 DEF RecvNoLoss, Held
<1>4. ASSUME NEW m \in to_cam, CamRecvData(m) \/ CamRecvAck(m) PROVE RecvNoLoss'
  <2>1. CASE CamRecvData(m)
    BY <1>3, <2>1 DEF CamRecvData
  <2>2. CASE CamRecvAck(m)
    <3>1. \A k \in AckedBy(m.ack) : Held(k)
      BY <2>2 DEF CamRecvAck, AckTruthful, Truthful
    <3> QED BY <1>3, <2>2, <3>1 DEF CamRecvAck
  <2> QED BY <1>4, <2>1, <2>2
<1>5. ASSUME NEW k \in cam_unacked \union {cam_next}, NEW lost \in BOOLEAN, CamSendData(k, lost)
      PROVE  RecvNoLoss'
  <2>1. /\ cam_unacked' = cam_unacked \union {k}
        /\ cam_next' = IF k = cam_next THEN cam_next + 1 ELSE cam_next
        /\ UNCHANGED <<packets_want, recieved>>
    BY <1>5 DEF CamSendData, inner_vars
  <2>2. \A j \in 0 .. cam_next' - 1 : j \in cam_unacked' \/ Held(j)
    BY <1>2, <2>1 DEF RecvNoLoss
  <2> QED BY <2>1, <2>2 DEF RecvNoLoss, Held
<1>6. CASE InnerNext \/ SocketNext \/ AppNext \/ Ended \/ UNCHANGED udp_vars
  <2>1. UNCHANGED cam_vars
    BY <1>6
     DEF InnerNext, ResendTick, ResendFeed, ResendDone, TakeWrite, ChunkFeed, ChunkDone,
         FeedFails, TakePacket, TakeNone, Deliver, DeliverDone, Fail,
         SocketNext, SocketSend, SocketRecv, SocketDie, AckTick, HbTick, Tick,
         AppNext, AppWrite, AppRead, AppDrop, Ended, udp_vars
  <2> QED BY <1>3, <2>1 DEF cam_vars
<1>7. ASSUME NEW lost \in BOOLEAN, CamSendAck(lost) PROVE RecvNoLoss'
  BY <1>3, <1>7 DEF CamSendAck, cam_vars
<1>8. ASSUME NEW m \in StrayPackets, NetStray(m) PROVE RecvNoLoss'
  BY <1>3, <1>8 DEF NetStray, cam_vars
<1> QED BY <1>4, <1>5, <1>6, <1>7, <1>8 DEF UdpNext, CamNext

-----------------------------------------------------------------------------
(* The invariant.                                                          *)

IInv ==
    /\ TypeOK
    /\ UnackedIsSent
    /\ ArrivalsOK
    /\ HeldIsSent
    /\ HandedOver
    /\ InOrder
    /\ AckTruthful
    /\ SendNoLoss
    /\ RecvNoLoss

\* A session starts with nothing to tell, to hand over or to forget.
LEMMA InvInit == UdpInit => IInv
<1> SUFFICES ASSUME UdpInit PROVE IInv
  OBVIOUS
<1>1. Len(<<>>) = 0 /\ DOMAIN <<>> = {}
  BY EmptySeq
<1>2. TypeOK
  BY TypeInit
<1>3. UnackedIsSent /\ ArrivalsOK /\ HeldIsSent
  BY <1>1 DEF UdpInit, UnackedIsSent, ArrivalsOK, HeldIsSent
<1>4. HandedOver /\ InOrder
  BY <1>1 DEF UdpInit, HandedOver, InOrder
<1>5. AckTruthful
  <2>1. AckedBy(EmptyAck) = {}
    BY DEF AckedBy, EmptyAck
  <2> QED BY <1>1, <2>1 DEF UdpInit, AckTruthful, Truthful
<1>6. SendNoLoss /\ RecvNoLoss
  BY DEF UdpInit, SendNoLoss, RecvNoLoss
<1> QED BY <1>2, <1>3, <1>4, <1>5, <1>6 DEF IInv

\* Every step keeps it.
LEMMA InvStep == IInv /\ [UdpNext]_udp_vars => IInv'
<1> SUFFICES ASSUME IInv, [UdpNext]_udp_vars PROVE IInv'
  OBVIOUS
<1>1. TypeOK'
  BY TypeStep DEF IInv
<1>2. CamGrows /\ UnackedIsSent'
  BY CamGrowsStep DEF IInv
<1>3. ArrivalsOK'
  BY <1>1, <1>2, ArrivalsStep DEF IInv
<1>4. HeldIsSent' /\ HandedOver' /\ InOrder'
  BY HeldStep, OrderStep DEF IInv
<1>5. AckTruthful'
  BY <1>1, AckStep DEF IInv
<1>6. SendNoLoss' /\ RecvNoLoss'
  BY <1>2, SendStep, RecvStep DEF IInv
<1> QED BY <1>1, <1>2, <1>3, <1>4, <1>5, <1>6 DEF IInv

LEMMA InvAlways == UdpSpec => []IInv
  BY InvInit, InvStep, PTL DEF UdpSpec

\* The application is handed the camera's packets in order, each exactly once,
\* whatever the network does, in sessions of every length.
THEOREM DeliveredInOrder == UdpSpec => []InOrder
<1>1. IInv => InOrder
  BY DEF IInv
<1> QED BY <1>1, InvAlways, PTL

\* No ack claims a packet that has not arrived, however long it was under way.
THEOREM AcksAreTruthful == UdpSpec => []AckTruthful
<1>1. IInv => AckTruthful
  BY DEF IInv
<1> QED BY <1>1, InvAlways, PTL

\* A packet is never forgotten by the end that sent it before the other end has
\* it, in either direction.
THEOREM NothingForgotten == UdpSpec => [](SendNoLoss /\ RecvNoLoss)
<1>1. IInv => SendNoLoss /\ RecvNoLoss
  BY DEF IInv
<1> QED BY <1>1, InvAlways, PTL

\* What the camera has stopped repeating is delivered or held here: the bitmap of an ack
\* (build_send_ack) never covers a hole.
THEOREM ReceivedIsHeld == UdpSpec => []RecvNoLoss
<1>1. SendNoLoss /\ RecvNoLoss => RecvNoLoss
  OBVIOUS
<1> QED BY <1>1, NothingForgotten, PTL

-----------------------------------------------------------------------------
(***************************************************************************)
(* TimeGrows and RateKept of MediaClock, for every camera clock, every     *)
(* limit and every number of clients; and of RtspMedia, because all that   *)
(* touches a client's clock is a frame that its pump goes through, or the  *)
(* end of the pump.  The tracks that a client is offered were tried: a     *)
(* good verdict in the shared profile came from audio of this camera.      *)
(*                                                                         *)
(* TimeGrows needs to know only that a tracker has started once a frame    *)
(* went through it.  RateKept is not inductive: what a frame adds to the   *)
(* allowance is the time since the limiter saw the last frame, so the      *)
(* limiter's time has to be the tracker's (LimiterFollows), and a          *)
(* limiter that saw nothing can have granted nothing.                      *)
(***************************************************************************)

Times == 0..Ceiling

Trackers ==
    [started : BOOLEAN, camera : CameraTimes, video : Times, audio : Times,
     anchored : BOOLEAN, backward : Nat]
Limiters == [interval : Nat, seen : BOOLEAN, last : Nat, credit : Nat, intact : BOOLEAN]
Counts == [video : Nat, audio : Nat, deltas : Nat]

ClockTypes ==
    /\ tracker \in [Clients -> Trackers]
    /\ limiter \in [Clients -> Limiters]
    /\ given \in [Clients -> Counts]

Started ==
    \A c \in Clients :
        /\ given[c].video > 0 => tracker[c].started
        /\ given[c].audio > 0 => tracker[c].anchored

\* The limiter and the tracker speak of the same frame; without one nothing was granted.
LimiterFollows ==
    \A c \in Clients :
        /\ limiter[c].seen => limiter[c].last = tracker[c].video
        /\ limiter[c].seen => Limited(limiter[c])
        /\ ~limiter[c].seen =>
              limiter[c].credit = 0 /\ (Limited(limiter[c]) => given[c].deltas = 0)

ClockInv == ClockTypes /\ Started /\ LimiterFollows /\ RateKept

-----------------------------------------------------------------------------
(* The arithmetic of the three steps                                       *)

LEMMA PlusFacts ==
    ASSUME NEW a \in Times, NEW b \in Nat
    PROVE  /\ Plus(a, b) \in Times
           /\ Plus(a, b) >= a
           /\ Plus(a, b) <= a + b
           /\ b > 0 => Plus(a, b) > a \/ Plus(a, b) = Ceiling
  BY MediaClockAssumption DEF Plus, Times

LEMMA ForwardFacts ==
    ASSUME NEW t \in Trackers, NEW us \in CameraTimes
    PROVE  Forward(t, us) \in Nat
  BY MediaClockAssumption DEF Forward, Trackers, CameraTimes

\* next_video_us keeps the audio's side, and goes forward once it has started.
LEMMA VideoTime ==
    ASSUME NEW t \in Trackers, NEW us \in CameraTimes
    PROVE  LET n == next_video_us(t, us)
           IN /\ n \in Trackers
              /\ n.started
              /\ n.anchored = t.anchored /\ n.audio = t.audio
              /\ n.video >= t.video
              /\ t.started => n.video > t.video \/ n.video = Ceiling
<1>0. /\ t.video \in Times /\ t.backward \in Nat /\ Ceiling \in Nat
      /\ t.video \in Nat /\ t.video <= Ceiling
  BY MediaClockAssumption DEF Trackers, Times
<1>1. CASE ~t.started
  <2>1. next_video_us(t, us)
          = [started |-> TRUE, camera |-> us, video |-> t.video, audio |-> t.audio,
             anchored |-> t.anchored, backward |-> t.backward]
    BY <1>1 DEF next_video_us, Trackers
  <2> QED BY <2>1, <1>0, <1>1 DEF Trackers
<1>2. CASE t.started
  <2> DEFINE gain == Gain(t, us)
             camera == IF Stray(t, us) THEN t.camera ELSE us
             backward == IF Forward(t, us) = 0 THEN t.backward
                         ELSE IF Stray(t, us) THEN t.backward + 1 ELSE 0
  <2>1. next_video_us(t, us)
          = [t EXCEPT !.video = Plus(t.video, gain), !.camera = camera, !.backward = backward]
    BY <1>2 DEF next_video_us
  <2>2. gain \in Nat /\ gain > 0
    BY MediaClockAssumption, ForwardFacts DEF Gain, Stray
  <2>3. camera \in CameraTimes /\ backward \in Nat
    BY <1>0 DEF Trackers
  <2> HIDE DEF gain, camera, backward
  <2>4. /\ Plus(t.video, gain) \in Times /\ Plus(t.video, gain) >= t.video
        /\ Plus(t.video, gain) > t.video \/ Plus(t.video, gain) = Ceiling
    BY <1>0, <2>2, PlusFacts
  <2> QED BY <2>1, <2>3, <2>4, <1>2 DEF Trackers
<1> QED BY <1>1, <1>2

\* next_audio_us keeps the video's side, and goes forward once it has an anchor.
LEMMA AudioTime ==
    ASSUME NEW t \in Trackers, NEW duration \in Nat
    PROVE  LET n == next_audio_us(t, duration)
           IN /\ n \in Trackers
              /\ n.anchored
              /\ n.started = t.started /\ n.video = t.video
              /\ t.anchored => n.audio > t.audio \/ n.audio = Ceiling
<1> DEFINE n == next_audio_us(t, duration)
           from == IF t.anchored THEN t.audio ELSE t.video
           length == IF duration > 1 THEN duration ELSE 1
<1>1. n = [t EXCEPT !.anchored = TRUE, !.audio = Plus(from, length)]
  BY DEF next_audio_us
<1>2. from \in Times /\ length \in Nat /\ length > 0
  BY DEF Trackers
<1> HIDE DEF length
<1>3. /\ Plus(from, length) \in Times
      /\ Plus(from, length) > from \/ Plus(from, length) = Ceiling
  BY <1>2, PlusFacts
<1> QED BY <1>1, <1>3 DEF Trackers

\* What admit does to an allowance: with what it grants it never exceeds the old one
\* and the time since the frame before.
LEMMA Allowance ==
    ASSUME NEW l \in Limiters, NEW pts \in Nat, NEW key \in BOOLEAN,
           l.seen => pts >= l.last,
           ~l.seen => l.credit = 0, Limited(l)
    PROVE  LET n == Spent(l, pts, key)
           IN /\ n \in Limiters
              /\ n.interval = l.interval /\ n.seen /\ n.last = pts
              /\ LET more == IF l.seen THEN pts - l.last ELSE 0
                     paid == IF ~key /\ n.intact THEN l.interval ELSE 0
                 IN n.credit + paid <= l.credit + more
<1> DEFINE b == Banked(l, pts)
           n == Spent(l, pts, key)
           more == IF l.seen THEN pts - l.last ELSE 0
<1>0. /\ l.interval \in Nat /\ l.credit \in Nat /\ l.last \in Nat
      /\ l.seen \in BOOLEAN /\ l.intact \in BOOLEAN /\ BurstCap \in Nat
      /\ more \in Nat
  BY MediaClockAssumption DEF Limiters
<1> DEFINE bank == IF l.seen THEN AtMost(l.credit + Minus(pts, l.last), BurstCap) ELSE l.credit
<1>1. bank \in Nat /\ bank <= l.credit + more
  BY <1>0 DEF Minus, AtMost
<1>2a. b = [l EXCEPT !.credit = bank, !.seen = TRUE, !.last = pts]
  BY DEF Banked
<1> HIDE DEF bank, b, more
<1>2. b = [interval |-> l.interval, seen |-> TRUE, last |-> pts, credit |-> bank,
           intact |-> l.intact]
  BY <1>2a DEF Limiters
<1>3. n = IF key THEN [b EXCEPT !.intact = TRUE, !.credit = Minus(b.credit, l.interval)]
          ELSE IF l.intact /\ b.credit >= l.interval
          THEN [b EXCEPT !.credit = b.credit - l.interval]
          ELSE [b EXCEPT !.intact = FALSE]
  BY DEF Spent, b
<1> DEFINE intact == key \/ (l.intact /\ bank >= l.interval)
           left == IF key THEN Minus(bank, l.interval)
                   ELSE IF intact THEN bank - l.interval ELSE bank
<1>4. n = [interval |-> l.interval, seen |-> TRUE, last |-> pts, credit |-> left,
           intact |-> intact]
  BY <1>0, <1>1, <1>2, <1>3
<1>5. /\ left \in Nat /\ intact \in BOOLEAN
      /\ left + (IF ~key /\ intact THEN l.interval ELSE 0) <= l.credit + more
  BY <1>0, <1>1 DEF Minus
<1> HIDE DEF n, left, intact
<1>6. n \in Limiters
  BY <1>0, <1>4, <1>5 DEF Limiters
<1> QED BY <1>4, <1>5, <1>6 DEF n, more

-----------------------------------------------------------------------------
(* The invariant                                                           *)

LEMMA ClockInvInit == ClockInit => ClockInv
<1> SUFFICES ASSUME ClockInit PROVE ClockInv
  OBVIOUS
<1> USE MediaClockAssumption
<1>1. PICK i \in Intervals : limiter = [c \in Clients |-> NewLimiter(i)]
  BY DEF ClockInit
<1>2. /\ NewTracker \in Trackers /\ NewLimiter(i) \in Limiters /\ NewGiven \in Counts
  BY DEF NewTracker, NewLimiter, NewGiven, Trackers, Limiters, Counts, Times, CameraTimes
<1>3. ClockTypes
  BY <1>1, <1>2 DEF ClockTypes, ClockInit
<1>4. Started
  <2>1. \A c \in Clients : given[c].video = 0 /\ given[c].audio = 0
    BY DEF ClockInit, NewGiven
  <2>2. ~(0 > 0)
    OBVIOUS
  <2> QED BY <2>1, <2>2, Zenon DEF Started
<1>5. LimiterFollows
  BY <1>1 DEF LimiterFollows, ClockInit, NewLimiter, NewGiven
<1>6. RateKept
  <2>1. \A c \in Clients :
           /\ given[c].deltas = 0 /\ tracker[c].video = 0
           /\ limiter[c].credit = 0 /\ limiter[c].interval = i
    BY <1>1 DEF ClockInit, NewLimiter, NewGiven, NewTracker
  <2>2. i * 0 + 0 <= 0
    OBVIOUS
  <2> QED BY <2>1, <2>2 DEF RateKept
<1> QED BY <1>3, <1>4, <1>5, <1>6 DEF ClockInv

\* A video frame: what the limiter has granted and kept still fits the client's clock.
LEMMA VideoKeeps ==
    ASSUME ClockInv, NEW c \in Clients, NEW us \in CameraTimes, NEW key \in BOOLEAN,
           VideoFrame(c, us, key)
    PROVE  ClockInv'
<1> DEFINE t == next_video_us(tracker[c], us)
           l == limiter[c]
           n == admit(l, t.video, key)
           passes == Admits(l, t.video, key)
           deltas == IF passes /\ ~key THEN given[c].deltas + 1 ELSE given[c].deltas
<1>1. /\ tracker' = [tracker EXCEPT ![c] = t]
      /\ limiter' = [limiter EXCEPT ![c] = n]
      /\ given' = [given EXCEPT ![c].video = given[c].video + 1, ![c].deltas = deltas]
  BY DEF VideoFrame
<1>2. /\ tracker[c] \in Trackers /\ l \in Limiters /\ given[c] \in Counts
      /\ given[c].deltas \in Nat /\ given[c].video \in Nat /\ l.interval \in Nat
      /\ l.credit \in Nat
  BY DEF ClockInv, ClockTypes, Limiters, Counts
<1>3. /\ t \in Trackers /\ t.started
      /\ t.anchored = tracker[c].anchored
      /\ t.video >= tracker[c].video
  BY <1>2, VideoTime
<1>4. t.video \in Nat /\ tracker[c].video \in Nat
  BY <1>2, <1>3, MediaClockAssumption DEF Trackers, Times
<1> HIDE DEF t
<1>5. /\ n \in Limiters
      /\ n.seen => n.last = t.video
      /\ n.seen => Limited(n)
      /\ ~n.seen => n.credit = 0 /\ ~Limited(n)
      /\ deltas \in Nat
      /\ n.interval * deltas + n.credit <= t.video
  <2>1. l.seen => l.last = tracker[c].video
    BY DEF ClockInv, LimiterFollows
  <2>2. ~l.seen => l.credit = 0 /\ (Limited(l) => given[c].deltas = 0)
    BY DEF ClockInv, LimiterFollows
  <2>3. l.interval * given[c].deltas + l.credit <= tracker[c].video
    BY DEF ClockInv, RateKept
  <2>4. CASE ~Limited(l)
    <3>1. n = l /\ l.interval = 0 /\ deltas \in Nat
      BY <2>4, <1>2 DEF admit, Limited
    <3>2. ~l.seen
      BY <2>4 DEF ClockInv, LimiterFollows
    <3>3. 0 * deltas = 0
      BY <3>1
    <3> HIDE DEF n, l, deltas
    <3> QED BY <3>1, <3>2, <3>3, <2>2, <2>4, <1>2, <1>4
  <2>5. CASE Limited(l)
    <3> DEFINE more == IF l.seen THEN t.video - l.last ELSE 0
               paid == IF ~key /\ n.intact THEN l.interval ELSE 0
    <3>1. n = Spent(l, t.video, key) /\ deltas = IF ~key /\ n.intact THEN given[c].deltas + 1 ELSE given[c].deltas
      BY <2>5 DEF admit, Admits
    <3>2. /\ n \in Limiters /\ n.interval = l.interval /\ n.seen /\ n.last = t.video
          /\ n.credit + paid <= l.credit + more
      BY <3>1, <2>1, <2>2, <2>5, <1>2, <1>3, <1>4, Allowance
    <3>3. /\ l.interval * given[c].deltas \in Nat /\ n.credit \in Nat /\ deltas \in Nat
          /\ l.interval * (given[c].deltas + 1) = l.interval * given[c].deltas + l.interval
      BY <3>1, <3>2, <1>2 DEF Limiters
    <3>4. l.interval * deltas = l.interval * given[c].deltas + paid
      BY <3>1, <3>3, <1>2
    <3>5. l.interval * given[c].deltas + l.credit + more <= t.video
      <4>1. CASE l.seen
        BY <4>1, <2>1, <2>3, <3>3, <1>2, <1>3, <1>4
      <4>2. CASE ~l.seen
        <5>1. given[c].deltas = 0 /\ l.credit = 0 /\ l.interval * 0 = 0
          BY <4>2, <2>2, <2>5, <1>2
        <5> QED BY <5>1, <4>2, <1>4
      <4> QED BY <4>1, <4>2
    <3>6. more \in Nat /\ paid \in Nat
      BY <2>1, <1>2, <1>3, <1>4
    <3>7. Limited(n)
      BY <3>2, <2>5 DEF Limited
    <3> HIDE DEF n, l, deltas, more, paid
    <3> QED BY <3>7, <3>2, <3>3, <3>4, <3>5, <3>6, <1>2, <1>4
  <2> QED BY <2>4, <2>5
<1> HIDE DEF n, l, deltas
<1>6. ClockTypes'
  <2>1. given[c].video + 1 \in Nat /\ deltas \in Nat
    BY <1>2, <1>5
  <2>2. [given[c] EXCEPT !.video = given[c].video + 1, !.deltas = deltas] \in Counts
    BY <2>1, <1>2 DEF Counts
  <2> QED BY <1>1, <1>3, <1>5, <2>2 DEF ClockInv, ClockTypes
<1>7. Started'
  BY <1>1, <1>2, <1>3 DEF ClockInv, ClockTypes, Started, Counts
<1>8. LimiterFollows'
  BY <1>1, <1>2, <1>3, <1>5 DEF ClockInv, ClockTypes, LimiterFollows, Counts
<1>9. RateKept'
  BY <1>1, <1>2, <1>3, <1>5 DEF ClockInv, ClockTypes, RateKept, Counts
<1> QED BY <1>6, <1>7, <1>8, <1>9 DEF ClockInv

LEMMA AudioKeeps ==
    ASSUME ClockInv, NEW c \in Clients, NEW duration \in Nat, AudioFrame(c, duration)
    PROVE  ClockInv'
<1> DEFINE t == next_audio_us(tracker[c], duration)
<1>1. /\ tracker' = [tracker EXCEPT ![c] = t]
      /\ given' = [given EXCEPT ![c].audio = given[c].audio + 1]
      /\ limiter' = limiter
  BY DEF AudioFrame
<1>2. tracker[c] \in Trackers /\ given[c] \in Counts /\ given[c].audio + 1 \in Nat
  BY DEF ClockInv, ClockTypes, Counts
<1>3. /\ t \in Trackers /\ t.anchored
      /\ t.started = tracker[c].started /\ t.video = tracker[c].video
  BY <1>2, AudioTime
<1> HIDE DEF t
<1>4. [given[c] EXCEPT !.audio = given[c].audio + 1] \in Counts
  BY <1>2 DEF Counts
<1>5. ClockTypes'
  BY <1>1, <1>3, <1>4 DEF ClockInv, ClockTypes
<1>6. Started'
  BY <1>1, <1>2, <1>3 DEF ClockInv, ClockTypes, Started, Counts
<1>7. LimiterFollows'
  BY <1>1, <1>2, <1>3 DEF ClockInv, ClockTypes, LimiterFollows, Counts
<1>8. RateKept'
  BY <1>1, <1>2, <1>3 DEF ClockInv, ClockTypes, RateKept, Counts
<1> QED BY <1>5, <1>6, <1>7, <1>8 DEF ClockInv

LEMMA DropKeeps ==
    ASSUME ClockInv, NEW c \in Clients, ClockDropped(c)
    PROVE  ClockInv'
<1> DEFINE interval == limiter[c].interval
<1>1. /\ tracker' = [tracker EXCEPT ![c] = NewTracker]
      /\ limiter' = [limiter EXCEPT ![c] = NewLimiter(interval)]
      /\ given' = [given EXCEPT ![c] = NewGiven]
  BY DEF ClockDropped
<1>2. interval \in Nat
  BY DEF ClockInv, ClockTypes, Limiters
<1> HIDE DEF interval
<1>3. NewTracker \in Trackers /\ NewLimiter(interval) \in Limiters /\ NewGiven \in Counts
  BY <1>2, MediaClockAssumption
     DEF NewTracker, NewLimiter, NewGiven, Trackers, Limiters, Counts, Times, CameraTimes
<1>4. /\ NewTracker.video = 0 /\ NewGiven.video = 0 /\ NewGiven.audio = 0 /\ NewGiven.deltas = 0
      /\ NewLimiter(interval).interval = interval /\ NewLimiter(interval).credit = 0
      /\ ~NewLimiter(interval).seen
  BY DEF NewTracker, NewGiven, NewLimiter
<1>5. ClockTypes'
  BY <1>1, <1>3 DEF ClockInv, ClockTypes
<1>6. Started'
  BY <1>1, <1>4 DEF ClockInv, ClockTypes, Started
<1>7. LimiterFollows'
  BY <1>1, <1>4 DEF ClockInv, ClockTypes, LimiterFollows
<1>8. RateKept'
  <2>1. interval * 0 + 0 <= 0
    BY <1>2
  <2> QED BY <1>1, <1>4, <2>1 DEF ClockInv, ClockTypes, RateKept
<1> QED BY <1>5, <1>6, <1>7, <1>8 DEF ClockInv

\* A frame is later than the one before it: TimeGrows, for one step.
Later ==
    \A c \in Clients :
        /\ given'[c].video > given[c].video /\ given[c].video > 0
              => tracker'[c].video > tracker[c].video \/ tracker'[c].video = Ceiling
        /\ given'[c].audio > given[c].audio /\ given[c].audio > 0
              => tracker'[c].audio > tracker[c].audio \/ tracker'[c].audio = Ceiling

LEMMA ClockInvNext == ClockInv /\ [ClockNext]_clock_vars => ClockInv'
<1> SUFFICES ASSUME ClockInv, [ClockNext]_clock_vars PROVE ClockInv'
  OBVIOUS
<1>1. CASE UNCHANGED clock_vars
  BY <1>1 DEF ClockInv, ClockTypes, Started, LimiterFollows, RateKept, clock_vars
<1>2. CASE ClockNext
  BY <1>2, VideoKeeps, AudioKeeps, DropKeeps DEF ClockNext
<1> QED BY <1>1, <1>2

LEMMA StepGrows == ClockInv /\ [ClockNext]_clock_vars => Later
<1> SUFFICES ASSUME ClockInv, [ClockNext]_clock_vars, NEW d \in Clients PROVE Later!(d)
  BY Zenon DEF Later
<1>0. /\ tracker \in [Clients -> Trackers] /\ given \in [Clients -> Counts]
      /\ tracker[d] \in Trackers
  BY DEF ClockInv, ClockTypes
<1>1. given[d].video \in Nat /\ given[d].audio \in Nat
  BY <1>0 DEF Counts
<1>2. /\ given[d].video > 0 => tracker[d].started
      /\ given[d].audio > 0 => tracker[d].anchored
  BY DEF ClockInv, Started
\* A step gives the client nothing, counts afresh, or goes through one frame of its own.
<1>3. CASE given'[d].video \in {0, given[d].video} /\ given'[d].audio \in {0, given[d].audio}
  BY <1>1, <1>3
<1>4. CASE /\ given'[d].audio = given[d].audio
           /\ \E us \in CameraTimes : tracker'[d] = next_video_us(tracker[d], us)
  <2>1. PICK us \in CameraTimes : tracker'[d] = next_video_us(tracker[d], us)
    BY <1>4
  <2>2. tracker[d].started => tracker'[d].video > tracker[d].video \/ tracker'[d].video = Ceiling
    BY <1>0, <2>1, VideoTime
  <2> QED BY <1>1, <1>2, <1>4, <2>2
<1>5. CASE /\ given'[d].video = given[d].video
           /\ \E duration \in Nat : tracker'[d] = next_audio_us(tracker[d], duration)
  <2>1. PICK duration \in Nat : tracker'[d] = next_audio_us(tracker[d], duration)
    BY <1>5
  <2>2. tracker[d].anchored => tracker'[d].audio > tracker[d].audio \/ tracker'[d].audio = Ceiling
    BY <1>0, <2>1, AudioTime
  <2> QED BY <1>1, <1>2, <1>5, <2>2
<1>6. CASE UNCHANGED clock_vars
  <2>1. given' = given
    BY <1>6 DEF clock_vars
  <2> QED BY <2>1, <1>3
<1>7. ASSUME NEW c \in Clients, NEW us \in CameraTimes, NEW key \in BOOLEAN, VideoFrame(c, us, key)
      PROVE  Later!(d)
  <2>1. CASE c = d
    BY <1>0, <1>4, <1>7, <2>1 DEF VideoFrame, Counts
  <2>2. CASE c # d
    <3>1. given'[d] = given[d]
      BY <1>0, <1>7, <2>2 DEF VideoFrame
    <3> QED BY <3>1, <1>3
  <2> QED BY <2>1, <2>2
<1>8. ASSUME NEW c \in Clients, NEW duration \in Nat, AudioFrame(c, duration)
      PROVE  Later!(d)
  <2>1. CASE c = d
    BY <1>0, <1>5, <1>8, <2>1 DEF AudioFrame, Counts
  <2>2. CASE c # d
    <3>1. given'[d] = given[d]
      BY <1>0, <1>8, <2>2 DEF AudioFrame
    <3> QED BY <3>1, <1>3
  <2> QED BY <2>1, <2>2
<1>9. ASSUME NEW c \in Clients, ClockDropped(c)
      PROVE  Later!(d)
  <2>1. given'[d] \in {NewGiven, given[d]}
    BY <1>0, <1>9 DEF ClockDropped
  <2> QED BY <2>1, <1>3 DEF NewGiven
<1> QED BY <1>6, <1>7, <1>8, <1>9 DEF ClockNext

-----------------------------------------------------------------------------
\* Whatever the camera's clock does, a client with a limit is given no more P-frames
\* than the time that has passed on its own clock pays for (GopLimiter, factory.rs).
THEOREM ClockRateKept == ClockSpec => []RateKept
<1>1. ClockInv => RateKept
  BY DEF ClockInv
<1> QED BY <1>1, ClockInvInit, ClockInvNext, PTL DEF ClockSpec

\* The times that a client's frames are given grow, wraps and restarts of the camera's
\* clock included, up to the end of a 64-bit clock (TimestampTracker, timestamps.rs).
THEOREM ClockTimeGrows == ClockSpec => TimeGrows
<1>1. ClockInv /\ [ClockNext]_clock_vars => [Later]_clock_vars
  BY StepGrows
<1>2. ClockSpec => [][Later]_clock_vars
  BY <1>1, ClockInvInit, ClockInvNext, PTL DEF ClockSpec
<1> QED BY <1>2 DEF TimeGrows, Later

-----------------------------------------------------------------------------
(* The media of the RTSP server.                                           *)

Kinds == Pictures \union DOMAIN Works
Frames(past) == [kind : Pictures \union past, us : CameraTimes]

\* The frames that wait have a time that the camera's clock can show, and are of a kind
\* that the camera has sent.
FrameTypes ==
    /\ queue \in [Clients -> Seq(Frames(encoder.past))]
    /\ buffer \in [Clients -> Seq(Frames(encoder.past))]
    /\ ticks \in CameraTimes /\ encoder \in [audio : DOMAIN Works, past : SUBSET DOMAIN Works]
    /\ encoder.audio \in encoder.past

-----------------------------------------------------------------------------
(* The frames                                                              *)

LEMMA FrameTypesInit == Init => FrameTypes
<1> SUFFICES ASSUME Init PROVE FrameTypes
  OBVIOUS
<1>1. 0 \in CameraTimes
  BY MediaClockAssumption DEF CameraTimes
<1>2. <<>> \in Seq(Frames(encoder.past))
  OBVIOUS
<1>3. PICK a \in DOMAIN Works : encoder = [audio |-> a, past |-> {a}]
  BY DEF Init, MediaInit
<1> QED BY <1>1, <1>2, <1>3 DEF FrameTypes, Init, FeedInit, MediaInit

LEMMA TailType ==
    ASSUME NEW F, NEW s \in Seq(F), s # <<>>
    PROVE  Tail(s) \in Seq(F) /\ Head(s) \in F
  OBVIOUS

\* A longer list of what the camera has sent takes in the frames of a shorter one.
LEMMA MoreKinds ==
    ASSUME NEW past, NEW more, past \subseteq more, NEW s \in Seq(Frames(past))
    PROVE  s \in Seq(Frames(more))
<1>1. Frames(past) \subseteq Frames(more)
  BY DEF Frames
<1> QED BY <1>1

LEMMA GiveUpType ==
    ASSUME FrameTypes, NEW c \in Clients, GiveUp(c)
    PROVE  queue' \in [Clients -> Seq(Frames(encoder.past))] /\ ticks' = ticks
<1>1. <<>> \in Seq(Frames(encoder.past))
  OBVIOUS
<1> QED BY <1>1 DEF FrameTypes, GiveUp

LEMMA FeedType ==
    ASSUME FrameTypes, NEW c \in Clients,
           FeedNext(c, Pictures \union ({encoder.audio} \ {"none"}))
    PROVE  queue' \in [Clients -> Seq(Frames(encoder.past))] /\ ticks' \in CameraTimes
<1>1. CASE FeedRuns(c) \/ CameraEnds(c)
  BY <1>1 DEF FrameTypes, FeedRuns, CameraEnds, PermitOver, Notice, Resume, Pause
<1>2. ASSUME NEW kind \in Pictures \union ({encoder.audio} \ {"none"}), NEW step \in Steps,
             Produce(c, kind, step)
      PROVE  queue' \in [Clients -> Seq(Frames(encoder.past))] /\ ticks' \in CameraTimes
  <2>1. kind \in Pictures \union encoder.past
    BY DEF FrameTypes
  <2>2. ticks' \in CameraTimes
    <3>1. step \in Nat /\ ticks \in Nat /\ Wrap \in Nat /\ Wrap > 0
      BY PausedStreamAssumption, MediaClockAssumption DEF FrameTypes, CameraTimes
    <3> QED BY <3>1, <1>2 DEF Produce, CameraTimes
  <2>3. 0 \in CameraTimes
    BY MediaClockAssumption DEF CameraTimes
  <2> DEFINE frame == [kind |-> kind, us |-> IF kind \in Pictures THEN ticks' ELSE 0]
  <2>4. frame \in Frames(encoder.past)
    BY <2>1, <2>2, <2>3 DEF Frames
  <2>5. queue' = [queue EXCEPT ![c] = Append(queue[c], frame)]
    BY <1>2 DEF Produce
  <2> HIDE DEF frame
  <2>6. Append(queue[c], frame) \in Seq(Frames(encoder.past))
    BY <2>4 DEF FrameTypes
  <2> QED BY <2>2, <2>5, <2>6 DEF FrameTypes
<1> QED BY <1>1, <1>2 DEF FeedNext

LEMMA FrameTypesNext == FrameTypes /\ [Next]_vars => FrameTypes'
<1> SUFFICES ASSUME FrameTypes, [Next]_vars PROVE FrameTypes'
  OBVIOUS
<1> USE DEF FrameTypes
<1>0. <<>> \in Seq(Frames(encoder.past))
  OBVIOUS
<1>1. CASE UNCHANGED vars
  BY <1>1 DEF vars, media_vars, feed_vars, stream_vars
<1>2. CASE ProfileAges
  BY <1>2 DEF ProfileAges, stream_vars
<1>5. CASE EncoderChanges
  <2>1. PICK audio \in DOMAIN Works : encoder' = [audio |-> audio, past |-> encoder.past \union {audio}]
    BY <1>5 DEF EncoderChanges
  <2>2. queue' = queue /\ buffer' = buffer /\ ticks' = ticks
    BY <1>5 DEF EncoderChanges, stream_vars
  <2>3. encoder.past \subseteq encoder'.past
    BY <2>1
  <2> QED BY <2>1, <2>2, <2>3, MoreKinds
<1>3. CASE (Motion \/ Push) /\ UNCHANGED <<media_vars, clock_vars>>
  BY <1>3 DEF Motion, Push, media_vars
<1>4. ASSUME NEW c \in Clients, ClientNext(c) PROVE FrameTypes'
  <2>1. ASSUME NEW format \in Formats, Describe(c, format) PROVE FrameTypes'
    BY <2>1 DEF Describe, Subscribe
  <2>2. CASE Learn(c)
    <3>1. queue[c] \in Seq(Frames(encoder.past)) /\ queue[c] # <<>>
      BY <2>2 DEF Learn
    <3>2. /\ Tail(queue[c]) \in Seq(Frames(encoder.past))
          /\ Append(buffer[c], Head(queue[c])) \in Seq(Frames(encoder.past))
      BY <3>1, TailType
    <3> QED BY <2>2, <3>2 DEF Learn
  <2>3. CASE Learned(c) \/ HandOver(c) \/ (\E payload \in Payloads : Decide(c, payload)) \/ TearDown(c)
    BY <2>3 DEF Learned, HandOver, Decide, TearDown, KeepFeed, feed_vars, stream_vars
  <2>4. CASE TaskRefused(c) \/ Leaves(c)
    BY <2>4 DEF TaskRefused, Failing, Leaves, feed_vars, stream_vars
  <2>5. CASE TaskFails(c)
    BY <2>5, <1>0, GiveUpType DEF TaskFails, Failing
  <2>6. CASE PumpFrame(c)
    <3> DEFINE waiting == buffer[c] \o queue[c]
    <3>1. CASE ~Sent(c, Head(waiting))
      BY <2>6, <3>1, <1>0 DEF PumpFrame, PumpEnds, feed_vars, stream_vars
    <3>2. CASE Sent(c, Head(waiting)) /\ buffer[c] # <<>>
      <4>1. Tail(buffer[c]) \in Seq(Frames(encoder.past))
        BY <3>2, TailType
      <4> QED BY <2>6, <3>2, <4>1 DEF PumpFrame, feed_vars, stream_vars
    <3>3. CASE Sent(c, Head(waiting)) /\ buffer[c] = <<>>
      <4>1. queue[c] # <<>>
        BY <2>6, <3>3 DEF PumpFrame
      <4>2. Tail(queue[c]) \in Seq(Frames(encoder.past))
        BY <4>1, TailType
      <4> QED BY <2>6, <3>3, <4>2 DEF PumpFrame
    <3> QED BY <3>1, <3>2, <3>3
  <2>7. CASE PumpCloses(c) \/ PumpLooks(c)
    BY <2>7, <1>0 DEF PumpCloses, PumpLooks, PumpEnds, feed_vars, stream_vars
  <2>8. CASE StreamGivenUp(c)
    BY <2>8, GiveUpType DEF StreamGivenUp
  <2>9. CASE /\ FeedNext(c, Pictures \union ({encoder.audio} \ {"none"}))
             /\ UNCHANGED <<media_vars, clock_vars>>
    BY <2>9, FeedType DEF media_vars
  <2> QED BY <1>4, <2>1, <2>2, <2>3, <2>4, <2>5, <2>6, <2>7, <2>8, <2>9
          DEF ClientNext, TaskNext, PumpNext
<1> QED BY <1>1, <1>2, <1>3, <1>4, <1>5 DEF Next

-----------------------------------------------------------------------------
(* The clocks                                                              *)

LEMMA PumpIsClock ==
    ASSUME FrameTypes, NEW c \in Clients, PumpFrame(c)
    PROVE  ClockNext
<1> DEFINE waiting == buffer[c] \o queue[c]
           frame == Head(waiting)
<1>1. frame \in Frames(encoder.past)
  <2>1. waiting \in Seq(Frames(encoder.past)) /\ waiting # <<>>
    BY DEF FrameTypes, PumpFrame
  <2> HIDE DEF waiting
  <2> QED BY <2>1, TailType
<1>2. CASE ~Sent(c, frame)
  <2>1. ClockDropped(c)
    BY <1>2 DEF PumpFrame, PumpEnds
  <2> QED BY <2>1 DEF ClockNext
<1>3. CASE Sent(c, frame)
  <2>1. Clocked(c, frame)
    BY <1>3 DEF PumpFrame
  <2> HIDE DEF frame
  <2>2. frame.us \in CameraTimes /\ (frame.kind = "I") \in BOOLEAN
    BY <1>1 DEF Frames
  <2>3. CASE frame.kind \in Pictures
    BY <2>1, <2>2, <2>3 DEF Clocked, ClockNext
  <2>4. CASE frame.kind \notin Pictures
    <3>1. PICK duration \in {0, 2} : AudioFrame(c, duration)
      BY <2>1, <2>4 DEF Clocked
    <3>2. duration \in Nat
      OBVIOUS
    <3> QED BY <3>1, <3>2 DEF ClockNext
  <2> QED BY <2>3, <2>4
<1> QED BY <1>2, <1>3

LEMMA StepIsClock == FrameTypes /\ [Next]_vars => [ClockNext]_clock_vars
<1> SUFFICES ASSUME FrameTypes, [Next]_vars PROVE [ClockNext]_clock_vars
  OBVIOUS
<1>1. CASE UNCHANGED vars
  BY <1>1 DEF vars
<1>2. CASE ProfileAges \/ EncoderChanges
  BY <1>2 DEF ProfileAges, EncoderChanges
<1>3. CASE (Motion \/ Push) /\ UNCHANGED <<media_vars, clock_vars>>
  BY <1>3
<1>4. ASSUME NEW c \in Clients, ClientNext(c) PROVE [ClockNext]_clock_vars
  <2>1. ASSUME NEW format \in Formats, Describe(c, format) PROVE UNCHANGED clock_vars
    BY <2>1 DEF Describe
  <2>2. CASE TaskNext(c) \/ TearDown(c)
    BY <2>2 DEF TaskNext, Learn, Learned, HandOver, Decide, TearDown, KeepFeed
  <2>3. CASE TaskRefused(c) \/ TaskFails(c) \/ Leaves(c)
    BY <2>3 DEF TaskRefused, TaskFails, Failing, Leaves
  <2>4. CASE PumpFrame(c)
    BY <2>4, PumpIsClock
  <2>5. CASE PumpCloses(c) \/ PumpLooks(c)
    BY <2>5 DEF PumpCloses, PumpLooks, PumpEnds, ClockNext
  <2>6. CASE StreamGivenUp(c)
    BY <2>6 DEF StreamGivenUp
  <2>7. CASE /\ FeedNext(c, Pictures \union ({encoder.audio} \ {"none"}))
             /\ UNCHANGED <<media_vars, clock_vars>>
    BY <2>7
  <2> QED BY <1>4, <2>1, <2>2, <2>3, <2>4, <2>5, <2>6, <2>7 DEF ClientNext, PumpNext
<1> QED BY <1>1, <1>2, <1>3, <1>4 DEF Next

\* The clocks of the server's clients behave as MediaClock says: all the rest of a
\* client's life, and of the others', leaves its clock alone (make_factory, factory.rs).
THEOREM ClientsHaveClocks == Spec => ClockSpec
<1>1. Init => ClockInit
  BY DEF Init
<1> QED BY <1>1, FrameTypesInit, FrameTypesNext, StepIsClock, PTL DEF Spec, ClockSpec

\* A client of the server with a limit is given no more P-frames than its clock pays for.
THEOREM RateIsKept == Spec => []RateKept
  BY ClientsHaveClocks, ClockRateKept, PTL

\* The frames that a client is shown have growing times, from its first to its last.
THEOREM TimesGrow == Spec => TimeGrows
  BY ClientsHaveClocks, ClockTimeGrows, PTL

-----------------------------------------------------------------------------
(* The tracks                                                              *)

ClientRecords ==
    [st : {"out", "learning", "tracks", "over"}, here : BOOLEAN, format : Formats \union {"pcm"},
     video : BOOLEAN, audio : Kinds \union {"none"}, samples : SUBSET Kinds,
     todo : SUBSET Payloads, tracks : SUBSET Payloads, media : {"none", "up", "down"}, pump : {"none", "run", "ended"}]

\* The verdicts are a function on some of the payloads; nothing else of them matters.
ProfileRecord(v) ==
    [video |-> profile.video, audio |-> profile.audio, samples |-> profile.samples, fresh |-> profile.fresh, verdicts |-> v]
IsProfile ==
    /\ profile = ProfileRecord(profile.verdicts)
    /\ profile.audio \in Kinds \union {"none"} /\ profile.video \in BOOLEAN

\* A verdict in the profile that is good is one that some audio of the camera's gave.
Tried(payload) == \E audio \in encoder.past : Negotiates(payload, audio)
VerdictsTrue == \A p \in DOMAIN profile.verdicts : profile.verdicts[p] => Tried(p)

\* What a trial is made with is the camera's own.
SamplesTrue ==
    profile.samples \subseteq encoder.past /\ \A c \in Clients : client[c].samples \subseteq encoder.past

TracksInv ==
    /\ FrameTypes /\ client \in [Clients -> ClientRecords]
    /\ IsProfile /\ VerdictsTrue /\ SamplesTrue /\ TracksWereTried

LEMMA NewClientType == NewClient \in ClientRecords /\ NewClient.tracks = {} /\ NewClient.samples = {}
  BY DEF NewClient, ClientRecords

LEMMA ToTryType == ASSUME NEW a, NEW f PROVE ToTry(a, f) \in SUBSET Payloads
  BY DEF ToTry

LEMMA TracksInvInit == Init => TracksInv
<1> SUFFICES ASSUME Init PROVE TracksInv
  OBVIOUS
<1>1. FrameTypes
  BY FrameTypesInit
<1>2. client \in [Clients -> ClientRecords] /\ TracksWereTried
  BY NewClientType DEF Init, MediaInit, TracksWereTried
<1>3. profile = [video |-> FALSE, audio |-> "none", samples |-> {}, fresh |-> FALSE, verdicts |-> <<>>]
  BY DEF Init, MediaInit
<1>4. DOMAIN <<>> = {}
  OBVIOUS
<1>5. IsProfile /\ VerdictsTrue
  BY <1>3, <1>4 DEF IsProfile, ProfileRecord, VerdictsTrue
<1>6. SamplesTrue
  BY <1>3, NewClientType DEF Init, MediaInit, SamplesTrue
<1> QED BY <1>1, <1>2, <1>5, <1>6 DEF TracksInv

\* A step that leaves the profile alone, and gives no client a track it did not have.
LEMMA NoNewTracks ==
    ASSUME TracksInv, FrameTypes', profile' = profile, encoder' = encoder,
           NEW c \in Clients, NEW r \in ClientRecords, r.tracks \subseteq client[c].tracks,
           r.samples \subseteq encoder.past,
           client' = [client EXCEPT ![c] = r]
    PROVE  TracksInv'
<1>1. client' \in [Clients -> ClientRecords]
  BY DEF TracksInv
<1>2. IsProfile' /\ VerdictsTrue'
  BY DEF TracksInv, IsProfile, ProfileRecord, VerdictsTrue, Tried
<1>3. TracksWereTried'
  BY DEF TracksInv, TracksWereTried
<1>4. SamplesTrue'
  BY DEF TracksInv, SamplesTrue
<1> QED BY <1>1, <1>2, <1>3, <1>4 DEF TracksInv

LEMMA DecideKeeps ==
    ASSUME TracksInv, FrameTypes', NEW c \in Clients, NEW payload \in Payloads, Decide(c, payload)
    PROVE  TracksInv'
<1>0. PICK sample \in client[c].samples :
         LET known == Verdict(payload)
             blocked == client[c].audio # "aac"
             verdict == IF known # {} THEN TRUE \in known ELSE ~blocked /\ Negotiates(payload, sample)
         IN /\ client' = [client EXCEPT ![c].todo = @ \ {payload},
                                        ![c].tracks = IF verdict THEN @ \union {payload} ELSE @]
            /\ profile' = IF known = {} /\ ~blocked /\ profile.video
                          THEN [profile EXCEPT !.verdicts = record_passthrough(@, payload, verdict)]
                          ELSE profile
  BY DEF Decide
<1> DEFINE known == Verdict(payload)
           blocked == client[c].audio # "aac"
           verdict == IF known # {} THEN TRUE \in known ELSE ~blocked /\ Negotiates(payload, sample)
           tracks == IF verdict THEN client[c].tracks \union {payload} ELSE client[c].tracks
           verdicts == record_passthrough(profile.verdicts, payload, verdict)
<1>1. encoder' = encoder
  BY DEF Decide
<1>2. client' = [client EXCEPT ![c].todo = client[c].todo \ {payload}, ![c].tracks = tracks]
  BY <1>0
<1>3. \/ profile' = profile
      \/ known = {} /\ ~blocked /\ profile' = [profile EXCEPT !.verdicts = verdicts]
  BY <1>0
<1>4. verdict => Tried(payload)
  BY DEF TracksInv, VerdictsTrue, SamplesTrue, Verdict, Tried
<1> HIDE DEF known, blocked, verdict
<1>5. client[c] \in ClientRecords
  BY DEF TracksInv
<1>6. tracks \in SUBSET Payloads
  BY <1>5 DEF ClientRecords
<1>7. client' \in [Clients -> ClientRecords]
  <2>1. [client[c] EXCEPT !.todo = client[c].todo \ {payload}, !.tracks = tracks] \in ClientRecords
    BY <1>5, <1>6 DEF ClientRecords
  <2> QED BY <1>2, <2>1 DEF TracksInv
<1>8. TracksWereTried'
  BY <1>1, <1>2, <1>4, <1>5 DEF TracksInv, TracksWereTried, ClientRecords, Tried
<1>10. SamplesTrue'
  <2>1. profile'.samples = profile.samples
    BY <1>3 DEF TracksInv, IsProfile, ProfileRecord
  <2>2. \A d \in Clients : client'[d].samples = client[d].samples
    BY <1>2, <1>5 DEF TracksInv, ClientRecords
  <2> QED BY <1>1, <2>1, <2>2 DEF TracksInv, SamplesTrue
<1>9. IsProfile' /\ VerdictsTrue'
  <2>1. CASE profile' = profile
    BY <1>1, <2>1 DEF TracksInv, IsProfile, ProfileRecord, VerdictsTrue, Tried
  <2>2. CASE profile' = [profile EXCEPT !.verdicts = verdicts]
    <3>1. /\ DOMAIN verdicts = {payload} \union DOMAIN profile.verdicts
          /\ \A p \in DOMAIN verdicts :
                verdicts[p] = IF p = payload THEN verdict ELSE profile.verdicts[p]
      BY DEF record_passthrough
    <3> HIDE DEF verdicts
    <3>2. profile' = ProfileRecord(verdicts)
      BY <2>2 DEF TracksInv, IsProfile, ProfileRecord
    <3>3. profile'.verdicts = verdicts
      BY <3>2 DEF ProfileRecord
    <3>4. IsProfile'
      BY <3>2 DEF TracksInv, IsProfile, ProfileRecord
    <3>5. VerdictsTrue'
      BY <1>1, <1>4, <3>1, <3>3 DEF TracksInv, VerdictsTrue, Tried
    <3> QED BY <3>4, <3>5
  <2> QED BY <1>3, <2>1, <2>2
<1> QED BY <1>7, <1>8, <1>9, <1>10 DEF TracksInv

LEMMA LearnKeeps ==
    ASSUME TracksInv, FrameTypes', NEW c \in Clients, Learn(c) \/ Learned(c)
    PROVE  TracksInv'
<1>0. client[c] \in ClientRecords /\ encoder' = encoder
  BY DEF TracksInv, Learn, Learned
<1>1. CASE Learn(c)
  <2>1. Head(queue[c]).kind \in Pictures \union encoder.past /\ encoder.past \subseteq Kinds
    <3>1. queue[c] \in Seq(Frames(encoder.past)) /\ queue[c] # <<>>
      BY <1>1 DEF TracksInv, FrameTypes, Learn
    <3>2. Head(queue[c]) \in Frames(encoder.past)
      BY <3>1, TailType
    <3> QED BY <3>2 DEF Frames, Kinds, TracksInv, FrameTypes
  <2> DEFINE r == IF Head(queue[c]).kind \in Pictures THEN [client[c] EXCEPT !.video = TRUE]
                  ELSE [client[c] EXCEPT !.audio = Head(queue[c]).kind,
                                         !.samples = @ \union {Head(queue[c]).kind}]
  <2>2. client' = [client EXCEPT ![c] = r] /\ profile' = profile
    BY <1>1 DEF Learn
  <2>3. r \in ClientRecords /\ r.tracks = client[c].tracks
    BY <1>0, <2>1 DEF ClientRecords
  <2>4. r.samples \subseteq encoder.past
    BY <1>0, <2>1 DEF ClientRecords, TracksInv, SamplesTrue
  <2> HIDE DEF r
  <2> QED BY <1>0, <2>2, <2>3, <2>4, NoNewTracks
<1>2. CASE Learned(c)
  <2> DEFINE r == [client[c] EXCEPT !.st = "tracks", !.todo = ToTry(client[c].audio, client[c].format)]
  <2>1. client' = [client EXCEPT ![c] = r]
    BY <1>2 DEF Learned
  <2>2. r \in ClientRecords /\ r.tracks = client[c].tracks /\ r.samples = client[c].samples
    BY <1>0, ToTryType DEF ClientRecords
  <2> HIDE DEF r
  <2>3. client' \in [Clients -> ClientRecords] /\ TracksWereTried'
    BY <1>0, <2>1, <2>2 DEF TracksInv, TracksWereTried
  <2>4. IsProfile' /\ profile'.verdicts = profile.verdicts
    BY <1>0, <1>2 DEF Learned, TracksInv, IsProfile, ProfileRecord, ClientRecords
  <2>5. SamplesTrue'
    <3>1. profile'.samples \in {profile.samples, client[c].samples}
      BY <1>2 DEF Learned, TracksInv, IsProfile, ProfileRecord
    <3>2. \A d \in Clients : client'[d].samples = client[d].samples
      BY <2>1, <2>2 DEF TracksInv
    <3> QED BY <1>0, <3>1, <3>2 DEF TracksInv, SamplesTrue
  <2> QED BY <1>0, <2>3, <2>4, <2>5 DEF TracksInv, VerdictsTrue, Tried
<1> QED BY <1>1, <1>2

LEMMA TracksInvNext == TracksInv /\ [Next]_vars => TracksInv'
<1> SUFFICES ASSUME TracksInv, [Next]_vars PROVE TracksInv'
  OBVIOUS
<1>0. FrameTypes'
  BY FrameTypesNext DEF TracksInv
<1>1. CASE UNCHANGED <<client, profile, encoder>>
  BY <1>0, <1>1 DEF TracksInv, IsProfile, ProfileRecord, VerdictsTrue, Tried, SamplesTrue, TracksWereTried
<1>2. CASE UNCHANGED vars
  BY <1>1, <1>2 DEF vars, media_vars
<1>3. CASE ProfileAges
  <2>1. IsProfile' /\ profile'.verdicts = profile.verdicts /\ profile'.samples = profile.samples
    BY <1>3 DEF ProfileAges, TracksInv, IsProfile, ProfileRecord
  <2> QED BY <1>0, <1>3, <2>1 DEF ProfileAges, TracksInv, VerdictsTrue, Tried, SamplesTrue, TracksWereTried
<1>6. CASE EncoderChanges
  <2>1. client' = client /\ profile' = profile /\ encoder.past \subseteq encoder'.past
    BY <1>6 DEF EncoderChanges
  <2>2. \A p : Tried(p) => Tried(p)'
    BY <2>1 DEF Tried, Negotiates
  <2>3. TracksWereTried' /\ VerdictsTrue'
    BY <2>1, <2>2 DEF TracksInv, TracksWereTried, VerdictsTrue, Tried
  <2>4. SamplesTrue' /\ IsProfile'
    BY <2>1 DEF TracksInv, SamplesTrue, IsProfile, ProfileRecord
  <2> QED BY <1>0, <2>1, <2>3, <2>4 DEF TracksInv
<1>4. CASE (Motion \/ Push) /\ UNCHANGED <<media_vars, clock_vars>>
  BY <1>1, <1>4 DEF media_vars
<1>5. ASSUME NEW c \in Clients, ClientNext(c) PROVE TracksInv'
  <2>0. client[c] \in ClientRecords /\ client[c].tracks \in SUBSET Payloads
       /\ client[c].samples \subseteq encoder.past
    BY DEF TracksInv, ClientRecords, SamplesTrue
  <2>1. ASSUME NEW format \in Formats, Describe(c, format) PROVE TracksInv'
    <3> DEFINE asked == [NewClient EXCEPT !.here = TRUE, !.format = format]
               r == IF profile.fresh
                    THEN [asked EXCEPT !.st = "tracks", !.video = profile.video, !.audio = profile.audio,
                                       !.samples = profile.samples,
                                       !.todo = ToTry(profile.audio, format)]
                    ELSE [asked EXCEPT !.st = "learning"]
    <3>1. client' = [client EXCEPT ![c] = r] /\ profile' = profile /\ encoder' = encoder
      BY <2>1 DEF Describe
    <3>2. asked \in ClientRecords /\ asked.tracks = {} /\ asked.samples = {}
      BY NewClientType DEF ClientRecords
    <3> HIDE DEF asked
    <3>3. r \in ClientRecords /\ r.tracks = {} /\ r.samples \subseteq encoder.past
      <4>1. profile.samples \subseteq Kinds /\ profile.samples \subseteq encoder.past
        BY DEF TracksInv, SamplesTrue, FrameTypes, Kinds
      <4> QED BY <3>2, <4>1, ToTryType DEF ClientRecords, TracksInv, IsProfile
    <3> HIDE DEF r
    <3> QED BY <1>0, <3>1, <3>3, NoNewTracks
  <2>2. CASE Learn(c) \/ Learned(c)
    BY <1>0, <2>2, LearnKeeps
  <2>3. ASSUME NEW payload \in Payloads, Decide(c, payload) PROVE TracksInv'
    BY <1>0, <2>3, DecideKeeps
  <2>4. CASE HandOver(c)
    <3> DEFINE r == [client[c] EXCEPT !.st = "over", !.media = "up", !.pump = "run"]
    <3>1. client' = [client EXCEPT ![c] = r] /\ profile' = profile /\ encoder' = encoder
      BY <2>4 DEF HandOver
    <3>2. r \in ClientRecords /\ r.tracks = client[c].tracks /\ r.samples = client[c].samples
      BY <2>0 DEF ClientRecords
    <3> HIDE DEF r
    <3> QED BY <1>0, <2>0, <3>1, <3>2, NoNewTracks
  <2>5. CASE TaskRefused(c) \/ TaskFails(c) \/ StreamGivenUp(c)
    <3>1. client' = [client EXCEPT ![c] = NewClient] /\ profile' = profile /\ encoder' = encoder
      BY <2>5 DEF TaskRefused, TaskFails, Failing, StreamGivenUp
    <3>2. {} \subseteq client[c].tracks
      OBVIOUS
    <3> QED BY <1>0, <3>1, <3>2, NewClientType, NoNewTracks
  <2>6. CASE PumpEnds(c)
    <3> DEFINE r == [NewClient EXCEPT !.st = "over", !.pump = "ended"]
    <3>1. client' = [client EXCEPT ![c] = r] /\ profile' = profile /\ encoder' = encoder
      BY <2>6 DEF PumpEnds
    <3>2. r \in ClientRecords /\ r.tracks = {} /\ r.samples = {}
      BY NewClientType DEF ClientRecords
    <3> HIDE DEF r
    <3> QED BY <1>0, <2>0, <3>1, <3>2, NoNewTracks
  <2>7. CASE PumpFrame(c)
    BY <1>1, <2>6, <2>7 DEF PumpFrame
  <2>8. CASE PumpCloses(c) \/ PumpLooks(c)
    BY <2>6, <2>8 DEF PumpCloses, PumpLooks
  <2>9. CASE Leaves(c)
    <3> DEFINE r == [client[c] EXCEPT !.here = FALSE]
    <3>1. client' = [client EXCEPT ![c] = r] /\ profile' = profile /\ encoder' = encoder
      BY <2>9 DEF Leaves
    <3>2. r \in ClientRecords /\ r.tracks = client[c].tracks /\ r.samples = client[c].samples
      BY <2>0 DEF ClientRecords
    <3> HIDE DEF r
    <3> QED BY <1>0, <2>0, <3>1, <3>2, NoNewTracks
  <2>10. CASE TearDown(c)
    <3> DEFINE r == [client[c] EXCEPT !.media = "down"]
    <3>1. client' = [client EXCEPT ![c] = r] /\ profile' = profile /\ encoder' = encoder
      BY <2>10 DEF TearDown
    <3>2. r \in ClientRecords /\ r.tracks = client[c].tracks /\ r.samples = client[c].samples
      BY <2>0 DEF ClientRecords
    <3> HIDE DEF r
    <3> QED BY <1>0, <2>0, <3>1, <3>2, NoNewTracks
  <2>11. CASE /\ FeedNext(c, Pictures \union ({encoder.audio} \ {"none"}))
              /\ UNCHANGED <<media_vars, clock_vars>>
    BY <1>1, <2>11 DEF media_vars
  <2> QED BY <1>5, <2>1, <2>2, <2>3, <2>4, <2>5, <2>7, <2>8, <2>9, <2>10, <2>11
          DEF ClientNext, TaskNext, PumpNext
<1> QED BY <1>2, <1>3, <1>4, <1>5, <1>6 DEF Next

\* Whatever the clients ask for, in which order they try it and whatever becomes of the
\* encoder, none is handed a track that no audio of the camera's negotiated
\* (can_pass_through, factory.rs).
THEOREM OfferedTracksWereTried == Spec => []TracksWereTried
<1>1. TracksInv => TracksWereTried
  BY DEF TracksInv
<1> QED BY <1>1, TracksInvInit, TracksInvNext, PTL DEF Spec

-----------------------------------------------------------------------------
(* The paths of the RTSP server.                                           *)

Stages == {"off", "mount", "wait", "serve"}

\* A branch runs for a stream that is configured, and one that serves has its paths.
MountsInv ==
    /\ branch \in [Streamed -> Stages] /\ DOMAIN mounted = Paths
    /\ \A s \in Streamed : branch[s] # "off" => s \in following.streams
    /\ \A s \in Streamed : branch[s] = "serve" =>
          \A p \in PathsOf(s) : mounted[p] = [kind |-> "real", of |-> s, version |-> following.version]

\* Of two streams one is the better: they are told apart by their ranks.
LEMMA RanksDiffer ==
    ASSUME NEW s \in Streamed, NEW t \in Streamed, Rank(s) <= Rank(t), Rank(t) <= Rank(s)
    PROVE  s = t
<1>1. Len(Streams) \in Nat
  BY MountsAssumption
<1>2. ASSUME NEW r \in Streamed PROVE Rank(r) \in 1..Len(Streams) /\ Streams[Rank(r)] = r
  BY <1>2 DEF Streamed, Rank
<1>3. Rank(s) = Rank(t)
  BY <1>1, <1>2
<1> QED BY <1>2, <1>3

\* No path is that of two streams that are configured.
LEMMA PathsApart ==
    ASSUME NEW s \in following.streams, NEW t \in following.streams, s # t,
           s \in Streamed, t \in Streamed
    PROVE  PathsOf(s) \cap PathsOf(t) = {}
<1>1. ~(HasBarePath(s) /\ HasBarePath(t))
  BY RanksDiffer DEF HasBarePath
<1> QED BY <1>1, MountsAssumption DEF PathsOf

LEMMA PathsOfIsPaths == \A s \in Streamed : PathsOf(s) \subseteq Paths
  BY DEF PathsOf, Paths

\* What the branch of one stream mounts leaves what the others serve.
LEMMA MountKeeps ==
    ASSUME MountsInv, NEW s \in Streamed, NEW kind, NEW stage \in Stages, branch[s] # "off",
           Mount(s, kind), branch' = [branch EXCEPT ![s] = stage], following' = following,
           stage # "off", stage = "serve" => kind = "real"
    PROVE  MountsInv'
<1>1. branch' \in [Streamed -> Stages] /\ DOMAIN mounted' = Paths
  BY DEF MountsInv, Mount
<1>2. ASSUME NEW t \in Streamed, branch'[t] # "off" PROVE t \in following'.streams
  BY <1>2 DEF MountsInv
<1>3. ASSUME NEW t \in Streamed, branch'[t] = "serve", NEW p \in PathsOf(t)'
      PROVE  mounted'[p] = [kind |-> "real", of |-> t, version |-> following'.version]
  <2>1. p \in PathsOf(t) /\ p \in Paths
    BY <1>3, PathsOfIsPaths DEF PathsOf, HasBarePath
  <2>2. CASE t = s
    <3>1. kind = "real"
      BY <1>3, <2>2 DEF MountsInv
    <3> QED BY <2>1, <2>2, <3>1 DEF Mount
  <2>3. CASE t # s
    <3>1. branch[t] = "serve" /\ t \in following.streams /\ s \in following.streams
      BY <1>3, <2>3 DEF MountsInv
    <3>2. p \notin PathsOf(s)
      BY <2>1, <2>3, <3>1, PathsApart
    <3> QED BY <2>1, <3>1, <3>2 DEF Mount, MountsInv
  <2> QED BY <2>2, <2>3
<1> QED BY <1>1, <1>2, <1>3 DEF MountsInv

LEMMA MountsInvInit == MountsInit => MountsInv
  BY DEF MountsInit, MountsInv, Off, Stages

\* Branches that begin again serve nothing yet.
LEMMA BeginKeeps ==
    ASSUME MountsInv, mounted' = mounted,
           branch' = Off \/ branch' = Branches(following')
    PROVE  MountsInv'
  BY DEF MountsInv, Off, Branches, Stages

LEMMA MountsInvNext == MountsInv /\ [MountsNext]_mount_vars => MountsInv'
<1> SUFFICES ASSUME MountsInv, [MountsNext]_mount_vars PROVE MountsInv'
  OBVIOUS
<1>1. ASSUME UNCHANGED <<mounted, branch, following>> PROVE MountsInv'
  BY <1>1 DEF MountsInv, PathsOf, HasBarePath
<1>2. CASE UNCHANGED mount_vars \/ Poll \/ PollFails \/ Reconfigure \/ CameraChanges
  BY <1>1, <1>2 DEF mount_vars, Poll, PollFails, Reconfigure, CameraChanges
<1>3. CASE StartCamera \/ StopCamera \/ Restart
  BY <1>3, BeginKeeps DEF StartCamera, StopCamera, Restart
<1>4. ASSUME NEW s \in Streamed, MountDummy(s) PROVE MountsInv'
  BY <1>4, MountKeeps DEF MountDummy, Stages
<1>5. ASSUME NEW s \in Streamed, MountStream(s) PROVE MountsInv'
  BY <1>5, MountKeeps DEF MountStream, Stages
<1>6. ASSUME NEW s \in Streamed, NeverSupported(s) PROVE MountsInv'
  BY <1>6, BeginKeeps DEF NeverSupported
<1> QED BY <1>2, <1>3, <1>4, <1>5, <1>6 DEF MountsNext, Branch

\* However many streams a camera has, whichever branch is faster and whatever was mounted
\* before, a stream that is served and nothing else answers on its paths (camera_main,
\* mod.rs).
THEOREM ServedOnItsPaths == MountsSpec => []PathsAreServed
<1>1. MountsInv => PathsAreServed
  BY DEF MountsInv, PathsAreServed, PathsOf, HasBarePath
<1> QED BY <1>1, MountsInvInit, MountsInvNext, PTL DEF MountsSpec
=============================================================================
