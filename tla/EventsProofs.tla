----------------------------- MODULE EventsProofs -----------------------------
(***************************************************************************)
(* What the motion thread's watches say of the camera, and ONVIF of the    *)
(* watches: for any alarms and any number of subscriptions, losses and     *)
(* messages.                                                               *)
(*                                                                         *)
(* The AI state is folded over alarms that are still queued, but of a fold *)
(* only its last word counts: the last alarm that reports, the last with   *)
(* an AItype, the last status that is not NoChange.  So the invariant      *)
(* speaks of the last one in each queue, and of what is past the queue     *)
(* when there is none.                                                     *)
(***************************************************************************)
EXTENDS OnvifEvents, SequenceTheorems, FiniteSetTheorems, TLAPS

Statuses == {"NoChange", "Start", "Stop"}
AiStates == [Types -> {"unseen", "on", "off"}]

MotionTyped ==
    /\ listening \in {"no", "asked", "yes"}
    /\ alarms \in Seq(Alarms) /\ queue \in Seq(Statuses) /\ hand \in Statuses \union {"none"}
    /\ heard \in [state : AiStates, new : BOOLEAN] /\ ai \in AiStates
    /\ md \in {"unknown", "Start", "Stop"}
    /\ DOMAIN said = {"motion", "types", "zones"}
    /\ said.motion \in {"unknown", "Start", "Stop"} /\ said.zones \subseteq Zones
    /\ said.types # NoAiType => said.types \intersect Zones = {}
    /\ count \in [alarms : Nat, losses : Nat]

\* Nothing is on its way from a camera that is not listened to.
NotListening ==
    listening # "yes" =>
        /\ alarms = <<>> /\ hand = "none" /\ queue = <<>>
        /\ heard = [state |-> Unseen, new |-> FALSE] /\ said = Nobody

Reports(alarm) == Ours(alarm) # <<>>
OnIn(state, types) == {t \in types : state[t] = "on"}

\* The last report is in the queue, or in the state.
ZonesKept ==
    /\ \A i \in DOMAIN alarms :
         Reports(alarms[i]) /\ (\A j \in DOMAIN alarms : i < j => ~Reports(alarms[j]))
           => said.zones = ActiveZones(alarms[i]) /\ said.motion = StatusOf(alarms[i])
    /\ (\A i \in DOMAIN alarms : ~Reports(alarms[i])) => OnIn(heard.state, Zones) = said.zones

TypesKept ==
    /\ \A i \in DOMAIN alarms :
         SawAiType(alarms[i]) /\ (\A j \in DOMAIN alarms : i < j => ~SawAiType(alarms[j]))
           => said.types = Active(alarms[i])
    /\ (\A i \in DOMAIN alarms : ~SawAiType(alarms[i])) /\ said.types # NoAiType
         => OnIn(heard.state, Types \ Zones) = said.types \intersect Types

\* The last status that says something is the camera's last, wherever it is.
StatusKept ==
    (\A i \in DOMAIN alarms : ~Reports(alarms[i])) =>
        /\ hand \in {"Start", "Stop"} => hand = said.motion
        /\ hand \in {"none", "NoChange"} =>
             /\ \A i \in DOMAIN queue :
                  queue[i] # "NoChange" /\ (\A j \in DOMAIN queue : i < j => queue[j] = "NoChange")
                    => queue[i] = said.motion
             /\ (\A i \in DOMAIN queue : queue[i] = "NoChange")
                  => said.motion = "unknown" \/ passed \/ md = said.motion

\* What is not news has been mirrored, or is the state of a new connection.
Mirrored ==
    ~heard.new => (heard.state = Unseen \/ ai = heard.state) /\ (count.losses = 0 => ai = heard.state)

MotionInv == MotionTyped /\ NotListening /\ ZonesKept /\ TypesKept /\ StatusKept /\ Mirrored

\* ONVIF has what the watches say, unless a change is still to be seen.
Followed ==
    /\ DOMAIN last = Keys
    /\ md = "unknown" => last["motion"] = "none"
    /\ "md" \notin news => last["motion"] = CASE md = "Start" -> "on" [] md = "Stop" -> "off" [] OTHER -> "none"
    /\ "ai" \notin news => \A t \in Types : ai[t] = "on" <=> last[t] = "on"

-----------------------------------------------------------------------------
(* Sequences and alarms                                                    *)

LEMMA Longer ==
    ASSUME NEW S, NEW q \in Seq(S), NEW m \in S
    PROVE  /\ Append(q, m) \in Seq(S) /\ Len(q) \in Nat
           /\ DOMAIN q = 1..Len(q) /\ DOMAIN Append(q, m) = 1..(Len(q) + 1)
           /\ \A i \in 1..Len(q) : Append(q, m)[i] = q[i]
           /\ Append(q, m)[Len(q) + 1] = m
  BY AppendProperties

LEMMA Shorter ==
    ASSUME NEW S, NEW q \in Seq(S), q # <<>>
    PROVE  /\ Tail(q) \in Seq(S) /\ Head(q) \in S /\ Head(q) = q[1] /\ Len(q) \in Nat \ {0}
           /\ DOMAIN q = 1..Len(q) /\ DOMAIN Tail(q) = 1..(Len(q) - 1)
           /\ \A i \in 1..(Len(q) - 1) : Tail(q)[i] = q[i + 1]
  BY HeadTailProperties, EmptySeq

LEMMA AlarmFacts ==
    ASSUME NEW a
    PROVE  /\ StatusOf(a) \in Statuses
           /\ ~Reports(a) => StatusOf(a) = "NoChange"
           /\ Reports(a) => StatusOf(a) \in {"Start", "Stop"}
           /\ SawAiType(a) => Reports(a)
           /\ a \in Alarms => ActiveZones(a) \subseteq Zones /\ Active(a) \intersect Zones = {}
<1>1. SawAiType(a) => Reports(a)
  BY DEF SawAiType, OursSet, ToSet, Reports
<1> QED BY <1>1, AlarmsAssumption DEF StatusOf, Statuses, Reports

LEMMA FoldFacts ==
    ASSUME NEW a \in Alarms, NEW state \in AiStates
    PROVE  /\ apply_events(state, a) \in AiStates
           /\ OnIn(apply_events(state, a), Zones) = ActiveZones(a)
           /\ SawAiType(a) => OnIn(apply_events(state, a), Types \ Zones) = Active(a) \intersect Types
           /\ ~SawAiType(a) => OnIn(apply_events(state, a), Types \ Zones) = OnIn(state, Types \ Zones)
  BY AlarmFacts, MotionAssumption DEF apply_events, AiStates, OnIn

-----------------------------------------------------------------------------
(* The watches                                                             *)

LEMMA MotionInit == MInit => MotionInv
<1> SUFFICES ASSUME MInit PROVE MotionInv
  OBVIOUS
<1>1. alarms \in Seq(Alarms) /\ queue \in Seq(Statuses)
  BY EmptySeq DEF MInit
<1>2. Unseen \in AiStates /\ OnIn(Unseen, Zones) = {}
  BY MotionAssumption DEF Unseen, AiStates, OnIn
<1> QED BY <1>1, <1>2 DEF MInit, MotionInv, MotionTyped, NotListening, ZonesKept, TypesKept, StatusKept,
             Mirrored, Nobody, NoAiType, Statuses

\* A connection that begins or ends leaves nothing queued and nothing said.
LEMMA Fresh ==
    ASSUME MotionInv, listening' \in {"no", "asked", "yes"},
           alarms' = <<>>, hand' = "none", queue' = <<>>,
           heard' = [state |-> Unseen, new |-> FALSE], said' = Nobody,
           UNCHANGED <<md, ai>>, count' \in [alarms : Nat, losses : Nat],
           count'.losses = 0 => ai = Unseen
    PROVE  MotionInv'
<1>1. alarms' \in Seq(Alarms) /\ queue' \in Seq(Statuses)
  BY EmptySeq
<1>2. Unseen \in AiStates /\ OnIn(Unseen, Zones) = {}
  BY MotionAssumption DEF Unseen, AiStates, OnIn
<1>3. MotionTyped'
  BY <1>1, <1>2 DEF MotionInv, MotionTyped, Nobody
<1> QED BY <1>1, <1>2, <1>3 DEF MotionInv, NotListening, ZonesKept, TypesKept, StatusKept, Mirrored, Nobody

\* What the watches' readers have seen does not matter, nor how often the camera spoke.
LEMMA SameKeeps ==
    ASSUME MotionInv, UNCHANGED <<listening, alarms, hand, queue, heard, md, ai, said, passed>>,
           count' \in [alarms : Nat, losses : Nat], count'.losses = count.losses
    PROVE  MotionInv'
<1>1. MotionTyped'
  BY DEF MotionInv, MotionTyped
<1>2. NotListening' /\ Mirrored'
  BY DEF MotionInv, NotListening, Mirrored
<1>3. ZonesKept'
  BY DEF MotionInv, ZonesKept
<1>4. TypesKept'
  BY DEF MotionInv, TypesKept
<1>5. StatusKept'
  BY DEF MotionInv, StatusKept
<1> QED BY <1>1, <1>2, <1>3, <1>4, <1>5 DEF MotionInv

LEMMA AlarmKeeps == ASSUME MotionInv, NEW a \in Alarms, Alarm(a) PROVE MotionInv'
<1>1. /\ UNCHANGED <<listening, hand, queue, heard, md, ai, passed>>
      /\ count' \in [alarms : Nat, losses : Nat] /\ count'.losses = count.losses
  BY DEF Alarm, MotionInv, MotionTyped
<1>2. CASE listening # "yes"
  <2>1. UNCHANGED <<alarms, said>>
    BY <1>2 DEF Alarm
  <2> QED BY <1>1, <2>1, SameKeeps
<1>3. CASE listening = "yes"
  <2>1. /\ alarms' = Append(alarms, a)
        /\ said' = IF Ours(a) = <<>> THEN said
                   ELSE [motion |-> StatusOf(a),
                         types |-> IF SawAiType(a) THEN Active(a) ELSE said.types,
                         zones |-> ActiveZones(a)]
    BY <1>3 DEF Alarm
  <2>2. /\ alarms' \in Seq(Alarms) /\ Len(alarms) \in Nat
        /\ DOMAIN alarms = 1..Len(alarms) /\ DOMAIN alarms' = 1..(Len(alarms) + 1)
        /\ \A i \in 1..Len(alarms) : alarms'[i] = alarms[i]
        /\ alarms'[Len(alarms) + 1] = a
    BY <2>1, Longer DEF MotionInv, MotionTyped
  <2>3. /\ StatusOf(a) \in Statuses
        /\ ~Reports(a) => said' = said
        /\ Reports(a) => StatusOf(a) \in {"Start", "Stop"} /\ said'.motion = StatusOf(a) /\ said'.zones = ActiveZones(a)
        /\ SawAiType(a) => Reports(a) /\ said'.types = Active(a)
        /\ ~SawAiType(a) => said'.types = said.types
        /\ ActiveZones(a) \subseteq Zones /\ Active(a) \intersect Zones = {}
    BY <2>1, AlarmFacts DEF Reports
  <2>4. DOMAIN said' = {"motion", "types", "zones"}
    BY <2>1 DEF MotionInv, MotionTyped
  <2>5. MotionTyped'
    BY <1>1, <2>2, <2>3, <2>4 DEF MotionInv, MotionTyped
  <2>6. NotListening'
    BY <1>1, <1>3 DEF NotListening
  <2>7. ZonesKept'
    <3>1. CASE Reports(a)
      BY <2>2, <2>3, <3>1 DEF ZonesKept
    <3>2. CASE ~Reports(a)
      <4>1. ASSUME NEW i \in DOMAIN alarms', Reports(alarms'[i]),
                   \A j \in DOMAIN alarms' : i < j => ~Reports(alarms'[j])
            PROVE  said.zones = ActiveZones(alarms'[i]) /\ said.motion = StatusOf(alarms'[i])
        <5>1. i \in DOMAIN alarms /\ alarms'[i] = alarms[i]
          BY <2>2, <3>2, <4>1
        <5>2. \A j \in DOMAIN alarms : i < j => ~Reports(alarms[j])
          BY <2>2, <4>1
        <5> QED BY <4>1, <5>1, <5>2 DEF MotionInv, ZonesKept
      <4>2. (\A i \in DOMAIN alarms' : ~Reports(alarms'[i])) => \A i \in DOMAIN alarms : ~Reports(alarms[i])
        BY <2>2
      <4> QED BY <1>1, <2>3, <3>2, <4>1, <4>2 DEF MotionInv, ZonesKept
    <3> QED BY <3>1, <3>2
  <2>8. TypesKept'
    <3>1. CASE SawAiType(a)
      BY <2>2, <2>3, <3>1 DEF TypesKept
    <3>2. CASE ~SawAiType(a)
      <4>1. ASSUME NEW i \in DOMAIN alarms', SawAiType(alarms'[i]),
                   \A j \in DOMAIN alarms' : i < j => ~SawAiType(alarms'[j])
            PROVE  said.types = Active(alarms'[i])
        <5>1. i \in DOMAIN alarms /\ alarms'[i] = alarms[i]
          BY <2>2, <3>2, <4>1
        <5>2. \A j \in DOMAIN alarms : i < j => ~SawAiType(alarms[j])
          BY <2>2, <4>1
        <5> QED BY <4>1, <5>1, <5>2 DEF MotionInv, TypesKept
      <4>2. (\A i \in DOMAIN alarms' : ~SawAiType(alarms'[i])) => \A i \in DOMAIN alarms : ~SawAiType(alarms[i])
        BY <2>2
      <4> QED BY <1>1, <2>3, <3>2, <4>1, <4>2 DEF MotionInv, TypesKept
    <3> QED BY <3>1, <3>2
  <2>9. StatusKept'
    <3>1. CASE Reports(a)
      BY <2>2, <3>1 DEF StatusKept
    <3>2. CASE ~Reports(a)
      <4>1. (\A i \in DOMAIN alarms' : ~Reports(alarms'[i])) => \A i \in DOMAIN alarms : ~Reports(alarms[i])
        BY <2>2
      <4> QED BY <1>1, <2>3, <3>2, <4>1 DEF MotionInv, StatusKept
    <3> QED BY <3>1, <3>2
  <2>10. Mirrored'
    BY <1>1 DEF MotionInv, Mirrored
  <2> QED BY <2>5, <2>6, <2>7, <2>8, <2>9, <2>10 DEF MotionInv
<1> QED BY <1>2, <1>3

LEMMA TakeAlarmKeeps == ASSUME MotionInv, TakeAlarm PROVE MotionInv'
<1>1. PICK a : a = Head(alarms)
  OBVIOUS
<1>2. PICK state : state = IF Ours(a) = <<>> THEN heard.state ELSE apply_events(heard.state, a)
  OBVIOUS
<1>3. /\ UNCHANGED <<listening, queue, md, ai, news, said, passed, count>>
      /\ alarms # <<>> /\ hand = "none" /\ listening = "yes"
      /\ alarms' = Tail(alarms) /\ hand' = StatusOf(a)
      /\ heard' = [state |-> state, new |-> heard.new \/ state # heard.state]
  BY <1>1, <1>2 DEF TakeAlarm
<1>4. /\ alarms' \in Seq(Alarms) /\ a \in Alarms /\ a = alarms[1] /\ 1 \in DOMAIN alarms
      /\ \A i \in DOMAIN alarms' : i + 1 \in DOMAIN alarms /\ alarms'[i] = alarms[i + 1] /\ i \in Nat \ {0}
      /\ \A i \in DOMAIN alarms : i \in Nat \ {0} /\ (i # 1 => i - 1 \in DOMAIN alarms' /\ alarms'[i - 1] = alarms[i])
  BY <1>1, <1>3, Shorter DEF MotionInv, MotionTyped
<1>5. heard.state \in AiStates /\ heard.new \in BOOLEAN
  BY DEF MotionInv, MotionTyped
<1>6. /\ state \in AiStates
      /\ OnIn(state, Zones) = IF Reports(a) THEN ActiveZones(a) ELSE OnIn(heard.state, Zones)
      /\ OnIn(state, Types \ Zones) = IF SawAiType(a) THEN Active(a) \intersect Types ELSE OnIn(heard.state, Types \ Zones)
  BY <1>2, <1>4, <1>5, FoldFacts, AlarmFacts DEF Reports
<1>7. heard' \in [state : AiStates, new : BOOLEAN] /\ heard'.state = state
  BY <1>3, <1>5, <1>6
<1>8. MotionTyped' /\ NotListening'
  BY <1>3, <1>4, <1>7, AlarmFacts DEF MotionInv, MotionTyped, NotListening
<1>9. ZonesKept'
  <2>1. ASSUME NEW i \in DOMAIN alarms', Reports(alarms'[i]),
               \A j \in DOMAIN alarms' : i < j => ~Reports(alarms'[j])
        PROVE  said.zones = ActiveZones(alarms'[i]) /\ said.motion = StatusOf(alarms'[i])
    <3>1. i + 1 \in DOMAIN alarms /\ alarms'[i] = alarms[i + 1] /\ i \in Nat \ {0}
      BY <1>4
    <3>2. ASSUME NEW j \in DOMAIN alarms, i + 1 < j PROVE ~Reports(alarms[j])
      <4>1. j # 1 /\ i < j - 1 /\ j - 1 \in DOMAIN alarms' /\ alarms'[j - 1] = alarms[j]
        BY <1>4, <3>1, <3>2
      <4> QED BY <2>1, <4>1
    <3> QED BY <2>1, <3>1, <3>2 DEF MotionInv, ZonesKept
  <2>2. ASSUME \A i \in DOMAIN alarms' : ~Reports(alarms'[i]) PROVE OnIn(state, Zones) = said.zones
    <3>1. \A j \in DOMAIN alarms : 1 < j => ~Reports(alarms[j])
      BY <1>4, <2>2
    <3>2. CASE Reports(a)
      BY <1>4, <1>6, <3>1, <3>2 DEF MotionInv, ZonesKept
    <3>3. CASE ~Reports(a)
      <4>1. \A j \in DOMAIN alarms : ~Reports(alarms[j])
        BY <1>4, <2>2, <3>3
      <4> QED BY <1>6, <3>3, <4>1 DEF MotionInv, ZonesKept
    <3> QED BY <3>2, <3>3
  <2> QED BY <1>3, <1>7, <2>1, <2>2 DEF ZonesKept
<1>10. TypesKept'
  <2>1. ASSUME NEW i \in DOMAIN alarms', SawAiType(alarms'[i]),
               \A j \in DOMAIN alarms' : i < j => ~SawAiType(alarms'[j])
        PROVE  said.types = Active(alarms'[i])
    <3>1. i + 1 \in DOMAIN alarms /\ alarms'[i] = alarms[i + 1] /\ i \in Nat \ {0}
      BY <1>4
    <3>2. ASSUME NEW j \in DOMAIN alarms, i + 1 < j PROVE ~SawAiType(alarms[j])
      <4>1. j # 1 /\ i < j - 1 /\ j - 1 \in DOMAIN alarms' /\ alarms'[j - 1] = alarms[j]
        BY <1>4, <3>1, <3>2
      <4> QED BY <2>1, <4>1
    <3> QED BY <2>1, <3>1, <3>2 DEF MotionInv, TypesKept
  <2>2. ASSUME \A i \in DOMAIN alarms' : ~SawAiType(alarms'[i]), said.types # NoAiType
        PROVE  OnIn(state, Types \ Zones) = said.types \intersect Types
    <3>1. \A j \in DOMAIN alarms : 1 < j => ~SawAiType(alarms[j])
      BY <1>4, <2>2
    <3>2. CASE SawAiType(a)
      BY <1>4, <1>6, <3>1, <3>2 DEF MotionInv, TypesKept
    <3>3. CASE ~SawAiType(a)
      <4>1. \A j \in DOMAIN alarms : ~SawAiType(alarms[j])
        BY <1>4, <2>2, <3>3
      <4> QED BY <1>6, <2>2, <3>3, <4>1 DEF MotionInv, TypesKept
    <3> QED BY <3>2, <3>3
  <2> QED BY <1>3, <1>7, <2>1, <2>2 DEF TypesKept
<1>11. StatusKept'
  <2> SUFFICES ASSUME \A i \in DOMAIN alarms' : ~Reports(alarms'[i])
               PROVE  /\ hand' \in {"Start", "Stop"} => hand' = said.motion
                      /\ hand' \in {"none", "NoChange"} =>
                           /\ \A i \in DOMAIN queue :
                                queue[i] # "NoChange" /\ (\A j \in DOMAIN queue : i < j => queue[j] = "NoChange")
                                  => queue[i] = said.motion
                           /\ (\A i \in DOMAIN queue : queue[i] = "NoChange")
                                => said.motion = "unknown" \/ passed \/ md = said.motion
    BY <1>3 DEF StatusKept
  <2>1. \A j \in DOMAIN alarms : 1 < j => ~Reports(alarms[j])
    BY <1>4
  <2>2. CASE Reports(a)
    <3>1. said.motion = StatusOf(a)
      BY <1>4, <2>1, <2>2 DEF MotionInv, ZonesKept
    <3>2. StatusOf(a) \in {"Start", "Stop"}
      BY <2>2, AlarmFacts
    <3> QED BY <1>3, <3>1, <3>2
  <2>3. CASE ~Reports(a)
    <3>1. \A j \in DOMAIN alarms : ~Reports(alarms[j])
      BY <1>4, <2>3
    <3>2. hand' = "NoChange"
      BY <1>3, <2>3, AlarmFacts
    <3> QED BY <1>3, <3>1, <3>2 DEF MotionInv, StatusKept
  <2> QED BY <2>2, <2>3
<1>12. Mirrored'
  BY <1>3, <1>7 DEF MotionInv, Mirrored
<1> QED BY <1>8, <1>9, <1>10, <1>11, <1>12 DEF MotionInv

LEMMA QueueStatusKeeps == ASSUME MotionInv, QueueStatus PROVE MotionInv'
<1>1. PICK h : h = hand
  OBVIOUS
<1>2. /\ h # "none" /\ h \in Statuses /\ queue' = Append(queue, h) /\ hand' = "none"
      /\ UNCHANGED <<listening, alarms, heard, md, ai, news, said, passed, count>>
  BY <1>1 DEF QueueStatus, MotionInv, MotionTyped
<1>3. /\ queue' \in Seq(Statuses) /\ Len(queue) \in Nat
      /\ DOMAIN queue = 1..Len(queue) /\ DOMAIN queue' = 1..(Len(queue) + 1)
      /\ \A i \in 1..Len(queue) : queue'[i] = queue[i]
      /\ queue'[Len(queue) + 1] = h
  BY <1>2, Longer DEF MotionInv, MotionTyped
<1>4. MotionTyped' /\ NotListening' /\ ZonesKept' /\ TypesKept' /\ Mirrored'
  BY <1>1, <1>2, <1>3 DEF MotionInv, MotionTyped, NotListening, ZonesKept, TypesKept, Mirrored
<1>5. StatusKept'
  <2> SUFFICES ASSUME \A i \in DOMAIN alarms : ~Reports(alarms[i])
               PROVE  /\ \A i \in DOMAIN queue' :
                           queue'[i] # "NoChange" /\ (\A j \in DOMAIN queue' : i < j => queue'[j] = "NoChange")
                             => queue'[i] = said.motion
                      /\ (\A i \in DOMAIN queue' : queue'[i] = "NoChange")
                             => said.motion = "unknown" \/ passed \/ md = said.motion
    BY <1>2 DEF StatusKept
  <2>1. CASE h \in {"Start", "Stop"}
    <3>1. h = said.motion
      BY <1>1, <2>1 DEF MotionInv, StatusKept
    <3>2. ASSUME NEW i \in DOMAIN queue', \A j \in DOMAIN queue' : i < j => queue'[j] = "NoChange"
          PROVE  i = Len(queue) + 1
      BY <1>3, <2>1, <3>2
    <3> QED BY <1>3, <2>1, <3>1, <3>2
  <2>2. CASE h = "NoChange"
    <3>1. /\ \A i \in DOMAIN queue :
                  queue[i] # "NoChange" /\ (\A j \in DOMAIN queue : i < j => queue[j] = "NoChange")
                    => queue[i] = said.motion
          /\ (\A i \in DOMAIN queue : queue[i] = "NoChange")
                  => said.motion = "unknown" \/ passed \/ md = said.motion
      BY <1>1, <2>2 DEF MotionInv, StatusKept
    <3>2. ASSUME NEW i \in DOMAIN queue', queue'[i] # "NoChange",
                 \A j \in DOMAIN queue' : i < j => queue'[j] = "NoChange"
          PROVE  queue'[i] = said.motion
      <4>1. i \in DOMAIN queue /\ queue'[i] = queue[i]
        BY <1>3, <2>2, <3>2
      <4>2. \A j \in DOMAIN queue : i < j => queue[j] = "NoChange"
        BY <1>3, <3>2
      <4> QED BY <3>1, <3>2, <4>1, <4>2
    <3>3. (\A i \in DOMAIN queue' : queue'[i] = "NoChange") => \A i \in DOMAIN queue : queue[i] = "NoChange"
      BY <1>3
    <3> QED BY <3>1, <3>2, <3>3
  <2> QED BY <1>2, <2>1, <2>2 DEF Statuses
<1> QED BY <1>4, <1>5 DEF MotionInv

LEMMA NextMotionKeeps == ASSUME MotionInv, NextMotion PROVE MotionInv'
<1>1. PICK n : n = Len(queue)
  OBVIOUS
<1>2. /\ n \in Nat \ {0} /\ DOMAIN queue = 1..n /\ queue[n] \in Statuses /\ n \in DOMAIN queue
      /\ Last(queue) = queue[n] /\ queue' = <<>> /\ queue' \in Seq(Statuses)
      /\ UNCHANGED <<listening, alarms, hand, heard, ai, said, count>>
  BY <1>1, Shorter, EmptySeq DEF NextMotion, MotionInv, MotionTyped, Last
<1>3. IF queue[n] = "NoChange"
        THEN /\ md' = md
             /\ passed' = (passed \/ \E i \in DOMAIN queue : queue[i] # "NoChange")
        ELSE md' = queue[n] /\ passed' = FALSE
  BY <1>2 DEF NextMotion
<1>4. MotionTyped' /\ NotListening' /\ ZonesKept' /\ TypesKept' /\ Mirrored'
  <2>1. md' \in {"unknown", "Start", "Stop"}
    BY <1>2, <1>3 DEF MotionInv, MotionTyped, Statuses
  <2> QED BY <1>2, <2>1 DEF MotionInv, MotionTyped, NotListening, ZonesKept, TypesKept, Mirrored
<1>5. StatusKept'
  <2> SUFFICES ASSUME \A i \in DOMAIN alarms : ~Reports(alarms[i])
               PROVE  /\ hand \in {"Start", "Stop"} => hand = said.motion
                      /\ hand \in {"none", "NoChange"} => said.motion = "unknown" \/ passed' \/ md' = said.motion
    BY <1>2 DEF StatusKept
  <2>1. hand \in {"Start", "Stop"} => hand = said.motion
    BY DEF MotionInv, StatusKept
  <2>2. ASSUME hand \in {"none", "NoChange"} PROVE said.motion = "unknown" \/ passed' \/ md' = said.motion
    <3>1. /\ \A i \in DOMAIN queue :
                  queue[i] # "NoChange" /\ (\A j \in DOMAIN queue : i < j => queue[j] = "NoChange")
                    => queue[i] = said.motion
          /\ (\A i \in DOMAIN queue : queue[i] = "NoChange")
                  => said.motion = "unknown" \/ passed \/ md = said.motion
      BY <2>2 DEF MotionInv, StatusKept
    <3>2. CASE queue[n] = "NoChange"
      BY <1>3, <3>1, <3>2
    <3>3. CASE queue[n] # "NoChange"
      <4>1. \A j \in DOMAIN queue : ~(n < j)
        BY <1>2
      <4> QED BY <1>2, <1>3, <3>1, <3>3, <4>1
    <3> QED BY <3>2, <3>3
  <2> QED BY <2>1, <2>2
<1> QED BY <1>4, <1>5 DEF MotionInv

LEMMA MotionNext == ASSUME MotionInv, MNext PROVE MotionInv'
<1>1. CASE Listen
  <2>1. heard = [state |-> Unseen, new |-> FALSE]
    BY <1>1 DEF MotionInv, NotListening, Listen
  <2>2. count.losses = 0 => ai = Unseen
    BY <2>1 DEF MotionInv, Mirrored
  <2>3. alarms' = <<>> /\ count' \in [alarms : Nat, losses : Nat]
    BY <1>1 DEF MotionInv, NotListening, Listen, MotionTyped
  <2> QED BY <1>1, <2>2, <2>3, Fresh DEF Listen
<1>2. CASE Subscribe
  BY <1>2 DEF Subscribe, MotionInv, MotionTyped, NotListening, ZonesKept, TypesKept, StatusKept, Mirrored
<1>3. CASE \E a \in Alarms : Alarm(a)
  BY <1>3, AlarmKeeps
<1>4. CASE AiChanged
  <2>1. heard' = [heard EXCEPT !.new = FALSE] /\ heard.new /\ ai' = heard.state
    BY <1>4 DEF AiChanged
  <2>2. heard' \in [state : AiStates, new : BOOLEAN] /\ heard'.state = heard.state /\ ai' \in AiStates
    BY <2>1 DEF MotionInv, MotionTyped
  <2>3. UNCHANGED <<listening, alarms, hand, queue, md, said, passed, count>>
    BY <1>4 DEF AiChanged
  <2>4. MotionTyped'
    BY <2>2, <2>3 DEF MotionInv, MotionTyped
  <2>5. listening = "yes"
    BY <2>1 DEF MotionInv, NotListening
  <2>6. ZonesKept'
    BY <2>2, <2>3 DEF MotionInv, ZonesKept
  <2>7. TypesKept'
    BY <2>2, <2>3 DEF MotionInv, TypesKept
  <2>8. StatusKept'
    BY <2>3 DEF MotionInv, StatusKept
  <2> QED BY <2>1, <2>2, <2>3, <2>4, <2>5, <2>6, <2>7, <2>8 DEF MotionInv, NotListening, Mirrored
<1>5. CASE ConnectionLost
  <2>1. count' \in [alarms : Nat, losses : Nat] /\ count'.losses # 0
    BY <1>5 DEF ConnectionLost, MotionInv, MotionTyped
  <2> QED BY <1>5, <2>1, Fresh DEF ConnectionLost
<1> QED BY <1>1, <1>2, <1>3, <1>4, <1>5, TakeAlarmKeeps, QueueStatusKeeps, NextMotionKeeps DEF MNext

-----------------------------------------------------------------------------
(* ONVIF's listeners                                                       *)

\* Only the listeners change what ONVIF says of the camera.
LEMMA OthersLeave ==
    ASSUME Listeners \/ \E s \in Subs : Requests(s)
    PROVE  UNCHANGED last
<1>1. ASSUME Listeners PROVE UNCHANGED last
  BY <1>1 DEF Listeners, ReadSubs, Send
<1>2. ASSUME NEW s \in Subs, Requests(s) PROVE UNCHANGED last
  BY <1>2 DEF Requests, Create, SeedMotion, SeedAi, Insert, Refuse, PullMessages, PullLook, PullWait,
       PullTimeout, Renew, Unsubscribe, SyncMotion, SyncAi, Expire
<1> QED BY <1>1, <1>2

LEMMA FollowedNext == ASSUME MotionInv, Followed, [Next]_vars PROVE Followed'
<1>1. CASE UNCHANGED vars \/ (Listeners /\ UNCHANGED mvars) \/ ((\E s \in Subs : Requests(s)) /\ UNCHANGED mvars)
  BY <1>1, OthersLeave DEF Followed, vars, mvars, evars
<1>2. CASE MNext /\ UNCHANGED evars
  <2>1. CASE NextMotion
    <3>1. /\ UNCHANGED <<last, ai>> /\ ("ai" \in news' <=> "ai" \in news)
          /\ (UNCHANGED <<md, news>>) \/ (md' = Last(queue) /\ md' # "NoChange" /\ "md" \in news')
      BY <1>2, <2>1 DEF NextMotion, evars
    <3>2. Last(queue) \in Statuses
      BY <2>1, Shorter DEF NextMotion, MotionInv, MotionTyped, Last
    <3> QED BY <3>1, <3>2 DEF Followed, Statuses
  <2>2. CASE AiChanged
    BY <1>2, <2>2 DEF AiChanged, Followed, evars
  <2>3. CASE Listen \/ Subscribe \/ (\E a \in Alarms : Alarm(a)) \/ TakeAlarm \/ QueueStatus \/ ConnectionLost
    BY <1>2, <2>3 DEF Listen, Subscribe, Alarm, TakeAlarm, QueueStatus, ConnectionLost, Followed, evars
  <2> QED BY <1>2, <2>1, <2>2, <2>3 DEF MNext
<1>3. CASE SeeMotion
  <2>1. PICK state : state = CASE md = "Start" -> "on" [] md = "Stop" -> "off" [] OTHER -> "none"
    OBVIOUS
  <2>2. UNCHANGED <<md, ai>> /\ news' = news \ {"md"}
    BY <1>3 DEF SeeMotion
  <2>3. CASE state \in {"none", last["motion"]}
    <3>1. UNCHANGED last
      BY <1>3, <2>1, <2>3 DEF SeeMotion
    <3>2. md \in {"unknown", "Start", "Stop"} /\ (md = "unknown" => last["motion"] = "none")
      BY DEF MotionInv, MotionTyped, Followed
    <3>3. last["motion"] = CASE md = "Start" -> "on" [] md = "Stop" -> "off" [] OTHER -> "none"
      BY <2>1, <2>3, <3>2
    <3> QED BY <2>2, <3>1, <3>2, <3>3 DEF Followed
  <2>4. CASE state \notin {"none", last["motion"]}
    <3>1. last' = [k \in Keys |-> IF k \in {"motion"} THEN [x \in {"motion"} |-> state][k] ELSE last[k]]
      BY <1>3, <2>1, <2>4 DEF SeeMotion, Publish
    <3>2. last'["motion"] = state /\ \A t \in Types : last'[t] = last[t]
      BY <3>1, EventsAssumption DEF Keys
    <3> QED BY <2>1, <2>2, <3>1, <3>2 DEF Followed
  <2> QED BY <2>3, <2>4
<1>4. CASE SeeAi
  <2>1. PICK diff : diff = {t \in Types : CurrentAi(t) \notin {"none", last[t]}}
    OBVIOUS
  <2>2. UNCHANGED <<md, ai>> /\ news' = news \ {"ai"}
    BY <1>4 DEF SeeAi
  <2>3. last' = [k \in Keys |-> IF k \in diff THEN [t \in diff |-> CurrentAi(t)][k] ELSE last[k]]
    BY <1>4, <2>1 DEF SeeAi, Publish
  <2>4. last'["motion"] = last["motion"]
    BY <2>1, <2>3, EventsAssumption DEF Keys
  <2>5. ASSUME NEW t \in Types PROVE ai[t] = "on" <=> last'[t] = "on"
    <3>1. last'[t] = IF t \in diff THEN CurrentAi(t) ELSE last[t]
      BY <2>3 DEF Keys
    <3>2. ai[t] \in {"unseen", "on", "off"}
      BY DEF MotionInv, MotionTyped, AiStates
    <3>3. CASE t \in diff
      BY <2>1, <3>1, <3>2, <3>3 DEF CurrentAi
    <3>4. CASE t \notin diff
      BY <2>1, <3>1, <3>2, <3>4 DEF CurrentAi
    <3> QED BY <3>3, <3>4
  <2> QED BY <2>2, <2>3, <2>4, <2>5 DEF Followed
<1> QED BY <1>1, <1>2, <1>3, <1>4 DEF Next

LEMMA InitHolds == Init => MotionInv /\ Followed
<1>1. Init => MotionInv
  BY MotionInit DEF Init
<1>2. Init => Followed
  BY DEF Init, MInit, EInit, Followed, Keys, Nothing, Unseen
<1> QED BY <1>1, <1>2

LEMMA Invariance == Spec => [](MotionInv /\ Followed)
<1>1. ASSUME MotionInv, [Next]_vars PROVE MotionInv'
  <2>1. count \in [alarms : Nat, losses : Nat]
    BY <1>1 DEF MotionInv, MotionTyped
  <2>2. CASE UNCHANGED mvars
    BY <1>1, <2>1, <2>2, SameKeeps DEF mvars
  <2>3. CASE SeeMotion
    BY <1>1, <2>1, <2>3, SameKeeps DEF SeeMotion
  <2>4. CASE SeeAi
    BY <1>1, <2>1, <2>4, SameKeeps DEF SeeAi
  <2> QED BY <1>1, <2>2, <2>3, <2>4, MotionNext DEF Next, vars
<1>2. MotionInv /\ Followed /\ [Next]_vars => (MotionInv /\ Followed)'
  BY <1>1, FollowedNext
<1> QED BY <1>2, InitHolds, PTL DEF Spec

\* The watches say what the camera said last (mdthread.rs, motion.rs, smart_ai.rs): see Mirrors.
THEOREM IsMirrored == Spec => []Mirrors
<1>1. MotionInv => Mirrors
  <2> SUFFICES ASSUME MotionInv, Quiet
               PROVE  /\ said.motion = "unknown" \/ passed \/ md = said.motion
                      /\ said.types # NoAiType /\ (heard.state # Unseen \/ count.losses = 0) =>
                           {t \in Types : ai[t] = "on"} = (said.types \intersect Types) \union said.zones
    BY DEF Mirrors
  <2>1. DOMAIN alarms = {} /\ DOMAIN queue = {} /\ hand = "none" /\ ~heard.new
    BY DEF Quiet
  <2>2. said.motion = "unknown" \/ passed \/ md = said.motion
    BY <2>1 DEF MotionInv, StatusKept
  <2>3. ASSUME said.types # NoAiType, heard.state # Unseen \/ count.losses = 0
        PROVE  {t \in Types : ai[t] = "on"} = (said.types \intersect Types) \union said.zones
    <3>1. ai = heard.state
      BY <2>1, <2>3 DEF MotionInv, Mirrored
    <3>2. OnIn(ai, Zones) = said.zones
      BY <2>1, <3>1 DEF MotionInv, ZonesKept
    <3>3. OnIn(ai, Types \ Zones) = said.types \intersect Types
      BY <2>1, <2>3, <3>1 DEF MotionInv, TypesKept
    <3> QED BY <3>2, <3>3, MotionAssumption DEF OnIn
  <2> QED BY <2>2, <2>3
<1> QED BY <1>1, Invariance, PTL

\* ONVIF says of the camera what the camera says, when all is quiet
\* (events.rs: run_motion_listener, run_ai_listener): see OnvifFollows.
THEOREM IsFollowed == Spec => []OnvifFollows
<1>1. MotionInv /\ Followed /\ Mirrors => OnvifFollows
  <2> SUFFICES ASSUME MotionInv, Followed, Mirrors, Quiet, news = {}
               PROVE  /\ said.motion = "unknown" \/ passed \/ (said.motion = "Start" <=> last["motion"] = "on")
                      /\ said.types # NoAiType /\ (heard.state # Unseen \/ count.losses = 0) =>
                           {t \in Types : last[t] = "on"} = (said.types \intersect Types) \union said.zones
    BY DEF OnvifFollows
  <2>1. {t \in Types : last[t] = "on"} = {t \in Types : ai[t] = "on"}
    BY DEF Followed
  <2>2. md = "Start" <=> last["motion"] = "on"
    BY DEF Followed
  <2> QED BY <2>1, <2>2 DEF Mirrors
<1> QED BY <1>1, Invariance, IsMirrored, PTL
-----------------------------------------------------------------------------
(* What the clients are told *)

Values == {"none", "on", "off"}
Listening == {"motion", "ai"}
Teller(k) == IF k = "motion" THEN "motion" ELSE "ai"

EventsTyped ==
    /\ last \in [Keys -> Values] /\ DOMAIN stage = Subs /\ pending \in [Subs -> Seq(Notifications)]
    /\ DOMAIN known = Subs /\ since \in [Subs -> SUBSET Keys]
    /\ sender \in [Listening -> [todo : Seq(Notifications), to : (SUBSET Subs) \union {{"subs"}}, subs : SUBSET Subs]]

\* Only what is published has been told anything since.
Untold == \A s \in Subs : since[s] # {} => s \in Published

\* What a listener has still to send is so.
TrueToSend ==
    \A l \in Listening :
        /\ sender[l].to # {} => sender[l].todo # <<>>
        /\ \A i \in DOMAIN sender[l].todo :
             LET n == sender[l].todo[i] IN Teller(n.key) = l /\ n.val = last[n.key]

\* A listener has still to tell s of k.
Due(s, k) ==
    LET t == sender[Teller(k)] IN
    \E i \in DOMAIN t.todo :
        t.todo[i].key = k /\ (t.to = {"subs"} \/ IF i = 1 THEN s \in t.to ELSE s \in t.subs)

Tells == \A s \in Subs : \A k \in since[s] \ NoTopic : last[k] # "none" => Told(s, k) = last[k] \/ Due(s, k)

EventsInv == EventsTyped /\ Untold /\ TrueToSend /\ Tells

LEMMA MaxExists ==
    ASSUME NEW n \in Nat, NEW S \in SUBSET (1..n), S # {}
    PROVE  Max(S) \in S /\ \A i \in S : i <= Max(S)
<1> DEFINE T == {n - i : i \in S}
<1>1. PICK x \in T : \A y \in T : ~ (<<y, x>> \in OpToRel(<, Nat))
  <2>1. \A i \in S : n - i \in Nat /\ n - i \in T
    OBVIOUS
  <2>2. T \subseteq Nat /\ T # {}
    BY <2>1
  <2> HIDE DEF T
  <2>3. ASSUME NEW R, IsWellFoundedOn(R, Nat) PROVE \E x \in T : \A y \in T : ~ (<<y, x>> \in R)
    BY <2>2, <2>3, WFMin
  <2> QED BY <2>3, NatLessThanWellFounded
<1>2. PICK m \in S : x = n - m
  OBVIOUS
<1>3. ASSUME NEW i \in S PROVE i <= m
  <2>1. n - i \in T /\ n - i \in Nat /\ n - m \in Nat
    OBVIOUS
  <2>2. ~ (n - i < n - m)
    BY <1>1, <1>2, <2>1 DEF OpToRel
  <2> QED BY <2>2
<1> HIDE DEF T
<1> QED BY <1>2, <1>3 DEF Max

LEMMA SaidFacts ==
    ASSUME NEW q \in Seq(Notifications), NEW k, NEW v
    PROVE  /\ Of(q, k) = {} => Said(q, k, v) = v
           /\ \A i \in Of(q, k) : (\A j \in Of(q, k) : j <= i) => Said(q, k, v) = q[i].val
           /\ Of(q, k) # {} => \E i \in Of(q, k) : \A j \in Of(q, k) : j <= i
<1>1. Of(q, k) \in SUBSET (1..Len(q)) /\ Len(q) \in Nat
  BY DEF Of
<1>2. Of(q, k) # {} => Max(Of(q, k)) \in Of(q, k) /\ \A j \in Of(q, k) : j <= Max(Of(q, k))
  BY <1>1, MaxExists
<1>3. ASSUME NEW i \in Of(q, k), \A j \in Of(q, k) : j <= i PROVE i = Max(Of(q, k))
  BY <1>1, <1>2, <1>3
<1> QED BY <1>2, <1>3 DEF Said

LEMMA SaidOfConcat ==
    ASSUME NEW q \in Seq(Notifications), NEW r \in Seq(Notifications), NEW k, NEW v
    PROVE  /\ Said(q \o r, k, v) = Said(r, k, Said(q, k, v))
           /\ Of(q \o r, k) = {} <=> Of(q, k) = {} /\ Of(r, k) = {}
<1>1. PICK all : all = q \o r
  OBVIOUS
<1>2. PICK n : n = Len(q)
  OBVIOUS
<1>3. /\ all \in Seq(Notifications) /\ n \in Nat /\ Len(r) \in Nat
      /\ DOMAIN q = 1..n /\ DOMAIN r = 1..Len(r) /\ DOMAIN all = 1..(n + Len(r))
      /\ \A i \in 1..(n + Len(r)) : all[i] = IF i <= n THEN q[i] ELSE r[i - n]
  BY <1>1, <1>2, ConcatProperties
<1>4. /\ \A i \in Of(q, k) : i \in Of(all, k) /\ i <= n
      /\ \A i \in Of(r, k) : n + i \in Of(all, k) /\ i >= 1
      /\ \A i \in Of(all, k) : i \in Of(q, k) \/ (i > n /\ i - n \in Of(r, k))
  BY <1>3 DEF Of
<1>5. CASE Of(r, k) # {}
  <2>1. PICK i \in Of(r, k) : \A j \in Of(r, k) : j <= i
    BY <1>5, SaidFacts
  <2>2. Said(r, k, Said(q, k, v)) = r[i].val
    BY <2>1, SaidFacts
  <2>3. i \in 1..Len(r) /\ Of(q, k) \subseteq 1..n /\ Of(r, k) \subseteq 1..Len(r) /\ Of(all, k) \subseteq 1..(n + Len(r))
    BY <1>3 DEF Of
  <2>4. ASSUME NEW j \in Of(all, k) PROVE j <= n + i
    BY <1>3, <1>4, <2>1, <2>3, <2>4
  <2>5. n + i \in Of(all, k) /\ all[n + i] = r[i]
    BY <1>3, <1>4, <2>3
  <2>6. Said(all, k, v) = all[n + i].val
    BY <1>3, <2>4, <2>5, SaidFacts
  <2> QED BY <1>1, <1>5, <2>2, <2>5, <2>6
<1>6. CASE Of(r, k) = {} /\ Of(q, k) # {}
  <2>1. PICK i \in Of(q, k) : \A j \in Of(q, k) : j <= i
    BY <1>6, SaidFacts
  <2>2. Said(q, k, v) = q[i].val /\ Said(r, k, Said(q, k, v)) = Said(q, k, v)
    BY <1>6, <2>1, SaidFacts
  <2>3. \A j \in Of(all, k) : j <= i
    BY <1>4, <1>6, <2>1
  <2>4. i \in Of(all, k) /\ all[i] = q[i]
    BY <1>3, <1>4 DEF Of
  <2>5. Said(all, k, v) = all[i].val
    BY <1>3, <2>3, <2>4, SaidFacts
  <2> QED BY <1>1, <1>6, <2>2, <2>4, <2>5
<1>7. CASE Of(r, k) = {} /\ Of(q, k) = {}
  <2>1. Of(all, k) = {}
    BY <1>4, <1>7
  <2>2. Said(all, k, v) = v
    BY <1>3, <2>1, SaidFacts
  <2>3. Said(q, k, v) = v /\ Said(r, k, v) = v
    BY <1>7, SaidFacts
  <2> QED BY <1>1, <1>7, <2>1, <2>2, <2>3
<1> QED BY <1>5, <1>6, <1>7

LEMMA Cut ==
    ASSUME NEW q \in Seq(Notifications), NEW n \in 0..Len(q)
    PROVE  /\ SubSeq(q, 1, n) \in Seq(Notifications) /\ SubSeq(q, n + 1, Len(q)) \in Seq(Notifications)
           /\ SubSeq(q, 1, n) \o SubSeq(q, n + 1, Len(q)) = q
<1>1. Len(q) \in Nat /\ \A i \in 1..Len(q) : q[i] \in Notifications
  OBVIOUS
<1>2. SubSeq(q, 1, n) \in Seq(Notifications) /\ SubSeq(q, n + 1, Len(q)) \in Seq(Notifications)
  BY <1>1, SubSeqProperties
<1>3. SubSeq(q, 1, n) \o SubSeq(q, n + 1, Len(q)) = SubSeq(q, 1, Len(q))
  <2>1. 1 \in 1 .. Len(q) + 1 /\ n \in 1 - 1 .. Len(q) /\ Len(q) \in n .. Len(q)
    BY <1>1
  <2> QED BY <2>1, ConcatAdjacentSubSeq
<1> QED BY <1>2, <1>3, SubSeqFull

\* A queue says of a key what all that was put into it says, unless it has forgotten the key.
LEMMA EnqueueSays ==
    ASSUME NEW q \in Seq(Notifications), NEW ns \in Seq(Notifications)
    PROVE  /\ Enqueue(q, ns) \in Seq(Notifications)
           /\ \A k \in Keys \ Forgets(q, ns) : \A v :
                Said(Enqueue(q, ns), k, v) = Said(ns, k, Said(q, k, v))
<1>1. PICK all : all = q \o ns
  OBVIOUS
<1>2. PICK e : e = Excess(all)
  OBVIOUS
<1>3. all \in Seq(Notifications) /\ e \in 0..Len(all)
  BY <1>1, <1>2, ConcatProperties, EventsAssumption DEF Excess
<1>4. PICK p, r : p = SubSeq(all, 1, e) /\ r = SubSeq(all, e + 1, Len(all))
  OBVIOUS
<1>5. p \in Seq(Notifications) /\ r \in Seq(Notifications) /\ p \o r = all
  BY <1>3, <1>4, Cut
<1>6. Enqueue(q, ns) = r
  BY <1>1, <1>2, <1>4 DEF Enqueue
<1>7. ASSUME NEW k \in Keys \ Forgets(q, ns), NEW v PROVE Said(r, k, v) = Said(ns, k, Said(q, k, v))
  <2>1. Said(all, k, v) = Said(ns, k, Said(q, k, v)) /\ Said(all, k, v) = Said(r, k, Said(p, k, v))
    <3>1. Said(q \o ns, k, v) = Said(ns, k, Said(q, k, v))
      BY SaidOfConcat
    <3>2. p \in Seq(Notifications) /\ r \in Seq(Notifications)
      BY <1>5
    <3>3. Said(p \o r, k, v) = Said(r, k, Said(p, k, v))
      BY <3>2, SaidOfConcat
    <3> QED BY <1>1, <1>5, <3>1, <3>3
  <2>2. CASE Of(all, k) = {}
    <3>1. Of(p \o r, k) = {} <=> Of(p, k) = {} /\ Of(r, k) = {}
      BY <1>5, SaidOfConcat
    <3>2. Of(r, k) = {}
      BY <1>5, <2>2, <3>1
    <3>3. Said(r, k, v) = v /\ Said(all, k, v) = v
      BY <1>3, <1>5, <2>2, <3>2, SaidFacts
    <3> QED BY <2>1, <3>3
  <2>3. CASE Of(r, k) # {}
    BY <2>1, <2>3 DEF Said
  <2> QED BY <1>1, <1>6, <2>2, <2>3 DEF Forgets
<1> QED BY <1>5, <1>6, <1>7

-----------------------------------------------------------------------------
(* What the steps do to what the clients are told                          *)

\* Without news, a subscription has to know what it knew, or what is so.
LEMMA NoNews ==
    ASSUME EventsInv, UNCHANGED <<last, sender>>, DOMAIN stage' = Subs, DOMAIN known' = Subs,
           pending' \in [Subs -> Seq(Notifications)], since' \in [Subs -> SUBSET Keys],
           \A s \in Subs : since'[s] # {} => s \in Published',
           \A s \in Subs : \A k \in since'[s] \ NoTopic :
               \/ k \in since[s] /\ Said(pending'[s], k, known'[s][k]) = Told(s, k)
               \/ last[k] # "none" => Said(pending'[s], k, known'[s][k]) = last[k]
    PROVE  EventsInv'
<1>1. EventsTyped'
  BY DEF EventsInv, EventsTyped
<1>2. Untold'
  BY DEF Untold
<1>3. TrueToSend'
  BY DEF EventsInv, TrueToSend
<1>4. Tells'
  <2> SUFFICES ASSUME NEW s \in Subs, NEW k \in since'[s] \ NoTopic, last'[k] # "none"
               PROVE  Told(s, k)' = last'[k] \/ Due(s, k)'
    BY DEF Tells
  <2>1. Told(s, k)' = Said(pending'[s], k, known'[s][k])
    BY DEF Told, Said, Of
  <2>2. Due(s, k)' <=> Due(s, k)
    BY DEF Due, Teller
  <2>3. k \in since[s] => Told(s, k) = last[k] \/ Due(s, k)
    BY DEF EventsInv, Tells
  <2> QED BY <2>1, <2>2, <2>3
<1> QED BY <1>1, <1>2, <1>3, <1>4 DEF EventsInv

\* Those that leave have been told nothing.
LEMMA LeaveKeeps ==
    ASSUME EventsInv, NEW rs, Leave(rs), UNCHANGED <<last, sender>>, DOMAIN stage' = Subs,
           \A s \in Subs \ rs : s \in Published => s \in Published'
    PROVE  EventsInv'
<1>1. <<>> \in Seq(Notifications)
  BY EmptySeq
<1>2. pending' \in [Subs -> Seq(Notifications)] /\ since' \in [Subs -> SUBSET Keys] /\ DOMAIN known' = Subs
  BY <1>1 DEF Leave, EventsInv, EventsTyped
<1>3. \A s \in Subs : s \in rs => since'[s] = {}
  BY DEF Leave
<1>4. \A s \in Subs : s \notin rs => since'[s] = since[s] /\ pending'[s] = pending[s] /\ known'[s] = known[s]
  BY DEF Leave
<1>5. \A s \in Subs : since'[s] # {} => s \in Published'
  BY <1>3, <1>4 DEF EventsInv, Untold
<1>6. \A s \in Subs : \A k \in since'[s] : k \in since[s] /\ Said(pending'[s], k, known'[s][k]) = Told(s, k)
  BY <1>3, <1>4 DEF Told
<1> QED BY <1>2, <1>5, <1>6, NoNews

\* What is sent again is what is so.
LEMMA ResendKeeps ==
    ASSUME EventsInv, NEW s \in Subs, NEW keys \in SUBSET Keys, Cardinality(keys) \in Nat, Resend(s, keys),
           UNCHANGED <<last, known, sender>>, DOMAIN stage' = Subs, Published' = Published
    PROVE  EventsInv'
<1>1. PICK ns \in SeqOf(Notifications, Cardinality(keys)) :
        /\ StateOf(keys, ns)
        /\ pending' = [pending EXCEPT ![s] = Enqueue(@, ns)]
        /\ since' = [since EXCEPT ![s] =
             (@ \union IF stage[s] = "resync" \/ stage[s] = "live" THEN keys ELSE {})
               \ Forgets(pending[s], ns)]
  BY DEF Resend
<1>2. ns \in Seq(Notifications)
  BY <1>1 DEF SeqOf
<1>3. PICK q : q = pending[s]
  OBVIOUS
<1>4. q \in Seq(Notifications) /\ Enqueue(q, ns) \in Seq(Notifications)
  BY <1>2, <1>3, EnqueueSays DEF EventsInv, EventsTyped
<1>5. /\ pending'[s] = Enqueue(q, ns) /\ \A o \in Subs \ {s} : pending'[o] = pending[o]
      /\ since'[s] \subseteq (since[s] \union keys) \ Forgets(q, ns)
      /\ s \notin Published => since'[s] \subseteq since[s]
      /\ \A o \in Subs \ {s} : since'[o] = since[o]
      /\ pending' \in [Subs -> Seq(Notifications)] /\ since' \in [Subs -> SUBSET Keys]
  BY <1>1, <1>3, <1>4 DEF EventsInv, EventsTyped, Published
<1>6. \A o \in Subs : since'[o] # {} => o \in Published'
  BY <1>5 DEF EventsInv, Untold
<1>7. ASSUME NEW k \in since'[s] \ NoTopic
      PROVE  \/ k \in since[s] /\ Said(pending'[s], k, known'[s][k]) = Told(s, k)
             \/ last[k] # "none" => Said(pending'[s], k, known'[s][k]) = last[k]
  <2>1. k \in Keys /\ Said(pending'[s], k, known[s][k]) = Said(ns, k, Told(s, k))
    BY <1>2, <1>3, <1>4, <1>5, <1>7, EnqueueSays DEF Told
  <2>2. CASE Of(ns, k) = {}
    <3>1. k \in keys => last[k] = "none"
      BY <1>1, <1>7, <2>2 DEF StateOf, Of
    <3>2. Said(ns, k, Told(s, k)) = Told(s, k)
      BY <1>2, <2>2, SaidFacts
    <3> QED BY <1>5, <1>7, <2>1, <3>1, <3>2
  <2>3. CASE Of(ns, k) # {}
    <3>1. PICK i \in Of(ns, k) : \A j \in Of(ns, k) : j <= i
      BY <1>2, <2>3, SaidFacts
    <3>2. Said(ns, k, Told(s, k)) = ns[i].val
      BY <1>2, <3>1, SaidFacts
    <3>3. ns[i].val = last[k]
      BY <1>1, <3>1 DEF StateOf, Of
    <3> QED BY <2>1, <3>2, <3>3
  <2> QED BY <2>2, <2>3
<1>8. \A o \in Subs \ {s} : \A k \in since'[o] : k \in since[o] /\ Said(pending'[o], k, known'[o][k]) = Told(o, k)
  BY <1>5 DEF Told
<1>9. \A o \in Subs : \A k \in since'[o] \ NoTopic :
          \/ k \in since[o] /\ Said(pending'[o], k, known'[o][k]) = Told(o, k)
          \/ last[k] # "none" => Said(pending'[o], k, known'[o][k]) = last[k]
  BY <1>7, <1>8
<1>10. DOMAIN known' = Subs
  BY DEF EventsInv, EventsTyped
<1> QED BY <1>5, <1>6, <1>9, <1>10, NoNews

\* What is pulled goes from what is queued to what is known.
LEMMA PullLookKeeps == ASSUME EventsInv, NEW s \in Subs, PullLook(s) PROVE EventsInv'
<1>1. UNCHANGED <<last, sender, stage, since>>
  BY DEF PullLook
<1>2. DOMAIN stage' = Subs /\ since' \in [Subs -> SUBSET Keys] /\ \A o \in Subs : since'[o] # {} => o \in Published'
  BY <1>1 DEF EventsInv, EventsTyped, Untold, Published
<1>3. CASE pending[s] = <<>>
  <2>1. UNCHANGED <<pending, known>>
    BY <1>3 DEF PullLook
  <2>2. pending' \in [Subs -> Seq(Notifications)] /\ DOMAIN known' = Subs
    BY <2>1 DEF EventsInv, EventsTyped
  <2>3. \A o \in Subs : \A k : Said(pending'[o], k, known'[o][k]) = Told(o, k)
    BY <2>1 DEF Told
  <2> QED BY <1>1, <1>2, <2>2, <2>3, NoNews
<1>4. CASE pending[s] # <<>>
  <2>1. PICK q : q = pending[s]
    OBVIOUS
  <2>2. PICK limit \in 1 .. Len(q) :
          /\ pending' = [pending EXCEPT ![s] = SubSeq(@, limit + 1, Len(@))]
          /\ known' = [known EXCEPT ![s] = [k \in Keys |-> Said(SubSeq(pending[s], 1, limit), k, @[k])]]
    BY <1>4, <2>1 DEF PullLook
  <2>3. PICK p, r : p = SubSeq(q, 1, limit) /\ r = SubSeq(q, limit + 1, Len(q))
    OBVIOUS
  <2>4. q \in Seq(Notifications) /\ limit \in 0..Len(q)
    BY <2>1 DEF EventsInv, EventsTyped
  <2>5. p \in Seq(Notifications) /\ r \in Seq(Notifications) /\ p \o r = q
    BY <2>3, <2>4, Cut
  <2>6. /\ pending'[s] = r /\ known'[s] = [k \in Keys |-> Said(p, k, known[s][k])]
        /\ \A o \in Subs \ {s} : pending'[o] = pending[o] /\ known'[o] = known[o]
        /\ pending' \in [Subs -> Seq(Notifications)] /\ DOMAIN known' = Subs
    BY <2>1, <2>2, <2>3, <2>5 DEF EventsInv, EventsTyped
  <2>7. ASSUME NEW k \in Keys PROVE Said(pending'[s], k, known'[s][k]) = Told(s, k)
    <3>1. p \in Seq(Notifications) /\ r \in Seq(Notifications)
      BY <2>5
    <3>2. \A v : Said(p \o r, k, v) = Said(r, k, Said(p, k, v))
      BY <3>1, SaidOfConcat
    <3> QED BY <2>1, <2>5, <2>6, <3>2 DEF Told
  <2>8. \A o \in Subs : \A k \in since'[o] : k \in since[o] /\ Said(pending'[o], k, known'[o][k]) = Told(o, k)
    BY <1>1, <2>6, <2>7 DEF EventsInv, EventsTyped, Told
  <2> QED BY <1>1, <1>2, <2>6, <2>8, NoNews
<1> QED BY <1>3, <1>4

LEMMA RequestKeeps == ASSUME EventsInv, NEW s \in Subs, Requests(s) PROVE EventsInv'
<1>1. CASE Create(s)
  <2>1. PICK reaped : Leave(reaped) /\ reaped \subseteq Published /\ stage' =
          [r \in Subs |-> IF r \in reaped THEN "gone"
                          ELSE IF r = s /\ Cardinality(Published \ reaped) < MaxSubs
                                 THEN "seed" ELSE stage[r]]
    BY <1>1 DEF Create
  <2>2. stage[s] = "none" /\ UNCHANGED <<last, sender>>
    BY <1>1 DEF Create
  <2>3. \A o \in Subs \ reaped : o \in Published => o \in Published'
    BY <2>1, <2>2 DEF Published
  <2> QED BY <2>1, <2>2, <2>3, LeaveKeeps
<1>2. CASE Refuse(s) \/ Unsubscribe(s)
  <2>1. Leave({s}) /\ UNCHANGED <<last, sender>> /\ stage' = [stage EXCEPT ![s] = "gone"]
    BY <1>2 DEF Refuse, Unsubscribe
  <2>2. DOMAIN stage' = Subs /\ \A o \in Subs \ {s} : o \in Published => o \in Published'
    BY <2>1 DEF Published, EventsInv, EventsTyped
  <2> QED BY <2>1, <2>2, LeaveKeeps
<1>3. CASE SeedMotion(s) \/ SyncMotion(s)
  <2>1. /\ Resend(s, {"motion"}) /\ UNCHANGED <<last, known, sender>>
        /\ \/ stage[s] = "seed" /\ stage' = [stage EXCEPT ![s] = "seedAi"]
           \/ stage[s] = "live" /\ stage' = [stage EXCEPT ![s] = "resync"]
    BY <1>3 DEF SeedMotion, SyncMotion
  <2>2. DOMAIN stage' = Subs /\ Published' = Published
    BY <2>1 DEF Published, EventsInv, EventsTyped
  <2>3. Cardinality({"motion"}) = 1
    BY FS_Singleton
  <2>4. {"motion"} \in SUBSET Keys /\ Cardinality({"motion"}) \in Nat
    BY <2>3 DEF Keys
  <2> QED BY <2>1, <2>2, <2>4, ResendKeeps
<1>4. CASE SeedAi(s) \/ SyncAi(s)
  <2>1. /\ Resend(s, Types) /\ UNCHANGED <<last, known, sender>>
        /\ \/ stage[s] = "seedAi" /\ stage' = [stage EXCEPT ![s] = "seeded"]
           \/ stage[s] = "resync" /\ stage' = [stage EXCEPT ![s] = "live"]
    BY <1>4 DEF SeedAi, SyncAi
  <2>2. DOMAIN stage' = Subs /\ Published' = Published
    BY <2>1 DEF Published, EventsInv, EventsTyped
  <2>3. Types \in SUBSET Keys /\ Cardinality(Types) \in Nat
    BY EventsAssumption, FS_CardinalityType DEF Keys
  <2> QED BY <2>1, <2>2, <2>3, ResendKeeps
<1>5. CASE Insert(s) \/ PullMessages(s) \/ PullWait(s) \/ PullTimeout(s) \/ Renew(s) \/ Expire(s)
  <2>1. /\ UNCHANGED <<last, pending, known, since, sender>>
        /\ stage' = stage \/ stage' = [stage EXCEPT ![s] = "live"]
    BY <1>5 DEF Insert, PullMessages, PullWait, PullTimeout, Renew, Expire
  <2>2. /\ DOMAIN stage' = Subs /\ DOMAIN known' = Subs /\ pending' \in [Subs -> Seq(Notifications)]
        /\ since' \in [Subs -> SUBSET Keys]
    BY <2>1 DEF EventsInv, EventsTyped
  <2>3. \A o \in Subs : since'[o] # {} => o \in Published'
    BY <2>1 DEF EventsInv, EventsTyped, Untold, Published
  <2>4. \A o \in Subs : \A k : Said(pending'[o], k, known'[o][k]) = Told(o, k)
    BY <2>1 DEF Told
  <2> QED BY <2>1, <2>2, <2>3, <2>4, NoNews
<1> QED BY <1>1, <1>2, <1>3, <1>4, <1>5, PullLookKeeps DEF Requests

LEMMA ReadSubsKeeps == ASSUME EventsInv, NEW l \in Listening, ReadSubs(l) PROVE EventsInv'
<1>1. UNCHANGED <<last, stage, pending, known, since>> /\ sender[l].to = {"subs"}
  BY DEF ReadSubs
<1>2. PICK t : t = IF Published = {} THEN Idle ELSE [sender[l] EXCEPT !.to = Published, !.subs = Published]
  OBVIOUS
<1>3. sender' = [sender EXCEPT ![l] = t]
  BY <1>2 DEF ReadSubs
<1>4. sender[l] \in [todo : Seq(Notifications), to : (SUBSET Subs) \union {{"subs"}}, subs : SUBSET Subs]
  BY DEF EventsInv, EventsTyped
<1>5. /\ t \in [todo : Seq(Notifications), to : (SUBSET Subs) \union {{"subs"}}, subs : SUBSET Subs]
      /\ Published # {} => t.todo = sender[l].todo /\ t.to = Published /\ t.subs = Published
      /\ Published = {} => t.todo = <<>> /\ t.to = {}
  BY <1>2, <1>4, EmptySeq DEF Idle, Published
<1>6. EventsTyped'
  BY <1>1, <1>3, <1>5 DEF EventsInv, EventsTyped
<1>7. Untold'
  BY <1>1 DEF EventsInv, Untold, Published
<1>8. TrueToSend'
  <2> SUFFICES ASSUME NEW o \in Listening
               PROVE  /\ sender'[o].to # {} => sender'[o].todo # <<>>
                      /\ \A i \in DOMAIN sender'[o].todo :
                           LET n == sender'[o].todo[i] IN Teller(n.key) = o /\ n.val = last[n.key]
    BY <1>1 DEF TrueToSend, Teller
  <2>1. CASE o # l
    BY <1>3, <2>1 DEF EventsInv, EventsTyped, TrueToSend
  <2>2. CASE o = l
    <3>1. sender'[o] = t
      BY <1>3, <2>2 DEF EventsInv, EventsTyped
    <3>2. /\ sender[l].todo # <<>>
          /\ \A i \in DOMAIN sender[l].todo :
               LET n == sender[l].todo[i] IN Teller(n.key) = l /\ n.val = last[n.key]
      BY <1>1 DEF EventsInv, TrueToSend
    <3> QED BY <1>5, <2>2, <3>1, <3>2
  <2> QED BY <2>1, <2>2
<1>9. Tells'
  <2> SUFFICES ASSUME NEW s \in Subs, NEW k \in since[s] \ NoTopic, last[k] # "none"
               PROVE  Told(s, k) = last[k] \/ Due(s, k)'
    BY <1>1 DEF Tells, Told, Said, Of
  <2>1. s \in Published
    BY DEF EventsInv, Untold
  <2>2. Told(s, k) = last[k] \/ Due(s, k)
    BY DEF EventsInv, Tells
  <2>3. CASE Teller(k) # l
    <3>1. sender'[Teller(k)] = sender[Teller(k)]
      BY <1>3, <2>3 DEF EventsInv, EventsTyped, Teller, Listening
    <3> QED BY <2>2, <3>1 DEF Due, Teller
  <2>4. CASE Teller(k) = l
    <3>1. sender'[Teller(k)] = t
      BY <1>3, <2>4 DEF EventsInv, EventsTyped
    <3> QED BY <1>5, <2>1, <2>2, <2>4, <3>1 DEF Due, Teller
  <2> QED BY <2>3, <2>4
<1> QED BY <1>6, <1>7, <1>8, <1>9 DEF EventsInv

LEMMA SendKeeps == ASSUME EventsInv, NEW l \in Listening, NEW s \in Subs, Send(l, s) PROVE EventsInv'
<1>1. PICK t : t = sender[l]
  OBVIOUS
<1>2. PICK n : n = Head(t.todo)
  OBVIOUS
<1>3. PICK rest : rest = t.to \ {s}
  OBVIOUS
<1>4. PICK u : u = IF rest # {} THEN [t EXCEPT !.to = rest]
                   ELSE IF Len(t.todo) = 1 THEN Idle
                   ELSE [t EXCEPT !.todo = Tail(t.todo), !.to = t.subs]
  OBVIOUS
<1>5. /\ UNCHANGED <<last, stage, known>> /\ s \in t.to /\ sender' = [sender EXCEPT ![l] = u]
      /\ s \notin Published => UNCHANGED <<pending, since>>
      /\ s \in Published =>
            /\ pending' = [pending EXCEPT ![s] = Enqueue(@, <<n>>)]
            /\ since' = [since EXCEPT ![s] = (@ \union {n.key}) \ Forgets(pending[s], <<n>>)]
  <2>1. UNCHANGED <<last, stage, known>> /\ s \in t.to
    BY <1>1 DEF Send
  <2>2. sender' = [sender EXCEPT ![l] = u]
    BY <1>1, <1>3, <1>4 DEF Send
  <2>3. s \notin Published => UNCHANGED <<pending, since>>
    BY DEF Send
  <2>4. s \in Published =>
            /\ pending' = [pending EXCEPT ![s] = Enqueue(@, <<n>>)]
            /\ since' = [since EXCEPT ![s] = (@ \union {n.key}) \ Forgets(pending[s], <<n>>)]
    BY <1>1, <1>2 DEF Send
  <2> QED BY <2>1, <2>2, <2>3, <2>4
<1>6. /\ t \in [todo : Seq(Notifications), to : (SUBSET Subs) \union {{"subs"}}, subs : SUBSET Subs]
      /\ t.to \subseteq Subs /\ t.to # {"subs"} /\ t.todo # <<>>
  <2>1. t \in [todo : Seq(Notifications), to : (SUBSET Subs) \union {{"subs"}}, subs : SUBSET Subs]
    BY <1>1 DEF EventsInv, EventsTyped
  <2>2. t.to # {} /\ t.to # {"subs"}
    BY <1>5, EventsAssumption
  <2>3. t.todo # <<>>
    BY <1>1, <2>2 DEF EventsInv, TrueToSend
  <2> QED BY <2>1, <2>2, <2>3
<1>7. /\ n \in Notifications /\ n = t.todo[1] /\ Len(t.todo) \in Nat \ {0} /\ DOMAIN t.todo = 1..Len(t.todo)
      /\ Tail(t.todo) \in Seq(Notifications) /\ DOMAIN Tail(t.todo) = 1..(Len(t.todo) - 1)
      /\ \A i \in 1..(Len(t.todo) - 1) : Tail(t.todo)[i] = t.todo[i + 1]
  BY <1>2, <1>6, Shorter
<1>8. /\ u \in [todo : Seq(Notifications), to : SUBSET Subs, subs : SUBSET Subs]
      /\ rest # {} => u.todo = t.todo /\ u.to = rest /\ u.subs = t.subs
      /\ rest = {} /\ Len(t.todo) = 1 => u.todo = <<>> /\ u.to = {}
      /\ rest = {} /\ Len(t.todo) # 1 => u.todo = Tail(t.todo) /\ u.to = t.subs /\ u.subs = t.subs
  BY <1>3, <1>4, <1>6, <1>7, EmptySeq DEF Idle
<1>9. \A i \in DOMAIN t.todo : Teller(t.todo[i].key) = l /\ t.todo[i].val = last[t.todo[i].key]
  BY <1>1 DEF EventsInv, TrueToSend
<1>10. /\ pending[s] \in Seq(Notifications) /\ <<n>> \in Seq(Notifications) /\ n.key \in Keys
       /\ Enqueue(pending[s], <<n>>) \in Seq(Notifications)
  <2>1. pending[s] \in Seq(Notifications) /\ <<n>> \in Seq(Notifications) /\ n.key \in Keys
    BY <1>7 DEF EventsInv, EventsTyped, Notifications
  <2> QED BY <2>1, EnqueueSays
<1>11. EventsTyped'
  <2>1. pending' \in [Subs -> Seq(Notifications)]
    BY <1>5, <1>10 DEF EventsInv, EventsTyped
  <2>2. since' \in [Subs -> SUBSET Keys]
    <3>1. since \in [Subs -> SUBSET Keys] /\ (since[s] \union {n.key}) \ Forgets(pending[s], <<n>>) \in SUBSET Keys
      BY <1>10 DEF EventsInv, EventsTyped
    <3> QED BY <1>5, <3>1
  <2>3. u \in [todo : Seq(Notifications), to : (SUBSET Subs) \union {{"subs"}}, subs : SUBSET Subs]
    BY <1>8
  <2>4. sender' \in [Listening -> [todo : Seq(Notifications), to : (SUBSET Subs) \union {{"subs"}}, subs : SUBSET Subs]]
    BY <1>5, <2>3 DEF EventsInv, EventsTyped
  <2> QED BY <1>5, <2>1, <2>2, <2>4 DEF EventsInv, EventsTyped
<1>12. Untold'
  BY <1>5 DEF EventsInv, EventsTyped, Untold, Published
<1>13. TrueToSend'
  <2> SUFFICES ASSUME NEW o \in Listening
               PROVE  /\ sender'[o].to # {} => sender'[o].todo # <<>>
                      /\ \A i \in DOMAIN sender'[o].todo :
                           LET m == sender'[o].todo[i] IN Teller(m.key) = o /\ m.val = last[m.key]
    BY <1>5 DEF TrueToSend, Teller
  <2>1. CASE o # l
    BY <1>5, <2>1 DEF EventsInv, EventsTyped, TrueToSend
  <2>2. CASE o = l
    <3>1. sender'[o] = u
      BY <1>5, <2>2 DEF EventsInv, EventsTyped
    <3>2. CASE rest # {}
      BY <1>6, <1>8, <1>9, <2>2, <3>1, <3>2
    <3>3. CASE rest = {} /\ Len(t.todo) = 1
      BY <1>8, <3>1, <3>3
    <3>4. CASE rest = {} /\ Len(t.todo) # 1
      <4>1. DOMAIN u.todo = 1..(Len(t.todo) - 1) /\ Len(t.todo) - 1 >= 1
        <5>0. Len(t.todo) \in Nat \ {0}
          BY <1>7
        <5>1. Len(t.todo) \in Nat /\ Len(t.todo) - 1 >= 1
          <6>1. \A x \in Nat \ {0} : x # 1 => x \in Nat /\ x - 1 >= 1
            OBVIOUS
          <6> QED BY <3>4, <5>0, <6>1, Zenon
        <5>2. u.todo = Tail(t.todo)
          BY <1>8, <3>4
        <5>3. DOMAIN u.todo = 1..(Len(t.todo) - 1)
          BY <1>7, <5>2
        <5> QED BY <5>1, <5>3
      <4>2. u.todo # <<>>
        BY <4>1
      <4>3. \A i \in DOMAIN u.todo : i + 1 \in DOMAIN t.todo /\ u.todo[i] = t.todo[i + 1]
        BY <1>7, <1>8, <3>4, <4>1
      <4> QED BY <1>9, <2>2, <3>1, <4>2, <4>3
    <3> QED BY <3>2, <3>3, <3>4
  <2> QED BY <2>1, <2>2
<1>14. ASSUME NEW o \in Subs, NEW k, Due(o, k), ~ (o = s /\ k = n.key) PROVE Due(o, k)'
  <2>1. CASE Teller(k) # l
    <3>1. sender'[Teller(k)] = sender[Teller(k)]
      BY <1>5, <2>1 DEF EventsInv, EventsTyped, Teller, Listening
    <3> QED BY <1>14, <3>1 DEF Due, Teller
  <2>2. CASE Teller(k) = l
    <3>1. sender'[Teller(k)] = u
      BY <1>5, <2>2 DEF EventsInv, EventsTyped
    <3>2. PICK i \in DOMAIN t.todo : t.todo[i].key = k /\ IF i = 1 THEN o \in t.to ELSE o \in t.subs
      BY <1>1, <1>6, <1>14, <2>2 DEF Due
    <3>3. CASE rest # {}
      <4>1. i = 1 => o \in rest
        BY <1>3, <1>7, <1>14, <3>2
      <4>2. i \in DOMAIN u.todo /\ u.todo[i].key = k /\ IF i = 1 THEN o \in u.to ELSE o \in u.subs
        BY <1>8, <3>2, <3>3, <4>1
      <4> QED BY <3>1, <4>2 DEF Due, Teller
    <3>4. CASE rest = {}
      <4>1. i # 1
        BY <1>3, <1>7, <1>14, <3>2, <3>4
      <4>2. i - 1 \in 1..(Len(t.todo) - 1) /\ Len(t.todo) # 1 /\ Tail(t.todo)[i - 1] = t.todo[i]
        BY <1>7, <3>2, <4>1
      <4>3. i - 1 \in DOMAIN u.todo /\ u.todo[i - 1].key = k /\ o \in u.to /\ o \in u.subs
        BY <1>7, <1>8, <3>2, <3>4, <4>1, <4>2
      <4> QED BY <3>1, <4>3 DEF Due, Teller
    <3> QED BY <3>3, <3>4
  <2> QED BY <2>1, <2>2
<1>15. Tells'
  <2> SUFFICES ASSUME NEW o \in Subs, NEW k \in since'[o] \ NoTopic, last[k] # "none"
               PROVE  Said(pending'[o], k, known[o][k]) = last[k] \/ Due(o, k)'
    BY <1>5 DEF Tells, Told, Said, Of
  <2>1. CASE o = s /\ s \in Published
    <3>1. since'[s] = (since[s] \union {n.key}) \ Forgets(pending[s], <<n>>) /\ pending'[s] = Enqueue(pending[s], <<n>>)
      BY <1>5, <2>1 DEF EventsInv, EventsTyped
    <3>2. k \in Keys \ Forgets(pending[s], <<n>>) /\ (k \in since[s] \/ k = n.key)
      BY <1>10, <2>1, <3>1 DEF EventsInv, EventsTyped
    <3>3. \A v : Said(pending'[s], k, v) = Said(<<n>>, k, Said(pending[s], k, v))
      <4>1. PICK q, m : q = pending[s] /\ m = <<n>>
        OBVIOUS
      <4>2. q \in Seq(Notifications) /\ m \in Seq(Notifications) /\ k \in Keys \ Forgets(q, m)
        BY <1>10, <3>2, <4>1
      <4>3. \A v : Said(Enqueue(q, m), k, v) = Said(m, k, Said(q, k, v))
        BY <4>2, EnqueueSays
      <4> QED BY <3>1, <4>1, <4>3
    <3>4. Said(pending'[s], k, known[s][k]) = Said(<<n>>, k, Told(s, k))
      BY <3>3 DEF Told
    <3>5. CASE k = n.key
      <4>1. Of(<<n>>, k) = {1} /\ <<n>>[1] = n
        BY <3>5 DEF Of
      <4>2. \A j \in Of(<<n>>, k) : j <= 1
        BY <4>1
      <4>3. Said(<<n>>, k, Told(s, k)) = <<n>>[1].val
        BY <1>10, <4>1, <4>2, SaidFacts
      <4>4. n.val = last[n.key]
        BY <1>7, <1>9
      <4> QED BY <2>1, <3>4, <3>5, <4>1, <4>3, <4>4
    <3>6. CASE k # n.key
      <4>1. Of(<<n>>, k) = {}
        BY <3>6 DEF Of
      <4>2. Said(<<n>>, k, Told(s, k)) = Told(s, k)
        BY <1>10, <4>1, SaidFacts
      <4>3. Told(s, k) = last[k] \/ Due(s, k)
        BY <3>2, <3>6 DEF EventsInv, Tells
      <4> QED BY <1>14, <2>1, <3>4, <3>6, <4>2, <4>3
    <3> QED BY <3>5, <3>6
  <2>2. CASE o # s
    <3>1. since'[o] = since[o] /\ pending'[o] = pending[o]
      BY <1>5, <2>2 DEF EventsInv, EventsTyped
    <3>2. Told(o, k) = last[k] \/ Due(o, k)
      BY <3>1 DEF EventsInv, Tells
    <3> QED BY <1>14, <2>2, <3>1, <3>2 DEF Told
  <2>3. CASE o = s /\ s \notin Published
    BY <1>5, <2>3 DEF EventsInv, Untold
  <2> QED BY <2>1, <2>2, <2>3
<1> QED BY <1>11, <1>12, <1>13, <1>15 DEF EventsInv

LEMMA PublishKeeps ==
    ASSUME EventsInv, NEW l \in Listening, NEW diff \in SUBSET Keys, NEW values \in [diff -> Values],
           NEW ns \in Seq(Notifications), \A k \in diff : Teller(k) = l,
           {ns[i].key : i \in DOMAIN ns} = diff \ NoTopic, \A i \in DOMAIN ns : ns[i].val = values[ns[i].key],
           sender[l] = Idle, Publish(l, values, ns), UNCHANGED <<stage, pending, known, since>>
    PROVE  EventsInv'
<1>1. PICK t : t = ToSend(ns)
  OBVIOUS
<1>2. /\ sender' = [sender EXCEPT ![l] = t] /\ last' \in [Keys -> Values]
      /\ \A k \in diff : last'[k] = values[k]
      /\ \A k \in Keys \ diff : last'[k] = last[k]
  BY <1>1 DEF Publish, EventsInv, EventsTyped
<1>3. /\ t \in [todo : Seq(Notifications), to : (SUBSET Subs) \union {{"subs"}}, subs : SUBSET Subs]
      /\ t.todo = ns /\ (ns = <<>> => t.to = {}) /\ (ns # <<>> => t.to = {"subs"})
  BY <1>1 DEF ToSend, Idle
<1>4. EventsTyped'
  BY <1>2, <1>3 DEF EventsInv, EventsTyped
<1>5. Untold'
  BY DEF EventsInv, Untold, Published
<1>6. \A i \in DOMAIN ns : ns[i].key \in diff
  OBVIOUS
<1>7. ASSUME NEW o \in Listening, o # l
      PROVE  sender'[o] = sender[o] /\ \A i \in DOMAIN sender[o].todo :
               last'[sender[o].todo[i].key] = last[sender[o].todo[i].key]
  <2>1. sender'[o] = sender[o] /\ sender[o].todo \in Seq(Notifications)
    BY <1>2, <1>7 DEF EventsInv, EventsTyped
  <2>2. ASSUME NEW i \in DOMAIN sender[o].todo PROVE last'[sender[o].todo[i].key] = last[sender[o].todo[i].key]
    <3>1. sender[o].todo[i].key \in Keys
      <4>1. PICK m : m = sender[o].todo
        OBVIOUS
      <4>2. m[i] \in Notifications
        BY <2>1, <2>2, <4>1
      <4> QED BY <4>1, <4>2 DEF Notifications
    <3>2. Teller(sender[o].todo[i].key) = o
      BY DEF EventsInv, TrueToSend
    <3> QED BY <1>2, <1>7, <3>1, <3>2
  <2> QED BY <2>1, <2>2
<1>8. TrueToSend'
  <2> SUFFICES ASSUME NEW o \in Listening
               PROVE  /\ sender'[o].to # {} => sender'[o].todo # <<>>
                      /\ \A i \in DOMAIN sender'[o].todo :
                           LET m == sender'[o].todo[i] IN Teller(m.key) = o /\ m.val = last'[m.key]
    BY DEF TrueToSend, Teller
  <2>1. CASE o # l
    BY <1>7, <2>1 DEF EventsInv, TrueToSend
  <2>2. CASE o = l
    <3>1. sender'[o] = t
      BY <1>2, <2>2 DEF EventsInv, EventsTyped
    <3> QED BY <1>2, <1>3, <1>6, <2>2, <3>1
  <2> QED BY <2>1, <2>2
<1>9. Tells'
  <2> SUFFICES ASSUME NEW s \in Subs, NEW k \in since[s] \ NoTopic, last'[k] # "none"
               PROVE  Told(s, k) = last'[k] \/ Due(s, k)'
    BY DEF Tells, Told, Said, Of
  <2>1. k \in Keys
    BY DEF EventsInv, EventsTyped
  <2>2. CASE k \in diff
    <3>1. PICK i \in DOMAIN ns : ns[i].key = k
      BY <2>2
    <3>2. sender'[Teller(k)] = t
      BY <1>2, <2>2 DEF EventsInv, EventsTyped
    <3>3. t.todo = ns /\ t.to = {"subs"}
      BY <1>3, <3>1
    <3> QED BY <3>1, <3>2, <3>3 DEF Due, Teller
  <2>3. CASE k \notin diff
    <3>1. last'[k] = last[k]
      BY <1>2, <2>1, <2>3
    <3>2. Told(s, k) = last[k] \/ Due(s, k)
      BY <3>1 DEF EventsInv, Tells
    <3>3. Due(s, k) => Teller(k) # l
      BY DEF Due, Idle
    <3>4. Due(s, k) => Due(s, k)'
      <4> SUFFICES ASSUME Due(s, k) PROVE Due(s, k)'
        OBVIOUS
      <4>1. sender'[Teller(k)] = sender[Teller(k)]
        BY <1>2, <3>3 DEF EventsInv, EventsTyped, Teller, Listening
      <4> QED BY <4>1 DEF Due, Teller
    <3> QED BY <3>1, <3>2, <3>4
  <2> QED BY <2>2, <2>3
<1> QED BY <1>4, <1>5, <1>8, <1>9 DEF EventsInv

LEMMA SeeMotionKeeps == ASSUME MotionInv, EventsInv, SeeMotion PROVE EventsInv'
<1>1. PICK state : state = CASE md = "Start" -> "on" [] md = "Stop" -> "off" [] OTHER -> "none"
  OBVIOUS
<1>2. sender["motion"] = Idle /\ UNCHANGED <<stage, pending, known, since>>
  BY DEF SeeMotion
<1>3. CASE state \in {"none", last["motion"]}
  <2>1. UNCHANGED <<last, sender>>
    BY <1>1, <1>3 DEF SeeMotion
  <2>2. /\ DOMAIN stage' = Subs /\ DOMAIN known' = Subs
        /\ pending' \in [Subs -> Seq(Notifications)] /\ since' \in [Subs -> SUBSET Keys]
        /\ \A s \in Subs : since'[s] # {} => s \in Published'
    BY <1>2 DEF EventsInv, EventsTyped, Untold, Published
  <2>3. \A s \in Subs : \A k : Said(pending'[s], k, known'[s][k]) = Told(s, k)
    BY <1>2 DEF Told
  <2> QED BY <1>2, <2>1, <2>2, <2>3, NoNews
<1>4. CASE state \notin {"none", last["motion"]}
  <2>1. PICK values, n, ns :
          values = [k \in {"motion"} |-> state] /\ n = [key |-> "motion", val |-> state] /\ ns = <<n>>
    OBVIOUS
  <2>2. Publish("motion", values, ns)
    BY <1>1, <1>4, <2>1 DEF SeeMotion
  <2>3. state \in {"on", "off"}
    BY <1>1, <1>4 DEF MotionInv, MotionTyped
  <2>4. n \in Notifications /\ n.key = "motion" /\ n.val = state /\ "motion" \in Keys /\ "motion" \notin NoTopic
    BY <2>1, <2>3, EventsAssumption DEF Notifications, Keys
  <2>5. ns \in Seq(Notifications) /\ DOMAIN ns = {1} /\ ns[1] = n
    BY <2>1, <2>4
  <2>6. values \in [{"motion"} -> Values] /\ values["motion"] = state
    BY <2>1, <2>3 DEF Values
  <2>7. {ns[i].key : i \in DOMAIN ns} = {"motion"} \ NoTopic /\ \A i \in DOMAIN ns : ns[i].val = values[ns[i].key]
    BY <2>4, <2>5, <2>6
  <2>8. \A k \in {"motion"} : Teller(k) = "motion"
    BY DEF Teller
  <2>9. "motion" \in Listening /\ {"motion"} \in SUBSET Keys
    BY <2>4 DEF Listening
  <2> QED BY <1>2, <2>2, <2>5, <2>6, <2>7, <2>8, <2>9, PublishKeeps
<1> QED BY <1>3, <1>4

LEMMA SeeAiKeeps == ASSUME MotionInv, EventsInv, SeeAi PROVE EventsInv'
<1>1. PICK diff : diff = {t \in Types : CurrentAi(t) \notin {"none", last[t]}}
  OBVIOUS
<1>2. PICK values : values = [t \in diff |-> CurrentAi(t)]
  OBVIOUS
<1>3. PICK ns \in SeqOf(Notifications, Cardinality(diff)) :
        /\ {ns[i].key : i \in DOMAIN ns} = diff \ NoTopic
        /\ \A i \in DOMAIN ns : ns[i].val = CurrentAi(ns[i].key)
        /\ Publish("ai", values, ns)
  BY <1>1, <1>2 DEF SeeAi
<1>4. sender["ai"] = Idle /\ UNCHANGED <<stage, pending, known, since>>
  BY DEF SeeAi
<1>5. diff \in SUBSET Keys /\ diff \subseteq Types
  BY <1>1 DEF Keys
<1>6. Cardinality(diff) \in Nat
  BY <1>5, EventsAssumption, FS_Subset, FS_CardinalityType
<1>7. ns \in Seq(Notifications)
  BY <1>6 DEF SeqOf
<1>8. \A i \in DOMAIN ns : ns[i].key \in diff /\ ns[i].val = values[ns[i].key]
  BY <1>2, <1>3
<1>9. values \in [diff -> Values]
  <2>1. \A t \in Types : ai[t] \in {"unseen", "on", "off"}
    BY DEF MotionInv, MotionTyped, AiStates
  <2>2. \A t \in Types : CurrentAi(t) \in Values
    BY <2>1 DEF CurrentAi, Values
  <2> QED BY <1>2, <1>5, <2>2
<1>10. \A k \in diff : Teller(k) = "ai"
  BY <1>5, EventsAssumption DEF Teller
<1>11. "ai" \in Listening
  BY DEF Listening
<1> QED BY <1>3, <1>4, <1>5, <1>7, <1>8, <1>9, <1>10, <1>11, PublishKeeps

LEMMA EventsInit == Init => EventsInv
<1> SUFFICES ASSUME EInit PROVE EventsInv
  BY DEF Init
<1>1. <<>> \in Seq(Notifications)
  BY EmptySeq
<1>2. EventsTyped
  BY <1>1 DEF EInit, EventsTyped, Idle, Nothing, Values, Listening
<1>3. Untold /\ Tells
  BY DEF EInit, Untold, Tells
<1>4. TrueToSend
  BY DEF EInit, TrueToSend, Idle, Listening
<1> QED BY <1>2, <1>3, <1>4 DEF EventsInv

LEMMA EventsNext == ASSUME MotionInv, EventsInv, [Next]_vars PROVE EventsInv'
<1>1. CASE UNCHANGED evars
  <2>1. UNCHANGED <<last, stage, pending, known, since, sender>>
    BY <1>1 DEF evars
  <2>2. /\ DOMAIN stage' = Subs /\ DOMAIN known' = Subs
        /\ pending' \in [Subs -> Seq(Notifications)] /\ since' \in [Subs -> SUBSET Keys]
        /\ \A s \in Subs : since'[s] # {} => s \in Published'
    BY <2>1 DEF EventsInv, EventsTyped, Untold, Published
  <2>3. \A s \in Subs : \A k : Said(pending'[s], k, known'[s][k]) = Told(s, k)
    BY <2>1 DEF Told
  <2> QED BY <2>1, <2>2, <2>3, NoNews
<1>2. CASE Listeners
  BY <1>2, ReadSubsKeeps, SendKeeps DEF Listeners, Listening
<1>3. CASE \E s \in Subs : Requests(s)
  BY <1>3, RequestKeeps
<1> QED BY <1>1, <1>2, <1>3, SeeMotionKeeps, SeeAiKeeps DEF Next, vars

\* A subscription that has been told of a key since it was published ends with its
\* current value (events.rs: resync, publish_motion, publish_ai, enqueue): see Latest.
THEOREM IsLatest == Spec => []Latest
<1>1. EventsInv => Latest
  <2> SUFFICES ASSUME EventsInv, NEW s \in Published, NEW k \in since[s] \ NoTopic,
                      sender[Teller(k)] = Idle, last[k] # "none"
               PROVE  Told(s, k) = last[k]
    BY DEF Latest, Teller
  <2>1. Told(s, k) = last[k] \/ Due(s, k)
    BY DEF EventsInv, Tells, Published
  <2> QED BY <2>1 DEF Due, Idle
<1>2. MotionInv /\ EventsInv /\ [Next]_vars => EventsInv'
  BY EventsNext
<1>3. (MotionInv /\ Followed) => MotionInv
  OBVIOUS
<1> QED BY <1>1, <1>2, <1>3, EventsInit, Invariance, PTL DEF Spec
=============================================================================
