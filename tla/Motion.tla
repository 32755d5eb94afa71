------------------------------- MODULE Motion -------------------------------
(***************************************************************************)
(* What the camera's alarms say, up to the two watches the rest of the     *)
(* program reads: MotionData (crates/core/src/bc_protocol/motion.rs and    *)
(* smart_ai.rs) and the motion thread (src/common/mdthread.rs).            *)
(*                                                                         *)
(* A task of MotionData reads the alarms, folds their AI detections into a *)
(* watch of its own and queues one motion status for each.  The motion     *)
(* thread mirrors both into watches that outlive the connection.           *)
(***************************************************************************)
EXTENDS Integers, Sequences, SequencesExt

CONSTANTS
    Types,      \* AI types, and the smart-AI zone detectors
    Zones,
    Alarms,     \* the alarm messages the camera may send: sequences of events
    QueueCap,   \* the channel of MotionData (20)
    MaxAlarms,  \* alarms sent, altogether
    MaxLosses   \* connections lost

NoAiType == {"absent"} \* an event without an AItype element

ASSUME MotionAssumption ==
    /\ QueueCap \in Nat \ {0} /\ MaxAlarms \in Nat /\ MaxLosses \in Nat
    /\ Zones \subseteq Types

VARIABLES
    listening,  \* "no", "asked" (MSG 31 was answered) or "yes"
    alarms,     \* alarms that wait in the subscription
    hand,       \* the status the task waits to queue
    queue,      \* the statuses queued
    heard,      \* the AI state inside MotionData, and whether it is news
    md, ai,     \* the motion thread's watches, and what ONVIF has not seen
    news,
    said,       \* what the camera said last since the subscription
    passed,     \* whether a status was passed over for a NoChange
    count

mvars == <<listening, alarms, hand, queue, heard, md, ai, news, said, passed, count>>

Unseen == [t \in Types |-> "unseen"] \* AiState::default()
Nobody == [motion |-> "unknown", types |-> NoAiType, zones |-> {}]

MInit ==
    /\ listening = "no" /\ alarms = <<>> /\ hand = "none" /\ queue = <<>>
    /\ heard = [state |-> Unseen, new |-> FALSE]
    /\ md = "unknown" /\ ai = Unseen /\ news = {}
    /\ said = Nobody /\ passed = FALSE /\ count = [alarms |-> 0, losses |-> 0]
-----------------------------------------------------------------------------
(* An alarm is a sequence of events; an event is of our channel or not, has *)
(* a status (md, a visitor, or none), perhaps an AItype, and zones.        *)

Ours(alarm) == SelectSeq(alarm, LAMBDA e : e.ours)
OursSet(alarm) == ToSet(Ours(alarm))

\* The first event of ours decides, and nothing that is not ours does.
StatusOf(alarm) ==
    IF Ours(alarm) = <<>> THEN "NoChange"
    ELSE LET e == Head(Ours(alarm)) IN
         IF e.status # "none" \/ e.types \notin {NoAiType, {}} THEN "Start" ELSE "Stop"

\* A visitor is reported in the status, and counts as an AI type.
SawAiType(alarm) == \E e \in OursSet(alarm) : e.types # NoAiType \/ e.status = "visitor"
Active(alarm) ==
    UNION {(IF e.types = NoAiType THEN {} ELSE e.types)
             \union (IF e.status = "visitor" THEN {"visitor"} ELSE {}) : e \in OursSet(alarm)}
ActiveZones(alarm) == UNION {e.zones : e \in OursSet(alarm)}

\* AI types and zones are in two maps of AiState: no name is in both.
ASSUME AlarmsAssumption ==
    \A a \in Alarms : ActiveZones(a) \subseteq Zones /\ Active(a) \intersect Zones = {}

\* A mutant: the events are folded one at a time, the last one wins.
apply_last(state, alarm) ==
    LET e == Last(Ours(alarm)) IN
    [t \in Types |->
        IF t \in Zones THEN IF t \in ActiveZones(alarm) THEN "on" ELSE "unseen"
        ELSE IF t \in (IF e.types = NoAiType THEN {} ELSE e.types) THEN "on"
        ELSE IF state[t] = "unseen" THEN "unseen" ELSE "off"]

\* AiState::apply_events: the types known are cleared and those reported set;
\* an alarm without an AItype leaves them alone.  Zones are always replaced.
apply_events(state, alarm) ==
    [t \in Types |->
        IF t \in Zones THEN IF t \in ActiveZones(alarm) THEN "on" ELSE "unseen"
        ELSE IF ~SawAiType(alarm) THEN state[t]
        ELSE IF t \in Active(alarm) THEN "on"
        ELSE IF state[t] = "unseen" THEN "unseen" ELSE "off"]
-----------------------------------------------------------------------------
\* listen_on_motion: the camera accepts the request for events.
Listen ==
    /\ listening = "no"
    /\ listening' = "asked"
    /\ hand' = "none" /\ queue' = <<>> /\ heard' = [state |-> Unseen, new |-> FALSE]
    /\ said' = Nobody
    /\ UNCHANGED <<alarms, md, ai, news, passed, count>>

\* Its task subscribes to the alarms; those that came before are lost.
Subscribe ==
    /\ listening = "asked" /\ listening' = "yes"
    /\ UNCHANGED <<alarms, hand, queue, heard, md, ai, news, said, passed, count>>

Alarm(a) ==
    /\ count.alarms < MaxAlarms /\ count' = [count EXCEPT !.alarms = @ + 1]
    /\ IF listening = "yes"
         THEN /\ alarms' = Append(alarms, a)
              /\ said' = IF Ours(a) = <<>> THEN said
                         ELSE [motion |-> StatusOf(a),
                               types |-> IF SawAiType(a) THEN Active(a) ELSE said.types,
                               zones |-> ActiveZones(a)]
         ELSE UNCHANGED <<alarms, said>>
    /\ UNCHANGED <<listening, hand, queue, heard, md, ai, news, passed>>

\* The task: the AI state first, then the status, for which it waits.
TakeAlarm ==
    /\ listening = "yes" /\ alarms # <<>> /\ hand = "none"
    /\ alarms' = Tail(alarms)
    /\ LET a == Head(alarms)
           state == IF Ours(a) = <<>> THEN heard.state ELSE apply_events(heard.state, a)
       IN  /\ heard' = [state |-> state, new |-> heard.new \/ state # heard.state]
           /\ hand' = StatusOf(a)
    /\ UNCHANGED <<listening, queue, md, ai, news, said, passed, count>>

QueueStatus ==
    /\ hand # "none" /\ Len(queue) < QueueCap
    /\ queue' = Append(queue, hand) /\ hand' = "none"
    /\ UNCHANGED <<listening, alarms, heard, md, ai, news, said, passed, count>>

\* next_motion and consume_motion_events: all that is queued is taken, and the
\* last of it given to the motion thread.
NextMotion ==
    /\ queue # <<>> /\ queue' = <<>>
    /\ IF Last(queue) = "NoChange"
         THEN /\ UNCHANGED <<md, news>>
              /\ passed' = (passed \/ \E i \in DOMAIN queue : queue[i] # "NoChange")
         ELSE md' = Last(queue) /\ news' = news \union {"md"} /\ passed' = FALSE
    /\ UNCHANGED <<listening, alarms, hand, heard, ai, said, count>>

\* ai.changed(): the whole state is mirrored.
AiChanged ==
    /\ heard.new /\ heard' = [heard EXCEPT !.new = FALSE]
    /\ ai' = heard.state
    /\ news' = IF ai = heard.state THEN news ELSE news \union {"ai"}
    /\ UNCHANGED <<listening, alarms, hand, queue, md, said, passed, count>>

\* The connection is lost: the task on it ends, its MotionData is dropped, and
\* the motion thread asks again on the next one, a second later.
ConnectionLost ==
    /\ listening # "no" /\ count.losses < MaxLosses
    /\ count' = [count EXCEPT !.losses = @ + 1]
    /\ listening' = "no" /\ alarms' = <<>> /\ hand' = "none" /\ queue' = <<>>
    /\ heard' = [state |-> Unseen, new |-> FALSE] /\ said' = Nobody
    /\ passed' = FALSE
    /\ UNCHANGED <<md, ai, news>>

Quiet == listening = "yes" /\ alarms = <<>> /\ hand = "none" /\ queue = <<>> /\ ~heard.new

MNext ==
    \/ Listen \/ Subscribe \/ (\E a \in Alarms : Alarm(a))
    \/ TakeAlarm \/ QueueStatus \/ NextMotion \/ AiChanged \/ ConnectionLost
-----------------------------------------------------------------------------
\* When all that the camera sent has been taken in, the watches say what the
\* camera said last: the motion status, unless it was passed over for a
\* NoChange queued after it, and exactly the AI types and zones of the last
\* report, however it was split and however many reports one reading of the
\* watch or the queue stood for, once a report of this connection has differed
\* from a camera that never reported anything.
Mirrors ==
    Quiet =>
        /\ said.motion = "unknown" \/ passed \/ md = said.motion
        /\ said.types # NoAiType /\ (heard.state # Unseen \/ count.losses = 0) =>
             {t \in Types : ai[t] = "on"} = (said.types \intersect Types) \union said.zones

\* smart_ai.rs:186-187, "so a type that stops being listed has stopped being
\* detected": the motion thread's AI watch, across lost connections too.
NotListedNotDetected ==
    Quiet /\ said.types # NoAiType =>
        {t \in Types : ai[t] = "on"} \subseteq said.types \union said.zones

=============================================================================
