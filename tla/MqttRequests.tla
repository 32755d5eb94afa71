---------------------------- MODULE MqttRequests ----------------------------
(***************************************************************************)
(* The requests a camera answers over MQTT, handle_mqtt_message of         *)
(* src/mqtt/mod.rs, and what Home Assistant is told that it may send and   *)
(* read, enable_discovery of src/mqtt/discovery.rs.  A request is its      *)
(* topic below control/ or query/ and its payload; of the payloads that    *)
(* are numbers there is one of each kind.                                  *)
(***************************************************************************)
EXTENDS Sequences

\* What an arm asks of the camera, in order; what it publishes of the answer; and
\* where it says how that went, which is not always where it was asked.
Arm(asks, does, tells, replies) == [asks |-> asks, does |-> does, tells |-> tells, replies |-> replies]
Does(asks, command, topic) == Arm(asks, <<command>>, "", topic)
Refuses(asks, topic) == Arm(asks, <<>>, "", topic)

FloodlightArms ==
    {Does("floodlight on", "light on", "floodlight"), Does("floodlight off", "light off", "floodlight")}
LedArms == {Does("led on", "led on", "led"), Does("led off", "led off", "led")}
IrArms == {Does("ir on", "ir on", "ir"), Does("ir off", "ir off", "ir"), Does("ir auto", "ir auto", "ir")}
RebootArms == {Does("reboot", "reboot", "ir")}
ZoomArms == {Does("zoom 1.0", "zoom", "zoom"), Refuses("zoom far", "zoom")}

\* A move is stopped after the time its amount stands for, below ten seconds.  control/pt
\* is another name of the topic.
Move(asks, way) == Arm(asks, <<way, "stop">>, "", "ptz")
PtzArms ==
    {Move("ptz left", "left"), Move("ptz right 32", "right"), Move("ptz up", "up"), Move("ptz down", "down")}
    \union {Refuses(asks, "ptz") : asks \in {"ptz", "ptz in", "ptz out", "ptz left 320", "ptz left far"}}

PresetArms == {Does("ptz/preset 1", "go to 1", "ir"), Refuses("ptz/preset 256", "ir")}
AssignArms ==
    {Does("ptz/assign 1 door", "name 1", "ir"), Refuses("ptz/assign 1", "ir"), Refuses("ptz/assign door", "ir")}
PirArms == {Does("pir on", "pir on", "pir"), Does("pir off", "pir off", "pir")}

\* A permit is taken and the reply sent; the time it is held for runs from when
\* the camera is there.
WakeupArms == {Does("wakeup 1", "permit", "wakeup"), Refuses("wakeup soon", "wakeup")}
TasksArms ==
    {Does(asks, "tasks on", "floodlight_tasks") : asks \in {"floodlight_tasks on", "floodlight_tasks true"}}
    \union {Does("floodlight_tasks off", "tasks off", "floodlight_tasks"), Refuses("floodlight_tasks 1", "floodlight_tasks")}
SirenArms == {Does("siren on", "siren", "siren")}

QueryBattery == {Arm("query/battery", <<"battery">>, "status/battery", "query/battery")}
QueryPir == {Arm("query/pir", <<"pir">>, "status/pir", "query/pir")}
QueryPtz == {Arm("query/ptz/preset", <<"presets">>, "status/ptz", "query/ptz")}
QueryPreview == {Arm("query/preview", <<"snapshot">>, "status/preview", "query/preview")}

\* A mutant: the siren has no arm.
ArmsFewer ==
    FloodlightArms \union LedArms \union IrArms \union RebootArms \union ZoomArms \union PtzArms
    \union PresetArms \union AssignArms \union PirArms \union WakeupArms \union TasksArms
    \union QueryBattery \union QueryPir \union QueryPtz \union QueryPreview

Arms ==
    FloodlightArms \union LedArms \union IrArms \union RebootArms \union ZoomArms \union PtzArms
    \union PresetArms \union AssignArms \union PirArms \union WakeupArms \union TasksArms \union SirenArms
    \union QueryBattery \union QueryPir \union QueryPtz \union QueryPreview

\* The replies come back too, and are passed over whatever their topic.
Replies == {"OK", "FAIL"}

\* A mutant: a reply is taken for a request of its topic.
ArmsOfAny(request) ==
    IF request \in Replies THEN RebootArms ELSE {arm \in Arms : arm.asks = request}

\* The arm a message is for, if any: all else is passed over too.
ArmsOf(request) == IF request \in Replies THEN {} ELSE {arm \in Arms : arm.asks = request}
-----------------------------------------------------------------------------
(* What each feature tells Home Assistant to send.                         *)

DiscoveredLight == {"floodlight on", "floodlight off", "floodlight_tasks on", "floodlight_tasks off"}
DiscoveredLed == {"led on", "led off"}
DiscoveredIr == {"ir on", "ir off", "ir auto"}
DiscoveredReboot == {"reboot"}
DiscoveredPt == {"ptz left", "ptz up", "ptz down"}
DiscoveredSiren == {"siren on"}

Discovered ==
    DiscoveredLight \union DiscoveredLed \union DiscoveredIr \union DiscoveredReboot
    \union DiscoveredPt \union DiscoveredSiren
=============================================================================
