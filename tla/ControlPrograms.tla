-------------------------- MODULE ControlPrograms --------------------------
(***************************************************************************)
(* What those who control a camera do with it, step by step: the requests *)
(* of the ONVIF services (src/onvif/services/*.rs) and the one-shot       *)
(* commands (src/ptz, pir, users, services, ...).  A request names the     *)
(* service, the action and what the action is given; the program it gets   *)
(* is a sequence of steps, each a task run on the camera or something     *)
(* done to what the camera's ONVIF entry keeps.                            *)
(***************************************************************************)
EXTENDS CameraRequests

\* A task handed to the camera; one whose failure is passed over; and a step that
\* concerns the entry only.
Run(asks) == [do |-> "run", asks |-> asks, try |-> FALSE]
Try(asks) == [do |-> "run", asks |-> asks, try |-> TRUE]
Do(what) == [do |-> what, asks |-> <<>>, try |-> FALSE]
Fault == <<Do("fault")>>
Answers == <<>>
Given(condition, steps) == IF condition THEN steps ELSE <<>>

Moves == <<Ask("send_ptz", "way", "moving")>>
Stops == <<Ask("send_ptz", "way", "still")>>

\* A request: pan is "none", "faint" (below the threshold of a move) or "move"; zoom
\* is "none" or the way, or the place, it is to go; token is what the action names.
Asked(service, action, pan, zoom, token) ==
    [service |-> service, action |-> action, pan |-> pan, zoom |-> zoom, token |-> token]

Services ==
    {"ptz", "device", "imaging", "osd", "users", "services", "neolink_ptz", "pir", "status-light", "battery", "reboot",
     "ai", "mqtt", "library", "login"}
IsWish(r) ==
    /\ r.service \in Services
    /\ r.service = "users" => r.action \in {"list", "add", "delete"}
    /\ r.service = "neolink_ptz" => r.action \in {"control", "assign", "preset", "zoom"}

-----------------------------------------------------------------------------
(* The PTZ service *)

ContinuousMove(r, caps) ==
    IF (r.pan = "move" /\ "pan_tilt" \notin caps) \/ (r.zoom # "none" /\ "zoom" \notin caps) THEN Fault
    ELSE <<Do("abort_zoom"), Do("abort_pt")>>
         \o Given(r.pan = "move", <<Run(Moves)>>)
         \o Given(r.pan = "none" /\ "pan_tilt" \in caps, <<Try(Stops)>>)
         \o Given(r.zoom # "none", <<Do("spawn_zoom")>>)

RelativeMove(r, caps) ==
    IF (r.pan = "move" /\ "pan_tilt" \notin caps) \/ (r.zoom # "none" /\ "zoom" \notin caps) THEN Fault
    ELSE <<Do("abort_zoom")>>
         \o Given(r.pan = "move", <<Do("spawn_pt")>>)
         \o Given(r.zoom # "none", <<Run(<<Read("get_zoom")>>), Run(zoom_to(r.zoom))>>)

AbsoluteMove(r, caps) ==
    IF r.pan # "none" \/ (r.zoom # "none" /\ "zoom" \notin caps) THEN Fault
    ELSE Given(r.zoom # "none", <<Run(<<Read("get_zoom")>>), Run(zoom_to(r.zoom))>>)

\* A mutant: the motor is stopped first.
StopThenCancel(r, caps) ==
    Given(r.pan = "move" /\ "pan_tilt" \in caps, <<Run(Stops), Do("abort_pt")>>)
    \o Given(r.zoom # "none", <<Do("abort_zoom")>>)

Stop(r, caps) ==
    Given(r.pan = "move" /\ "pan_tilt" \in caps, <<Do("abort_pt"), Run(Stops)>>)
    \o Given(r.zoom # "none", <<Do("abort_zoom")>>)

GetStatus(r, caps) == Given("zoom" \in caps, <<Try(<<Read("get_zoom")>>)>>)

GetPresets(r, caps) == Given("presets" \in caps, <<Run(<<Read("get_ptz_preset")>>)>>)

GotoPreset(r, caps) ==
    IF "presets" \notin caps \/ r.token = "none" THEN Fault
    ELSE <<Do("abort_zoom"), Do("abort_pt"), Run(<<Ask("moveto_ptz_preset", "way", "still")>>)>>

\* Without a token a free slot is looked for; "preset_0" names the home position.
SetPreset(r, caps) ==
    IF {"presets", "preset_write"} \subseteq caps
    THEN Given(r.token = "none", <<Run(<<Read("get_ptz_preset")>>), Do("allocate")>>)
         \o <<Run(<<Ask("set_ptz_preset", r.token, "mine")>>)>>
    ELSE Fault

GotoHomePosition(r, caps) ==
    IF "presets" \notin caps THEN Fault
    ELSE <<Run(<<Read("get_ptz_preset")>>), Do("find_home"), Do("abort_zoom"), Do("abort_pt"),
           Run(<<Ask("moveto_ptz_preset", "way", "still")>>)>>

SetHomePosition(r, caps) ==
    IF {"presets", "preset_write"} \subseteq caps
    THEN <<Try(<<Read("get_ptz_preset")>>), Run(<<Ask("set_ptz_preset", "home", "mine")>>)>>
    ELSE Fault

\* Without any of a motor, a lens and presets the lists are empty, the rest refused.
Ptz(r, caps) ==
    CASE r.action \in {"GetNodes", "GetConfigurations", "GetServiceCapabilities"} -> Answers
      [] r.action = "RemovePreset" \/ caps \cap {"pan_tilt", "zoom", "presets"} = {} -> Fault
      [] r.action \in {"GetNode", "GetConfiguration", "GetConfigurationOptions"} -> Answers
      [] r.action = "ContinuousMove" -> ContinuousMove(r, caps)
      [] r.action = "RelativeMove" -> RelativeMove(r, caps)
      [] r.action = "AbsoluteMove" -> AbsoluteMove(r, caps)
      [] r.action = "Stop" -> Stop(r, caps)
      [] r.action = "GetStatus" -> GetStatus(r, caps)
      [] r.action = "GetPresets" -> GetPresets(r, caps)
      [] r.action = "GotoPreset" -> GotoPreset(r, caps)
      [] r.action = "SetPreset" -> SetPreset(r, caps)
      [] r.action = "GotoHomePosition" -> GotoHomePosition(r, caps)
      [] r.action = "SetHomePosition" -> SetHomePosition(r, caps)
      [] OTHER -> Fault

\* What the two tasks that outlive their request do: a timed move starts the motor,
\* sleeps and stops it; a continuous zoom goes on to the end of the range.
TimedMove == <<Run(Moves), Run(Stops)>>
ZoomLoop == <<Run(<<Read("get_zoom")>>), Do("zoom_on"), Run(zoom_to("there")), Do("zoom_on")>>

-----------------------------------------------------------------------------
(* The device, imaging and OSD services *)

\* Nothing is locked while the block is read and written: that is the camera's
\* general_lock, which the two writers of the block hold throughout.

\* A mutant: the block is read before the lock is taken.
WriteGeneralReadFirst(field) == <<Run(<<Read("get_general")>>), Do("lock"), Run(<<Ask("set_general", field, "mine")>>)>>

WriteGeneral(field) == <<Do("lock"), Run(<<Read("get_general")>>), Run(<<Ask("set_general", field, "mine")>>)>>

\* A mutant: the sample that was taken of the clock is dropped before it is written.
WriteClockForgetFirst == <<Do("forget_clock")>> \o WriteGeneral("clock")

\* write_camera_clock
WriteClock == WriteGeneral("clock") \o <<Do("forget_clock")>>

\* read_camera_clock: the sample is locked throughout, and a recent one is enough.
ReadClock == <<Do("look_at_clock"), Try(<<Read("get_general")>>), Do("keep_clock")>>

\* drive_relay: the siren is a one-shot, the illuminator is left to the camera.
DriveRelay(relay, state) ==
    CASE relay = "floodlight" -> <<Run(<<Ask("set_floodlight_manual", "on", state)>>)>>
      [] relay = "siren" -> Given(state = "on", <<Run(<<Ask("siren", "played", "mine")>>)>>)
      [] relay = "ir" -> <<Run(irled_light_set(IF state = "on" THEN "auto" ELSE "close"))>>
      [] relay = "status" -> <<Run(led_light_set(IF state = "on" THEN "open" ELSE "close"))>>

RelayNeeds == [floodlight |-> "floodlight", siren |-> "siren", ir |-> "led_ctrl", status |-> "led_ctrl"]

\* relay_outputs: the siren is always offered.
Device(r, caps) ==
    CASE r.action = "GetSystemDateAndTime" -> ReadClock
      [] r.action = "SetSystemDateAndTime" -> IF r.token = "Manual" THEN WriteClock ELSE Fault
      [] r.action = "SystemReboot" -> <<Run(<<Ask("reboot", "asked", "mine")>>)>>
      [] r.action = "SetRelayOutputState" ->
             IF r.token \in DOMAIN RelayNeeds /\ RelayNeeds[r.token] \in caps \union {"siren"}
             THEN DriveRelay(r.token, r.zoom) ELSE Fault
      [] OTHER -> Answers

\* The IR cut filter is in when the illuminator is off; a lens is never moved without
\* an end, so a continuous focus move is refused and Stop has nothing to do.
LedOf == [ON |-> "close", OFF |-> "open", AUTO |-> "auto"]
Imaging(r, caps) ==
    CASE r.action = "SetImagingSettings" ->
             IF r.token = "none" THEN Answers
             ELSE IF "led_ctrl" \in caps /\ r.token \in DOMAIN LedOf THEN <<Run(irled_light_set(LedOf[r.token]))>>
             ELSE Fault
      [] r.action = "GetImagingSettings" -> Given("led_ctrl" \in caps, <<Try(<<Read("get_ledstate")>>)>>)
      [] r.action = "Move" ->
             IF "focus" \notin caps \/ r.zoom = "none" THEN Fault
             ELSE Given(r.zoom \in {"in", "out"}, <<Run(<<Read("get_zoom")>>)>>) \o <<Run(focus_to(r.zoom))>>
      [] OTHER -> Answers

\* apply_set_osd: the token names the field that is changed; what it reads before it
\* refuses another is left out.
Osd(r, caps) ==
    CASE "osd" \notin caps -> IF r.action \in {"GetOSDs", "GetOSDOptions"} THEN Answers ELSE Fault
      [] r.action = "SetOSD" ->
             <<Try(<<Read("get_general")>>)>> \o (IF r.token \in {"name", "dates"} THEN WriteGeneral(r.token) ELSE Fault)
      [] OTHER -> <<Try(<<Read("get_general")>>)>>

-----------------------------------------------------------------------------
(* The one-shot commands, and the clock that a new login may set *)

UsersCommand(r) ==
    CASE r.action = "list" -> <<Run(<<Read("get_users")>>)>>
      [] r.action = "add" -> <<Run(<<Ask("get_users", r.token, "there")>> \o set_user(r.token, "there"))>>
      [] r.action = "delete" -> <<Run(<<Ask("get_users", r.token, "away")>> \o set_user(r.token, "away"))>>

\* ONVIF does not work without RTSP: it is switched off with it, and RTSP on with it.
ServicesCommand(r) ==
    CASE r.token = "rtsp" /\ r.action = "off" -> <<Run(set_service("onvif", "off") \o set_service("rtsp", "off"))>>
      [] r.token = "onvif" /\ r.action = "on" -> <<Run(set_service("rtsp", "on") \o set_service("onvif", "on"))>>
      [] r.action = "get" -> <<Run(<<Read("get_services")>>)>>
      [] OTHER -> <<Run(set_service(r.token, r.action))>>

PtzCommand(r) ==
    CASE r.action = "control" -> <<Run(Moves), Run(Stops)>>
      [] r.action = "assign" -> <<Run(<<Ask("set_ptz_preset", r.token, "mine")>>)>>
      [] r.action = "preset" -> <<Run(IF r.token = "none" THEN <<Read("get_ptz_preset")>>
                                      ELSE <<Ask("moveto_ptz_preset", "way", "still")>>)>>
      [] r.action = "zoom" -> <<Run(zoom_to(r.zoom))>>

PirCommand(r) == <<Run(IF r.token = "none" THEN <<Read("get_pirstate")>> ELSE pir_set(r.token))>>
StatusLedCommand(r) == <<Run(led_light_set(r.token))>>
BatteryCommand == <<Run(<<Read("battery_info")>>)>>
RebootCommand == <<Run(<<Ask("reboot", "asked", "mine")>>)>>

\* The cry detection shares its block with the auto-tracking; an alarm is read and
\* written back in two tasks.
AiCommand(r) ==
    CASE r.action = "cry" -> <<Run(set_cry_detection("mine"))>>
      [] r.action = "alarm" -> <<Run(<<Read("get_ai_alarm")>>), Run(<<Ask("set_ai_alarm", r.token, "mine")>>)>>
      [] OTHER -> <<Run(<<Read("get_ai_cfg")>>)>>

\* A mutant: the second stop is only sent when the first went well.
MqttMoveOrGiveUp == <<Run(Moves \o Stops), Run(Stops)>>

\* control/ptz of src/mqtt/mod.rs: one task moves, sleeps and stops, and when the
\* request is over, however it ended, the stop is sent once more.
MqttMove == <<Run(Moves \o Stops), Do("drop_stop")>>

MqttCommand(r) ==
    IF r.action = "ptz" THEN MqttMove ELSE <<Run(flightlight_tasks_enable(r.token))>>

\* What the library offers and no command of neolink uses.
LibraryCall(r) == <<Run(email_set(r.token))>>

\* update_camera_time, of a new login.
LoginClock == <<Run(<<Read("get_time"), Ask("set_time", "clock", "mine")>>)>>

Program(r, caps) ==
    CASE r.service = "ptz" -> Ptz(r, caps)
      [] r.service = "device" -> Device(r, caps)
      [] r.service = "imaging" -> Imaging(r, caps)
      [] r.service = "osd" -> Osd(r, caps)
      [] r.service = "users" -> UsersCommand(r)
      [] r.service = "services" -> ServicesCommand(r)
      [] r.service = "neolink_ptz" -> PtzCommand(r)
      [] r.service = "pir" -> PirCommand(r)
      [] r.service = "status-light" -> StatusLedCommand(r)
      [] r.service = "battery" -> BatteryCommand
      [] r.service = "reboot" -> RebootCommand
      [] r.service = "ai" -> AiCommand(r)
      [] r.service = "mqtt" -> MqttCommand(r)
      [] r.service = "library" -> LibraryCall(r)
      [] r.service = "login" -> LoginClock
=============================================================================
