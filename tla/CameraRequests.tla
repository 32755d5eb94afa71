--------------------------- MODULE CameraRequests ---------------------------
(***************************************************************************)
(* What BcCamera can be asked for, crates/core/src/bc_protocol/*.rs: of    *)
(* each request the ability of the logged-in user it checks first, whether *)
(* it reads a block of the camera's settings, writes a whole block or      *)
(* makes the camera do something, which block that is, and whether half a  *)
(* second without a reply counts as success.  Of each method that is made  *)
(* of several requests, the requests in the order they are made.           *)
(***************************************************************************)
EXTENDS Sequences, TLC

Request(right, does, block) == [right |-> right, does |-> does, block |-> block, mute |-> FALSE]
Reads(right, block) == Request(right, "get", block)
Writes(right, block) == Request(right, "put", block)
Acts(right, block) == Request(right, "act", block)
Mute(request) == [request EXCEPT !.mute = TRUE]

LedRequests == [get_ledstate |-> Reads("ledState_ro", "led"), set_ledstate |-> Mute(Writes("ledState_rw", "led"))]
PirRequests == [get_pirstate |-> Reads("rfAlarm_ro", "pir"), set_pirstate |-> Mute(Writes("rfAlarm_rw", "pir"))]
FloodlightRequests ==
    [set_floodlight_manual |-> Mute(Acts("any", "light")),
     get_flightlight_tasks |-> Reads("any", "tasks"), set_flightlight_tasks |-> Writes("any", "tasks")]
EmailRequests == [get_email_task |-> Reads("any", "email"), set_email_task |-> Acts("any", "email")]
GeneralRequests ==
    [get_general |-> Reads("general_ro", "general"), set_general |-> Writes("general_rw", "general")]

\* The clock alone: the other fields of the block are left out of the message.
TimeRequests == [get_time |-> Reads("general_ro", "general"), set_time |-> Acts("general_rw", "general")]
ServiceRequests == [get_services |-> Reads("any", "ports"), set_services |-> Mute(Acts("any", "ports"))]
UserRequests == [get_users |-> Reads("any", "users"), set_users |-> Mute(Acts("any", "users"))]
PtzRequests ==
    [send_ptz |-> Acts("control_rw", "motor"), moveto_ptz_preset |-> Acts("control_rw", "motor"),
     get_ptz_preset |-> Reads("control_rw", "presets"), set_ptz_preset |-> Acts("control_rw", "presets")]
LensRequests ==
    [get_zoom |-> Reads("control_ro", "lens"), start_zoom_focus |-> Acts("control_rw", "lens")]
PowerRequests == [siren |-> Acts("any", "siren"), reboot |-> Acts("reboot_rw", "power")]
BatteryRequests == [battery_info |-> Reads("any", "battery")]
AiRequests ==
    [get_ai_alarm |-> Reads("any", "alarm"), set_ai_alarm |-> Mute(Writes("any", "alarm")),
     get_ai_cfg |-> Reads("any", "ai"), set_ai_cfg |-> Mute(Writes("any", "ai"))]

\* All of them together (of a name that is in both, what f has), as f @@ g would be.
Beside(f, g) == [name \in DOMAIN f \union DOMAIN g |-> IF name \in DOMAIN f THEN f[name] ELSE g[name]]

SettingsRequests ==
    Beside(LedRequests, Beside(PirRequests, Beside(FloodlightRequests, Beside(EmailRequests,
        Beside(ServiceRequests, Beside(UserRequests, AiRequests))))))
Requests ==
    Beside(GeneralRequests, Beside(TimeRequests, Beside(PtzRequests, Beside(LensRequests,
        Beside(PowerRequests, Beside(BatteryRequests, SettingsRequests))))))

-----------------------------------------------------------------------------
\* One request of a method: its name, the field it changes and what to; "mine" is a
\* value of the caller's own.
Ask(name, field, value) == [name |-> name, field |-> field, value |-> value]
Read(name) == Ask(name, "all", "none")

\* A block is read, one field of it changed and the whole of it written back.
Changes(get, set, field, value) == <<Read(get), Ask(set, field, value)>>

irled_light_set(state) == Changes("get_ledstate", "set_ledstate", "ir", state)
led_light_set(state) == Changes("get_ledstate", "set_ledstate", "status", state)
pir_set(state) == Changes("get_pirstate", "set_pirstate", "on", state)
set_cry_detection(level) == Changes("get_ai_cfg", "set_ai_cfg", "cry", level)

\* Read once to see whether it is so already, and then read again to change it.
flightlight_tasks_enable(state) ==
    <<Ask("get_flightlight_tasks", "on", state)>> \o Changes("get_flightlight_tasks", "set_flightlight_tasks", "on", state)

email_set(state) == <<Ask("set_email_task", "on", state)>>

\* The ports of all services are read together; those of one are written alone.
set_service(service, state) == <<Read("get_services"), Ask("set_services", service, state)>>

\* The list is read, and sent back with one user of it marked to be added or deleted.
set_user(user, state) == <<Ask("get_users", user, state), Ask("set_users", user, state)>>

\* A user that is there is not added, one that is not is not deleted; and a night
\* mode that is as it should be is left.
AlreadySo(ask, seen) == ask.name \in {"get_users", "get_flightlight_tasks"} /\ ask.field # "all" /\ seen[ask.field] = ask.value
Declined(ask, seen) == ask.name = "get_users" /\ AlreadySo(ask, seen)
Settled(ask, seen) == ask.name = "get_flightlight_tasks" /\ AlreadySo(ask, seen)

\* The lens is driven to a place within the range it reports.
zoom_to(place) == <<Read("get_zoom"), Ask("start_zoom_focus", "zoom", place)>>
focus_to(place) == <<Read("get_zoom"), Ask("start_zoom_focus", "focus", place)>>
=============================================================================
