----------------------------- MODULE MCControl -----------------------------
(* Two requests at a time of those that are made of the same part of a camera. *)
EXTENDS Control

Alike == Permutations(Jobs)
MCTasks == {"t", "u"}
All == {"pan_tilt", "zoom", "presets", "preset_write", "led_ctrl", "floodlight", "focus", "osd"}
MCCaps == {All, {"zoom", "presets", "led_ctrl"}, {}}
Able == {"ledState_ro", "ledState_rw", "rfAlarm_ro", "rfAlarm_rw", "general_ro", "general_rw",
         "control_ro", "control_rw", "reboot_rw"}
MCRights == {Able, {"general_ro", "control_ro"}}

PtzWish(action, pan, place, token) == Asked("ptz", action, pan, place, token)
MoveDesk ==
    {PtzWish("ContinuousMove", "move", "none", "none"), PtzWish("ContinuousMove", "none", "in", "none"),
     PtzWish("ContinuousMove", "faint", "none", "none"), PtzWish("RelativeMove", "move", "none", "none"),
     PtzWish("RelativeMove", "none", "out", "none"), PtzWish("AbsoluteMove", "none", "tele", "none"),
     PtzWish("AbsoluteMove", "none", "none", "none"), PtzWish("Stop", "move", "in", "none"),
     PtzWish("Stop", "none", "in", "none"), PtzWish("GetStatus", "none", "none", "none"),
     PtzWish("GotoPreset", "none", "none", "one"), Asked("mqtt", "ptz", "move", "none", "none"),
     Asked("neolink_ptz", "control", "move", "none", "none"), Asked("neolink_ptz", "zoom", "none", "wide", "none")}
PresetDesk ==
    {PtzWish("GetPresets", "none", "none", "none"), PtzWish("GotoPreset", "none", "none", "none"),
     PtzWish("SetPreset", "none", "none", "none"), PtzWish("SetPreset", "none", "none", "one"),
     PtzWish("SetPreset", "none", "none", "two"), PtzWish("RemovePreset", "none", "none", "one"),
     PtzWish("GotoHomePosition", "none", "none", "none"), PtzWish("SetHomePosition", "none", "none", "none"),
     PtzWish("GetNodes", "none", "none", "none"), PtzWish("GetNode", "none", "none", "none"),
     Asked("neolink_ptz", "assign", "none", "none", "two"), Asked("neolink_ptz", "preset", "none", "none", "none"),
     Asked("neolink_ptz", "preset", "none", "none", "one"), PtzWish("RelativeMove", "move", "none", "none")}
Wish(service, action, token) == Asked(service, action, "none", "none", token)
GeneralDesk ==
    {Wish("device", "SetSystemDateAndTime", "Manual"), Wish("device", "SetSystemDateAndTime", "NTP"),
     Wish("device", "GetSystemDateAndTime", "none"), Wish("osd", "SetOSD", "name"), Wish("osd", "SetOSD", "dates"),
     Wish("osd", "SetOSD", "other"), Wish("osd", "GetOSDs", "none"), Wish("login", "time", "none")}
LightDesk ==
    {Asked("device", "SetRelayOutputState", "none", "on", relay) : relay \in DOMAIN RelayNeeds}
    \union {Asked("device", "SetRelayOutputState", "none", "off", relay) : relay \in {"ir", "siren", "other"}}
    \union {Wish("imaging", "SetImagingSettings", mode) : mode \in {"ON", "AUTO", "SEPIA", "none"}}
    \union {Wish("imaging", "GetImagingSettings", "none"), Asked("imaging", "Move", "none", "in", "none"),
            Asked("imaging", "Move", "none", "near", "none"), Asked("imaging", "Move", "none", "none", "none"),
            Wish("imaging", "Stop", "none"), Wish("status-light", "set", "close")}
HouseDesk ==
    {Wish("users", action, "guest") : action \in {"list", "add", "delete"}}
    \union {Wish("services", "on", "onvif"), Wish("services", "off", "rtsp"), Wish("services", "on", "rtsp"),
            Wish("services", "get", "rtsp"), Wish("ai", "cry", "none"), Wish("ai", "alarm", "zone"), Wish("ai", "cfg", "none"),
            Wish("pir", "set", "on"), Wish("pir", "get", "none"), Wish("battery", "get", "none"),
            Wish("mqtt", "floodlight_tasks", "on"), Wish("library", "email", "on"), Wish("reboot", "now", "none"), Wish("device", "SystemReboot", "none"), Wish("device", "GetHostname", "none")}
MCDesks == {MoveDesk, PresetDesk, GeneralDesk, LightDesk, HouseDesk}
=============================================================================
