----------------------------- MODULE ControlProofs -----------------------------
(***************************************************************************)
(* The safety of those who control a camera, for any number of requests   *)
(* and background tasks, of any of the services, with any failures,        *)
(* repetitions and reloads.                                                *)
(*                                                                         *)
(* The programs come first: of all that Program gives, only four kinds of  *)
(* program lock, allocate or look at the clock, and all others keep to     *)
(* PlainSteps.  Every worker is at a step of such a program (WorkersFit)   *)
(* and a task is in its slot, or was told to end (SlotsFit).  What a       *)
(* worker has read is then tied to what the camera holds: a slot that was  *)
(* found free was home only if the others were used (PresetsFit); the one  *)
(* that has general_lock, and it alone, has seen the general block as it   *)
(* is (GeneralFits); a sample of the clock, one that is being taken        *)
(* included, says what the camera does, unless one that set the clock has  *)
(* yet to drop it (ClockFits); and once a Stop has cancelled the timed     *)
(* move, nothing moves the motor (CalmFits) but what its task was about to *)
(* ask for in the poll that the abort found it in.                         *)
(***************************************************************************)
EXTENDS Control, SequenceTheorems, TLAPS

-----------------------------------------------------------------------------
(* What the camera is asked for *)

SettingsNames ==
    {"get_ledstate", "set_ledstate", "get_pirstate", "set_pirstate", "set_floodlight_manual", "get_flightlight_tasks",
     "set_flightlight_tasks", "get_email_task", "set_email_task", "get_services", "set_services", "get_users", "set_users",
     "get_ai_alarm", "set_ai_alarm", "get_ai_cfg", "set_ai_cfg"}
QuietNames == SettingsNames \union {"get_zoom", "start_zoom_focus", "siren", "reboot", "battery_info"}

LEMMA KindsOfRequest ==
  ASSUME NEW right, NEW block
  PROVE /\ Reads(right, block).does = "get" /\ Reads(right, block).block = block
        /\ Writes(right, block).does = "put" /\ Writes(right, block).block = block
        /\ Acts(right, block).does = "act" /\ Acts(right, block).block = block
        /\ Mute(Writes(right, block)).does = "put" /\ Mute(Writes(right, block)).block = block
        /\ Mute(Acts(right, block)).does = "act" /\ Mute(Acts(right, block)).block = block
<1>1. \A does : Request(right, does, block).does = does /\ Request(right, does, block).block = block
              /\ DOMAIN Request(right, does, block) = {"right", "does", "block", "mute"}
  BY DEF Request
<1>2. \A r : DOMAIN r = {"right", "does", "block", "mute"} => Mute(r).does = r.does /\ Mute(r).block = r.block
  BY DEF Mute
<1> QED BY <1>1, <1>2 DEF Reads, Writes, Acts

LEMMA BesideIs ==
  ASSUME NEW f, NEW g
  PROVE /\ DOMAIN Beside(f, g) = DOMAIN f \union DOMAIN g
        /\ \A n \in DOMAIN f : Beside(f, g)[n] = f[n]
        /\ \A n \in DOMAIN g : n \notin DOMAIN f => Beside(f, g)[n] = g[n]
  BY DEF Beside

\* Requests of these names, none of which is about the general block, the presets or the motor.
QuietBlocks == {"led", "pir", "light", "tasks", "email", "ports", "users", "alarm", "ai", "lens", "siren", "power", "battery"}
Quiet(f, names) == DOMAIN f = names /\ \A n \in names : f[n].block \in QuietBlocks

LEMMA QuietBeside ==
  ASSUME NEW f, NEW g, NEW F, NEW G, Quiet(f, F), Quiet(g, G)
  PROVE  Quiet(Beside(f, g), F \union G)
  BY DEF Beside, Quiet

LEMMA QuietOnes ==
  /\ Quiet(LedRequests, {"get_ledstate", "set_ledstate"})
  /\ Quiet(PirRequests, {"get_pirstate", "set_pirstate"})
  /\ Quiet(FloodlightRequests, {"set_floodlight_manual", "get_flightlight_tasks", "set_flightlight_tasks"})
  /\ Quiet(EmailRequests, {"get_email_task", "set_email_task"})
  /\ Quiet(ServiceRequests, {"get_services", "set_services"})
  /\ Quiet(UserRequests, {"get_users", "set_users"})
  /\ Quiet(AiRequests, {"get_ai_alarm", "set_ai_alarm", "get_ai_cfg", "set_ai_cfg"})
  /\ Quiet(LensRequests, {"get_zoom", "start_zoom_focus"})
  /\ Quiet(PowerRequests, {"siren", "reboot"})
  /\ Quiet(BatteryRequests, {"battery_info"})
<1>1. Quiet(LedRequests, {"get_ledstate", "set_ledstate"})
  BY KindsOfRequest DEF LedRequests, Quiet, QuietBlocks
<1>2. Quiet(PirRequests, {"get_pirstate", "set_pirstate"})
  BY KindsOfRequest DEF PirRequests, Quiet, QuietBlocks
<1>3. Quiet(FloodlightRequests, {"set_floodlight_manual", "get_flightlight_tasks", "set_flightlight_tasks"})
  BY KindsOfRequest DEF FloodlightRequests, Quiet, QuietBlocks
<1>4. Quiet(EmailRequests, {"get_email_task", "set_email_task"})
  BY KindsOfRequest DEF EmailRequests, Quiet, QuietBlocks
<1>5. Quiet(ServiceRequests, {"get_services", "set_services"})
  BY KindsOfRequest DEF ServiceRequests, Quiet, QuietBlocks
<1>6. Quiet(UserRequests, {"get_users", "set_users"})
  BY KindsOfRequest DEF UserRequests, Quiet, QuietBlocks
<1>7. Quiet(AiRequests, {"get_ai_alarm", "set_ai_alarm", "get_ai_cfg", "set_ai_cfg"})
  BY KindsOfRequest DEF AiRequests, Quiet, QuietBlocks
<1>8. Quiet(LensRequests, {"get_zoom", "start_zoom_focus"})
  BY KindsOfRequest DEF LensRequests, Quiet, QuietBlocks
<1>9. Quiet(PowerRequests, {"siren", "reboot"})
  BY KindsOfRequest DEF PowerRequests, Quiet, QuietBlocks
<1>10. Quiet(BatteryRequests, {"battery_info"})
  BY KindsOfRequest DEF BatteryRequests, Quiet, QuietBlocks
<1> QED BY <1>1, <1>2, <1>3, <1>4, <1>5, <1>6, <1>7, <1>8, <1>9, <1>10

LEMMA SettingsAreQuiet == Quiet(SettingsRequests, SettingsNames)
<1>1. \A F : Quiet(AiRequests, F) => Quiet(Beside(UserRequests, AiRequests), {"get_users", "set_users"} \union F)
  BY QuietOnes, QuietBeside
<1>2. \A f, F : Quiet(f, F) => Quiet(Beside(ServiceRequests, f), {"get_services", "set_services"} \union F)
  BY QuietOnes, QuietBeside
<1>3. \A f, F : Quiet(f, F) => Quiet(Beside(EmailRequests, f), {"get_email_task", "set_email_task"} \union F)
  BY QuietOnes, QuietBeside
<1>4. \A f, F : Quiet(f, F) => Quiet(Beside(FloodlightRequests, f),
                                      {"set_floodlight_manual", "get_flightlight_tasks", "set_flightlight_tasks"} \union F)
  BY QuietOnes, QuietBeside
<1>5. \A f, F : Quiet(f, F) => Quiet(Beside(PirRequests, f), {"get_pirstate", "set_pirstate"} \union F)
  BY QuietOnes, QuietBeside
<1>6. \A f, F : Quiet(f, F) => Quiet(Beside(LedRequests, f), {"get_ledstate", "set_ledstate"} \union F)
  BY QuietOnes, QuietBeside
<1>7. Quiet(SettingsRequests,
            {"get_ledstate", "set_ledstate"} \union ({"get_pirstate", "set_pirstate"}
              \union ({"set_floodlight_manual", "get_flightlight_tasks", "set_flightlight_tasks"}
              \union ({"get_email_task", "set_email_task"} \union ({"get_services", "set_services"}
              \union ({"get_users", "set_users"} \union {"get_ai_alarm", "set_ai_alarm", "get_ai_cfg", "set_ai_cfg"}))))))
  BY <1>1, <1>2, <1>3, <1>4, <1>5, <1>6, QuietOnes DEF SettingsRequests
<1> QED BY <1>7 DEF SettingsNames

\* What is asked for is of another block, or one of these.
LEMMA RequestsAre ==
  /\ \A n \in QuietNames : Requests[n].block \in QuietBlocks
  /\ Requests["get_general"].does = "get" /\ Requests["get_general"].block = "general"
  /\ Requests["set_general"].does = "put" /\ Requests["set_general"].block = "general"
  /\ Requests["get_time"].does = "get" /\ Requests["get_time"].block = "general"
  /\ Requests["set_time"].does = "act" /\ Requests["set_time"].block = "general"
  /\ Requests["send_ptz"].does = "act" /\ Requests["send_ptz"].block = "motor"
  /\ Requests["send_ptz"].mute = FALSE
  /\ Requests["moveto_ptz_preset"].does = "act" /\ Requests["moveto_ptz_preset"].block = "motor"
  /\ Requests["get_ptz_preset"].does = "get" /\ Requests["get_ptz_preset"].block = "presets"
  /\ Requests["set_ptz_preset"].does = "act" /\ Requests["set_ptz_preset"].block = "presets"
<1> DEFINE rest == Beside(LensRequests, Beside(PowerRequests, Beside(BatteryRequests, SettingsRequests)))
           moves == Beside(PtzRequests, rest)
           times == Beside(TimeRequests, moves)
<1>1. Quiet(rest, QuietNames)
  <2>1. \A f, F : Quiet(f, F) => Quiet(Beside(BatteryRequests, f), {"battery_info"} \union F)
    BY QuietOnes, QuietBeside
  <2>2. \A f, F : Quiet(f, F) => Quiet(Beside(PowerRequests, f), {"siren", "reboot"} \union F)
    BY QuietOnes, QuietBeside
  <2>3. \A f, F : Quiet(f, F) => Quiet(Beside(LensRequests, f), {"get_zoom", "start_zoom_focus"} \union F)
    BY QuietOnes, QuietBeside
  <2>4. Quiet(rest, {"get_zoom", "start_zoom_focus"} \union ({"siren", "reboot"} \union ({"battery_info"} \union SettingsNames)))
    BY <2>1, <2>2, <2>3, SettingsAreQuiet
  <2> HIDE DEF rest
  <2> QED BY <2>4 DEF QuietNames
<1>2. Requests = Beside(GeneralRequests, times)
  BY DEF Requests
<1> HIDE DEF rest
<1>3. /\ DOMAIN PtzRequests = {"send_ptz", "moveto_ptz_preset", "get_ptz_preset", "set_ptz_preset"}
      /\ PtzRequests["send_ptz"].does = "act" /\ PtzRequests["send_ptz"].block = "motor"
      /\ PtzRequests["moveto_ptz_preset"].does = "act" /\ PtzRequests["moveto_ptz_preset"].block = "motor"
      /\ PtzRequests["get_ptz_preset"].does = "get" /\ PtzRequests["get_ptz_preset"].block = "presets"
      /\ PtzRequests["set_ptz_preset"].does = "act" /\ PtzRequests["set_ptz_preset"].block = "presets"
  BY KindsOfRequest DEF PtzRequests
<1>4. /\ DOMAIN TimeRequests = {"get_time", "set_time"}
      /\ TimeRequests["get_time"].does = "get" /\ TimeRequests["get_time"].block = "general"
      /\ TimeRequests["set_time"].does = "act" /\ TimeRequests["set_time"].block = "general"
  BY KindsOfRequest DEF TimeRequests
<1>5. /\ DOMAIN GeneralRequests = {"get_general", "set_general"}
      /\ GeneralRequests["get_general"].does = "get" /\ GeneralRequests["get_general"].block = "general"
      /\ GeneralRequests["set_general"].does = "put" /\ GeneralRequests["set_general"].block = "general"
  BY KindsOfRequest DEF GeneralRequests
<1>6. \A n \in QuietNames : n \notin DOMAIN PtzRequests \union DOMAIN TimeRequests \union DOMAIN GeneralRequests
  BY <1>3, <1>4, <1>5 DEF QuietNames, SettingsNames
<1>7. /\ DOMAIN rest = QuietNames /\ \A n \in QuietNames : rest[n].block \in QuietBlocks
  BY <1>1 DEF Quiet
<1>8. /\ DOMAIN moves = DOMAIN PtzRequests \union QuietNames
      /\ \A n \in DOMAIN PtzRequests : moves[n] = PtzRequests[n]
      /\ \A n \in QuietNames : moves[n] = rest[n]
  <2>1. /\ DOMAIN moves = DOMAIN PtzRequests \union DOMAIN rest
        /\ \A n \in DOMAIN PtzRequests : moves[n] = PtzRequests[n]
        /\ \A n \in DOMAIN rest : n \notin DOMAIN PtzRequests => moves[n] = rest[n]
    BY BesideIs
  <2> QED BY <2>1, <1>6, <1>7
<1> HIDE DEF moves
<1>9. /\ DOMAIN times = DOMAIN TimeRequests \union DOMAIN PtzRequests \union QuietNames
      /\ \A n \in DOMAIN TimeRequests : times[n] = TimeRequests[n]
      /\ \A n \in DOMAIN PtzRequests : times[n] = PtzRequests[n]
      /\ \A n \in QuietNames : times[n] = rest[n]
  <2>1. /\ DOMAIN times = DOMAIN TimeRequests \union DOMAIN moves
        /\ \A n \in DOMAIN TimeRequests : times[n] = TimeRequests[n]
        /\ \A n \in DOMAIN moves : n \notin DOMAIN TimeRequests => times[n] = moves[n]
    BY BesideIs
  <2> QED BY <2>1, <1>3, <1>4, <1>6, <1>8
<1> HIDE DEF times
<1>10. /\ \A n \in DOMAIN GeneralRequests : Requests[n] = GeneralRequests[n]
       /\ \A n \in DOMAIN TimeRequests : Requests[n] = TimeRequests[n]
       /\ \A n \in DOMAIN PtzRequests : Requests[n] = PtzRequests[n]
       /\ \A n \in QuietNames : Requests[n] = rest[n]
  <2>1. /\ \A n \in DOMAIN GeneralRequests : Requests[n] = GeneralRequests[n]
        /\ \A n \in DOMAIN times : n \notin DOMAIN GeneralRequests => Requests[n] = times[n]
    <3>1. /\ \A n \in DOMAIN GeneralRequests : Beside(GeneralRequests, times)[n] = GeneralRequests[n]
          /\ \A n \in DOMAIN times : n \notin DOMAIN GeneralRequests => Beside(GeneralRequests, times)[n] = times[n]
      BY BesideIs
    <3> QED BY <1>2, <3>1
  <2> QED BY <2>1, <1>3, <1>4, <1>5, <1>6, <1>9
<1>11. PtzRequests["send_ptz"].mute = FALSE
  BY DEF PtzRequests, Acts, Request
<1> QED BY <1>3, <1>4, <1>5, <1>7, <1>10, <1>11

-----------------------------------------------------------------------------
(* The programs *)

\* What fields and values may be.
TheirWords ==
    {"all", "none", "mine", "way", "moving", "still", "there", "away", "on", "off", "auto", "close", "open", "ir", "status",
     "cry", "played", "asked", "zoom", "focus", "home", "rtsp", "onvif", "guest", "clock", "name", "dates"}
Words == TheirWords \union {w.token : w \in UNION Desks} \union {w.zoom : w \in UNION Desks}
    \union {w.action : w \in UNION Desks}

\* Steps that ask for these things; what they do else to the entry.
PlainAsks ==
    [name : QuietNames \union {"get_general", "get_ptz_preset"}, field : Words, value : Words]
    \union [name : {"set_ptz_preset"}, field : Words, value : {"mine"}]
    \union [name : {"send_ptz", "moveto_ptz_preset"}, field : {"way"}, value : Words]
GeneralAsks == [name : {"get_time", "set_general", "set_time"}, field : Words, value : Words]
Calls(asks) == [do : {"run"}, asks : Seq(asks) \ {<<>>}, try : BOOLEAN]
PlainDoings == {"fault", "abort_zoom", "abort_pt", "find_home", "drop_stop"}
Doings == PlainDoings \union {"spawn_zoom", "spawn_pt", "zoom_on", "lock", "allocate", "look_at_clock", "keep_clock", "forget_clock"}
Notes(doings) == [do : doings, asks : {<<>>}, try : {FALSE}]
PlainSteps == Calls(PlainAsks) \union Notes(PlainDoings)
MovingSteps == PlainSteps \union Notes({"spawn_zoom", "spawn_pt"})
AllSteps == Calls(PlainAsks \union GeneralAsks) \union Notes(Doings)

\* The programs that the properties are about.
Storing == <<Run(<<Read("get_ptz_preset")>>), Do("allocate"), Run(<<Ask("set_ptz_preset", "none", "mine")>>)>>
Titling(field) ==
    <<Try(<<Read("get_general")>>), Do("lock"), Run(<<Read("get_general")>>), Run(<<Ask("set_general", field, "mine")>>)>>

LEMMA PlainOnes ==
  /\ \A n \in QuietNames \union {"get_general", "get_ptz_preset"} : Read(n) \in PlainAsks
  /\ \A n \in QuietNames, f \in Words, v \in Words : Ask(n, f, v) \in PlainAsks
  /\ \A f \in Words : Ask("set_ptz_preset", f, "mine") \in PlainAsks
  /\ \A v \in Words : Ask("send_ptz", "way", v) \in PlainAsks /\ Ask("moveto_ptz_preset", "way", v) \in PlainAsks
<1>1. \A n \in QuietNames \union {"get_general", "get_ptz_preset"}, f \in Words, v \in Words : Ask(n, f, v) \in PlainAsks
  BY DEF Ask, PlainAsks
<1>2. \A f \in Words : Ask("set_ptz_preset", f, "mine") \in PlainAsks
  BY DEF Ask, PlainAsks
<1>3. \A v \in Words : Ask("send_ptz", "way", v) \in PlainAsks /\ Ask("moveto_ptz_preset", "way", v) \in PlainAsks
  BY DEF Ask, PlainAsks
<1> QED BY <1>1, <1>2, <1>3 DEF Read, Words, TheirWords

LEMMA PlainCalls ==
  ASSUME NEW a \in PlainAsks, NEW b \in PlainAsks, NEW c \in PlainAsks, NEW d \in PlainAsks
  PROVE /\ Run(<<a>>) \in PlainSteps /\ Try(<<a>>) \in PlainSteps
        /\ Run(<<a, b>>) \in PlainSteps /\ Run(<<a, b, c>>) \in PlainSteps /\ Run(<<a, b, c, d>>) \in PlainSteps
  BY DEF Run, Try, PlainSteps, Calls

LEMMA PlainNotes == \A what \in PlainDoings : Do(what) \in PlainSteps
  BY DEF Do, PlainSteps, Notes

LEMMA JoinedIs ==
  ASSUME NEW S, NEW s \in Seq(S), NEW t \in Seq(S), NEW u \in Seq(S), Len(u) = Len(s) + Len(t),
         \A i \in 1 .. Len(u) : u[i] = IF i <= Len(s) THEN s[i] ELSE t[i - Len(s)]
  PROVE  s \o t = u
<1>1. s \o t \in Seq(S) /\ Len(s \o t) = Len(u)
  BY ConcatProperties
<1>2. \A i \in 1 .. Len(s \o t) : (s \o t)[i] = u[i]
  BY <1>1, ConcatProperties
<1> QED BY <1>1, <1>2, SeqEqual

LEMMA JoinedOneOne == ASSUME NEW a, NEW b PROVE <<a>> \o <<b>> = <<a, b>>
<1> DEFINE S == {a, b}
           s == <<a>>
           t == <<b>>
           u == <<a, b>>
<1>1. s \in Seq(S) /\ t \in Seq(S) /\ u \in Seq(S) /\ Len(u) = Len(s) + Len(t)
  OBVIOUS
<1>2. \A i \in 1 .. Len(u) : u[i] = IF i <= Len(s) THEN s[i] ELSE t[i - Len(s)]
  OBVIOUS
<1> HIDE DEF S, s, t, u
<1>3. s \o t = u
  BY <1>1, <1>2, JoinedIs
<1> QED BY <1>3 DEF s, t, u

LEMMA JoinedTwoOne == ASSUME NEW a, NEW b, NEW c PROVE <<a, b>> \o <<c>> = <<a, b, c>>
<1> DEFINE S == {a, b, c}
           s == <<a, b>>
           t == <<c>>
           u == <<a, b, c>>
<1>1. s \in Seq(S) /\ t \in Seq(S) /\ u \in Seq(S) /\ Len(u) = Len(s) + Len(t)
  OBVIOUS
<1>2. \A i \in 1 .. Len(u) : u[i] = IF i <= Len(s) THEN s[i] ELSE t[i - Len(s)]
  OBVIOUS
<1> HIDE DEF S, s, t, u
<1>3. s \o t = u
  BY <1>1, <1>2, JoinedIs
<1> QED BY <1>3 DEF s, t, u

LEMMA JoinedOneThree == ASSUME NEW a, NEW b, NEW c, NEW d PROVE <<a>> \o <<b, c, d>> = <<a, b, c, d>>
<1> DEFINE S == {a, b, c, d}
           s == <<a>>
           t == <<b, c, d>>
           u == <<a, b, c, d>>
<1>1. s \in Seq(S) /\ t \in Seq(S) /\ u \in Seq(S) /\ Len(u) = Len(s) + Len(t)
  OBVIOUS
<1>2. \A i \in 1 .. Len(u) : u[i] = IF i <= Len(s) THEN s[i] ELSE t[i - Len(s)]
  OBVIOUS
<1> HIDE DEF S, s, t, u
<1>3. s \o t = u
  BY <1>1, <1>2, JoinedIs
<1> QED BY <1>3 DEF s, t, u

LEMMA JoinedThreeOne == ASSUME NEW a, NEW b, NEW c, NEW d PROVE <<a, b, c>> \o <<d>> = <<a, b, c, d>>
<1> DEFINE S == {a, b, c, d}
           s == <<a, b, c>>
           t == <<d>>
           u == <<a, b, c, d>>
<1>1. s \in Seq(S) /\ t \in Seq(S) /\ u \in Seq(S) /\ Len(u) = Len(s) + Len(t)
  OBVIOUS
<1>2. \A i \in 1 .. Len(u) : u[i] = IF i <= Len(s) THEN s[i] ELSE t[i - Len(s)]
  OBVIOUS
<1> HIDE DEF S, s, t, u
<1>3. s \o t = u
  BY <1>1, <1>2, JoinedIs
<1> QED BY <1>3 DEF s, t, u

LEMMA JoinedOneTwo == ASSUME NEW a, NEW b, NEW c PROVE <<a>> \o <<b, c>> = <<a, b, c>>
<1> DEFINE S == {a, b, c}
           s == <<a>>
           t == <<b, c>>
           u == <<a, b, c>>
<1>1. s \in Seq(S) /\ t \in Seq(S) /\ u \in Seq(S) /\ Len(u) = Len(s) + Len(t)
  OBVIOUS
<1>2. \A i \in 1 .. Len(u) : u[i] = IF i <= Len(s) THEN s[i] ELSE t[i - Len(s)]
  OBVIOUS
<1> HIDE DEF S, s, t, u
<1>3. s \o t = u
  BY <1>1, <1>2, JoinedIs
<1> QED BY <1>3 DEF s, t, u

LEMMA JoinedTwoTwo == ASSUME NEW a, NEW b, NEW c, NEW d PROVE <<a, b>> \o <<c, d>> = <<a, b, c, d>>
<1> DEFINE S == {a, b, c, d}
           s == <<a, b>>
           t == <<c, d>>
           u == <<a, b, c, d>>
<1>1. s \in Seq(S) /\ t \in Seq(S) /\ u \in Seq(S) /\ Len(u) = Len(s) + Len(t)
  OBVIOUS
<1>2. \A i \in 1 .. Len(u) : u[i] = IF i <= Len(s) THEN s[i] ELSE t[i - Len(s)]
  OBVIOUS
<1> HIDE DEF S, s, t, u
<1>3. s \o t = u
  BY <1>1, <1>2, JoinedIs
<1> QED BY <1>3 DEF s, t, u

LEMMA SeqsOf ==
  ASSUME NEW S
  PROVE /\ <<>> \in Seq(S)
        /\ \A s \in Seq(S), t \in Seq(S) : s \o t \in Seq(S)
        /\ \A a \in S : <<a>> \in Seq(S)
        /\ \A a \in S, b \in S : <<a, b>> \in Seq(S)
<1>1. \A s \in Seq(S), t \in Seq(S) : s \o t \in Seq(S)
  BY ConcatProperties
<1>2. <<>> \in Seq(S) /\ \A a \in S : <<a>> \in Seq(S)
  OBVIOUS
<1>3. ASSUME NEW a \in S, NEW b \in S PROVE <<a, b>> \in Seq(S)
  OBVIOUS
<1> QED BY <1>1, <1>2, <1>3

LEMMA PlainSeqs ==
  /\ <<>> \in Seq(PlainSteps)
  /\ \A s \in Seq(PlainSteps), t \in Seq(PlainSteps) : s \o t \in Seq(PlainSteps)
  /\ \A a \in PlainSteps : <<a>> \in Seq(PlainSteps)
  /\ \A a \in PlainSteps, b \in PlainSteps : <<a, b>> \in Seq(PlainSteps)
  BY SeqsOf

LEMMA PtzPrograms ==
  ASSUME NEW r, NEW c, r.token \in Words, r.zoom \in Words
  PROVE \/ Ptz(r, c) \in Seq(PlainSteps) \/ Ptz(r, c) = Storing
        \/ (r.action \in {"ContinuousMove", "RelativeMove"} /\ Ptz(r, c) \in Seq(MovingSteps))
<1> DEFINE P == Seq(PlainSteps)
<1>1. Fault \in P /\ Answers \in P /\ <<>> \in P
  BY PlainNotes DEF Fault, Answers, PlainDoings
<1>2. Run(Moves) \in PlainSteps /\ Run(Stops) \in PlainSteps /\ Try(Stops) \in PlainSteps
  BY PlainOnes, PlainCalls DEF Moves, Stops, Words, TheirWords
<1>3. Run(zoom_to(r.zoom)) \in PlainSteps /\ Run(<<Read("get_zoom")>>) \in PlainSteps /\ Try(<<Read("get_zoom")>>) \in PlainSteps
  BY PlainOnes, PlainCalls DEF zoom_to, QuietNames, Words, TheirWords
<1>4. /\ Run(<<Read("get_ptz_preset")>>) \in PlainSteps /\ Try(<<Read("get_ptz_preset")>>) \in PlainSteps
      /\ Run(<<Ask("moveto_ptz_preset", "way", "still")>>) \in PlainSteps
      /\ \A f \in Words : Run(<<Ask("set_ptz_preset", f, "mine")>>) \in PlainSteps
  BY PlainOnes, PlainCalls DEF Words, TheirWords
<1>5. \A what \in PlainDoings : Do(what) \in PlainSteps
  BY PlainNotes
<1>0. \A s \in P, t \in P : s \o t \in P
  BY PlainSeqs
<1> DEFINE M == Seq(MovingSteps)
<1>6. ContinuousMove(r, c) \in M
  <2>1. /\ Do("abort_zoom") \in MovingSteps /\ Do("abort_pt") \in MovingSteps /\ Do("spawn_zoom") \in MovingSteps
        /\ Run(Moves) \in MovingSteps /\ Try(Stops) \in MovingSteps
    BY <1>2, <1>5 DEF PlainDoings, MovingSteps, Notes, Do
  <2>2. /\ <<Do("abort_zoom"), Do("abort_pt")>> \in M /\ <<Run(Moves)>> \in M /\ <<Try(Stops)>> \in M
        /\ <<Do("spawn_zoom")>> \in M /\ <<>> \in M /\ Fault \in M
    <3>1. Do("fault") \in MovingSteps
      BY <1>5 DEF PlainDoings, MovingSteps
    <3> QED BY <2>1, <3>1, SeqsOf DEF Fault
  <2>3. \A s \in M, t \in M : s \o t \in M
    BY SeqsOf
  <2> HIDE DEF M
  <2> QED BY <2>2, <2>3 DEF ContinuousMove, Given
<1>7. RelativeMove(r, c) \in M
  <2>1. /\ Do("abort_zoom") \in MovingSteps /\ Do("spawn_pt") \in MovingSteps /\ Do("fault") \in MovingSteps
        /\ Run(<<Read("get_zoom")>>) \in MovingSteps /\ Run(zoom_to(r.zoom)) \in MovingSteps
    BY <1>3, <1>5 DEF PlainDoings, MovingSteps, Notes, Do
  <2>2. /\ <<Do("abort_zoom")>> \in M /\ <<Do("spawn_pt")>> \in M /\ <<>> \in M /\ Fault \in M
        /\ <<Run(<<Read("get_zoom")>>), Run(zoom_to(r.zoom))>> \in M
    BY <2>1, SeqsOf DEF Fault
  <2>3. \A s \in M, t \in M : s \o t \in M
    BY SeqsOf
  <2> HIDE DEF M
  <2> QED BY <2>2, <2>3 DEF RelativeMove, Given
<1>15. AbsoluteMove(r, c) \in P
  BY <1>1, <1>3, PlainSeqs DEF AbsoluteMove, Given
<1>8. Stop(r, c) \in P
  <2>1. <<Do("abort_pt"), Run(Stops)>> \in P /\ <<Do("abort_zoom")>> \in P
    BY <1>2, <1>5, PlainSeqs DEF PlainDoings
  <2> HIDE DEF P
  <2> QED BY <1>1, <2>1, <1>0 DEF Stop, Given
<1>9. GetStatus(r, c) \in P /\ GetPresets(r, c) \in P
  BY <1>1, <1>3, <1>4, PlainSeqs DEF GetStatus, GetPresets, Given
<1>10. GotoPreset(r, c) \in P /\ GotoHomePosition(r, c) \in P
  BY <1>1, <1>4, <1>5 DEF GotoPreset, GotoHomePosition, PlainDoings
<1>11. SetHomePosition(r, c) \in P
  BY <1>1, <1>4 DEF SetHomePosition, Words, TheirWords
<1>12. SetPreset(r, c) \in P \/ SetPreset(r, c) = Storing
  <2>1. <<Run(<<Ask("set_ptz_preset", r.token, "mine")>>)>> \in P
    BY <1>4
  <2>2. CASE r.token = "none" /\ {"presets", "preset_write"} \subseteq c
    <3>1. SetPreset(r, c) = <<Run(<<Read("get_ptz_preset")>>), Do("allocate")>> \o <<Run(<<Ask("set_ptz_preset", "none", "mine")>>)>>
      BY <2>2 DEF SetPreset, Given
    <3> QED BY <3>1, JoinedTwoOne DEF Storing
  <2>3. CASE r.token # "none" /\ {"presets", "preset_write"} \subseteq c
    <3>1. SetPreset(r, c) = <<>> \o <<Run(<<Ask("set_ptz_preset", r.token, "mine")>>)>>
      BY <2>3 DEF SetPreset, Given
    <3> HIDE DEF P
    <3> QED BY <3>1, <2>1, <1>1, <1>0
  <2>4. CASE ~({"presets", "preset_write"} \subseteq c)
    BY <2>4, <1>1 DEF SetPreset
  <2> QED BY <2>2, <2>3, <2>4
<1> DEFINE Fits(p) == p \in P \/ p = Storing \/ (r.action \in {"ContinuousMove", "RelativeMove"} /\ p \in M)
<1> HIDE DEF M
<1>13. /\ Fits(Fault) /\ Fits(Answers) /\ Fits(AbsoluteMove(r, c))
       /\ r.action = "ContinuousMove" => Fits(ContinuousMove(r, c))
       /\ r.action = "RelativeMove" => Fits(RelativeMove(r, c))
       /\ Fits(Stop(r, c)) /\ Fits(GetStatus(r, c)) /\ Fits(GetPresets(r, c)) /\ Fits(GotoPreset(r, c))
       /\ Fits(SetPreset(r, c)) /\ Fits(GotoHomePosition(r, c)) /\ Fits(SetHomePosition(r, c))
  BY <1>1, <1>6, <1>7, <1>8, <1>9, <1>10, <1>11, <1>12, <1>15
<1> HIDE DEF Fits
<1>14. Fits(Ptz(r, c))
  BY <1>13, Zenon DEF Ptz
<1> QED BY <1>14 DEF Fits, M

LEMMA DevicePrograms ==
  ASSUME NEW r, NEW c, r.token \in Words, r.zoom \in Words
  PROVE Device(r, c) \in Seq(PlainSteps) \/ Device(r, c) = WriteClock \/ Device(r, c) = ReadClock
<1> DEFINE P == Seq(PlainSteps)
           Fits(p) == p \in P \/ p = WriteClock \/ p = ReadClock
<1>1. Fault \in P /\ Answers \in P
  BY PlainNotes, PlainSeqs DEF Fault, Answers, PlainDoings
<1>2. <<Run(<<Ask("reboot", "asked", "mine")>>)>> \in P
  BY PlainOnes, PlainCalls, PlainSeqs DEF QuietNames, Words, TheirWords
<1>3. DriveRelay("floodlight", r.zoom) \in P
  <2>1. Ask("set_floodlight_manual", "on", r.zoom) \in PlainAsks
    BY PlainOnes DEF QuietNames, SettingsNames, Words, TheirWords
  <2> QED BY <2>1, PlainCalls, PlainSeqs DEF DriveRelay
<1>4. DriveRelay("siren", r.zoom) \in P
  <2>1. Ask("siren", "played", "mine") \in PlainAsks
    BY PlainOnes DEF QuietNames, SettingsNames, Words, TheirWords
  <2> QED BY <2>1, PlainCalls, PlainSeqs DEF DriveRelay, Given
<1>5. \A state \in Words : Run(irled_light_set(state)) \in PlainSteps /\ Run(led_light_set(state)) \in PlainSteps
  <2>1. /\ Read("get_ledstate") \in PlainAsks
        /\ \A state \in Words : Ask("set_ledstate", "ir", state) \in PlainAsks /\ Ask("set_ledstate", "status", state) \in PlainAsks
    BY PlainOnes DEF QuietNames, SettingsNames, Words, TheirWords
  <2> QED BY <2>1, PlainCalls DEF irled_light_set, led_light_set, Changes
<1>6. DriveRelay("ir", r.zoom) \in P /\ DriveRelay("status", r.zoom) \in P
  <2>1. "auto" \in Words /\ "close" \in Words /\ "open" \in Words
    BY DEF Words, TheirWords
  <2> QED BY <2>1, <1>5, PlainSeqs DEF DriveRelay
<1>7. \A relay \in DOMAIN RelayNeeds : DriveRelay(relay, r.zoom) \in P
  BY <1>3, <1>4, <1>6 DEF RelayNeeds
<1> HIDE DEF P
<1>8. /\ Fits(Fault) /\ Fits(Answers) /\ Fits(<<Run(<<Ask("reboot", "asked", "mine")>>)>>)
      /\ Fits(WriteClock) /\ Fits(ReadClock) /\ \A relay \in DOMAIN RelayNeeds : Fits(DriveRelay(relay, r.zoom))
  BY <1>1, <1>2, <1>7
<1> HIDE DEF Fits
<1>9. Fits(Device(r, c))
  BY <1>8, Zenon DEF Device
<1> QED BY <1>9 DEF Fits, P

LEMMA ImagingPrograms ==
  ASSUME NEW r, NEW c, r.token \in Words, r.zoom \in Words
  PROVE Imaging(r, c) \in Seq(PlainSteps)
<1> DEFINE P == Seq(PlainSteps)
<1>1. Fault \in P /\ Answers \in P
  BY PlainNotes, PlainSeqs DEF Fault, Answers, PlainDoings
<1>2. \A mode \in DOMAIN LedOf : <<Run(irled_light_set(LedOf[mode]))>> \in P
  <2>1. \A state \in Words : Read("get_ledstate") \in PlainAsks /\ Ask("set_ledstate", "ir", state) \in PlainAsks
    BY PlainOnes DEF QuietNames, SettingsNames, Words, TheirWords
  <2>2. \A state \in Words : Run(irled_light_set(state)) \in PlainSteps
    BY <2>1, PlainCalls DEF irled_light_set, Changes
  <2>3. \A mode \in DOMAIN LedOf : LedOf[mode] \in Words
    BY DEF LedOf, Words, TheirWords
  <2> QED BY <2>2, <2>3, PlainSeqs
<1>3. <<Try(<<Read("get_ledstate")>>)>> \in P /\ <<Run(<<Read("get_zoom")>>)>> \in P
  <2>1. Read("get_ledstate") \in PlainAsks /\ Read("get_zoom") \in PlainAsks
    BY PlainOnes DEF QuietNames, SettingsNames
  <2> QED BY <2>1, PlainCalls, PlainSeqs
<1>4. <<Run(focus_to(r.zoom))>> \in P
  <2>1. Read("get_zoom") \in PlainAsks /\ Ask("start_zoom_focus", "focus", r.zoom) \in PlainAsks
    BY PlainOnes DEF QuietNames, SettingsNames, Words, TheirWords
  <2> QED BY <2>1, PlainCalls, PlainSeqs DEF focus_to
<1>5. \A s \in P, t \in P : s \o t \in P
  BY PlainSeqs
<1> HIDE DEF P
<1>6. /\ Given(r.zoom \in {"in", "out"}, <<Run(<<Read("get_zoom")>>)>>) \o <<Run(focus_to(r.zoom))>> \in P
      /\ Given("led_ctrl" \in c, <<Try(<<Read("get_ledstate")>>)>>) \in P
  BY <1>1, <1>3, <1>4, <1>5 DEF Given, Answers
<1>7. Imaging(r, c) \in P
  BY <1>1, <1>2, <1>6, Zenon DEF Imaging
<1> QED BY <1>7 DEF P

LEMMA OsdPrograms ==
  ASSUME NEW r, NEW c
  PROVE Osd(r, c) \in Seq(PlainSteps) \/ Osd(r, c) \in {Titling("name"), Titling("dates")}
<1> DEFINE P == Seq(PlainSteps)
           Fits(p) == p \in P \/ p \in {Titling("name"), Titling("dates")}
<1>1. Fault \in P /\ Answers \in P
  BY PlainNotes, PlainSeqs DEF Fault, Answers, PlainDoings
<1>2. <<Try(<<Read("get_general")>>)>> \in P
  BY PlainOnes, PlainCalls, PlainSeqs
<1>3. <<Try(<<Read("get_general")>>)>> \o Fault \in P
  BY <1>1, <1>2, PlainSeqs
<1>4. ASSUME NEW f PROVE <<Try(<<Read("get_general")>>)>> \o WriteGeneral(f) = Titling(f)
  BY JoinedOneThree DEF WriteGeneral, Titling
<1>5. /\ Fits(Fault) /\ Fits(Answers) /\ Fits(<<Try(<<Read("get_general")>>)>>)
      /\ Fits(<<Try(<<Read("get_general")>>)>> \o (IF r.token \in {"name", "dates"} THEN WriteGeneral(r.token) ELSE Fault))
  BY <1>1, <1>2, <1>3, <1>4
<1> HIDE DEF Fits
<1>6. Fits(Osd(r, c))
  BY <1>5, Zenon DEF Osd
<1> QED BY <1>6 DEF Fits

LEMMA CommandPrograms ==
  ASSUME NEW r, IsWish(r), r.token \in Words, r.zoom \in Words
  PROVE /\ r.service = "users" => UsersCommand(r) \in Seq(PlainSteps)
        /\ r.service = "neolink_ptz" => PtzCommand(r) \in Seq(PlainSteps)
        /\ PirCommand(r) \in Seq(PlainSteps) /\ StatusLedCommand(r) \in Seq(PlainSteps)
        /\ BatteryCommand \in Seq(PlainSteps) /\ RebootCommand \in Seq(PlainSteps)
        /\ MqttCommand(r) \in Seq(PlainSteps) /\ LibraryCall(r) \in Seq(PlainSteps)
<1>1. r.service = "users" => UsersCommand(r) \in Seq(PlainSteps)
  <2>1. /\ Read("get_users") \in PlainAsks
        /\ \A v \in {"there", "away"} : Ask("get_users", r.token, v) \in PlainAsks /\ Ask("set_users", r.token, v) \in PlainAsks
    BY PlainOnes DEF QuietNames, SettingsNames, Words, TheirWords
  <2>2. \A v \in {"there", "away"} : <<Ask("get_users", r.token, v)>> \o set_user(r.token, v)
             = <<Ask("get_users", r.token, v), Ask("get_users", r.token, v), Ask("set_users", r.token, v)>>
    BY JoinedOneTwo DEF set_user
  <2>3. Run(<<Read("get_users")>>) \in PlainSteps
    BY <2>1, PlainCalls
  <2>4. \A v \in {"there", "away"} : Run(<<Ask("get_users", r.token, v)>> \o set_user(r.token, v)) \in PlainSteps
    BY <2>1, <2>2, PlainCalls
  <2> QED BY <2>3, <2>4, PlainSeqs DEF UsersCommand, IsWish
<1>2. r.service = "neolink_ptz" => PtzCommand(r) \in Seq(PlainSteps)
  <2>1. /\ Read("get_zoom") \in PlainAsks /\ Ask("start_zoom_focus", "zoom", r.zoom) \in PlainAsks
        /\ Read("get_ptz_preset") \in PlainAsks /\ Ask("set_ptz_preset", r.token, "mine") \in PlainAsks
        /\ Ask("send_ptz", "way", "moving") \in PlainAsks /\ Ask("send_ptz", "way", "still") \in PlainAsks
        /\ Ask("moveto_ptz_preset", "way", "still") \in PlainAsks
    BY PlainOnes DEF QuietNames, Words, TheirWords
  <2>2. /\ Run(Moves) \in PlainSteps /\ Run(Stops) \in PlainSteps /\ Run(zoom_to(r.zoom)) \in PlainSteps
        /\ Run(<<Read("get_ptz_preset")>>) \in PlainSteps /\ Run(<<Ask("set_ptz_preset", r.token, "mine")>>) \in PlainSteps
        /\ Run(<<Ask("moveto_ptz_preset", "way", "still")>>) \in PlainSteps
    BY <2>1, PlainCalls DEF Moves, Stops, zoom_to
  <2> QED BY <2>2, PlainSeqs DEF PtzCommand, IsWish
<1>3. PirCommand(r) \in Seq(PlainSteps) /\ StatusLedCommand(r) \in Seq(PlainSteps)
  <2>1. /\ Read("get_pirstate") \in PlainAsks /\ Ask("set_pirstate", "on", r.token) \in PlainAsks
        /\ Read("get_ledstate") \in PlainAsks /\ Ask("set_ledstate", "status", r.token) \in PlainAsks
    BY PlainOnes DEF QuietNames, SettingsNames, Words, TheirWords
  <2>2. /\ Run(<<Read("get_pirstate")>>) \in PlainSteps /\ Run(pir_set(r.token)) \in PlainSteps
        /\ Run(led_light_set(r.token)) \in PlainSteps
    BY <2>1, PlainCalls DEF pir_set, led_light_set, Changes
  <2> QED BY <2>2, PlainSeqs DEF PirCommand, StatusLedCommand
<1>4. BatteryCommand \in Seq(PlainSteps) /\ RebootCommand \in Seq(PlainSteps) /\ LibraryCall(r) \in Seq(PlainSteps)
  <2>1. /\ Read("battery_info") \in PlainAsks /\ Ask("reboot", "asked", "mine") \in PlainAsks
        /\ Ask("set_email_task", "on", r.token) \in PlainAsks
    BY PlainOnes DEF QuietNames, SettingsNames, Words, TheirWords
  <2> QED BY <2>1, PlainCalls, PlainSeqs DEF BatteryCommand, RebootCommand, LibraryCall, email_set
<1>5. MqttCommand(r) \in Seq(PlainSteps)
  <2>1. /\ Ask("send_ptz", "way", "moving") \in PlainAsks /\ Ask("send_ptz", "way", "still") \in PlainAsks
        /\ Ask("get_flightlight_tasks", "on", r.token) \in PlainAsks /\ Read("get_flightlight_tasks") \in PlainAsks
        /\ Ask("set_flightlight_tasks", "on", r.token) \in PlainAsks
    BY PlainOnes DEF QuietNames, SettingsNames, Words, TheirWords
  <2>2. Moves \o Stops = <<Ask("send_ptz", "way", "moving"), Ask("send_ptz", "way", "still")>>
    BY JoinedOneOne DEF Moves, Stops
  <2>3. flightlight_tasks_enable(r.token)
          = <<Ask("get_flightlight_tasks", "on", r.token), Read("get_flightlight_tasks"), Ask("set_flightlight_tasks", "on", r.token)>>
    BY JoinedOneTwo DEF flightlight_tasks_enable, Changes
  <2>4. Run(Moves \o Stops) \in PlainSteps /\ Run(flightlight_tasks_enable(r.token)) \in PlainSteps
    BY <2>1, <2>2, <2>3, PlainCalls
  <2>5. Do("drop_stop") \in PlainSteps
    BY PlainNotes DEF PlainDoings
  <2> QED BY <2>4, <2>5, PlainSeqs DEF MqttCommand, MqttMove
<1> QED BY <1>1, <1>2, <1>3, <1>4, <1>5

LEMMA SharedPrograms ==
  ASSUME NEW r, r.token \in Words, r.action \in Words
  PROVE ServicesCommand(r) \in Seq(PlainSteps) /\ AiCommand(r) \in Seq(PlainSteps)
<1>1. ServicesCommand(r) \in Seq(PlainSteps)
  <2>1. /\ Read("get_services") \in PlainAsks
        /\ \A f \in Words, v \in Words : Ask("set_services", f, v) \in PlainAsks
    BY PlainOnes DEF QuietNames, SettingsNames
  <2>2. "rtsp" \in Words /\ "onvif" \in Words /\ "on" \in Words /\ "off" \in Words
    BY DEF Words, TheirWords
  <2>3. \A f, g, v : set_service(f, v) \o set_service(g, v)
               = <<Read("get_services"), Ask("set_services", f, v), Read("get_services"), Ask("set_services", g, v)>>
    BY JoinedTwoTwo DEF set_service
  <2>4. /\ Run(<<Read("get_services")>>) \in PlainSteps
        /\ \A f \in Words, v \in Words : Run(set_service(f, v)) \in PlainSteps
        /\ \A f \in Words, g \in Words, v \in Words : Run(set_service(f, v) \o set_service(g, v)) \in PlainSteps
    <3>1. Run(<<Read("get_services")>>) \in PlainSteps
      BY <2>1, PlainCalls
    <3>2. \A f \in Words, v \in Words : Run(set_service(f, v)) \in PlainSteps
      BY <2>1, PlainCalls DEF set_service
    <3>3. ASSUME NEW f \in Words, NEW g \in Words, NEW v \in Words
          PROVE  Run(set_service(f, v) \o set_service(g, v)) \in PlainSteps
      <4>1. Run(<<Read("get_services"), Ask("set_services", f, v), Read("get_services"), Ask("set_services", g, v)>>) \in PlainSteps
        BY <2>1, PlainCalls
      <4> QED BY <4>1, <2>3
    <3> QED BY <3>1, <3>2, <3>3
  <2> QED BY <2>2, <2>4, PlainSeqs DEF ServicesCommand
<1>2. AiCommand(r) \in Seq(PlainSteps)
  <2>1. /\ Read("get_ai_cfg") \in PlainAsks /\ Ask("set_ai_cfg", "cry", "mine") \in PlainAsks
        /\ Read("get_ai_alarm") \in PlainAsks /\ Ask("set_ai_alarm", r.token, "mine") \in PlainAsks
    BY PlainOnes DEF QuietNames, SettingsNames, Words, TheirWords
  <2>2. /\ Run(set_cry_detection("mine")) \in PlainSteps /\ Run(<<Read("get_ai_cfg")>>) \in PlainSteps
        /\ Run(<<Read("get_ai_alarm")>>) \in PlainSteps /\ Run(<<Ask("set_ai_alarm", r.token, "mine")>>) \in PlainSteps
    BY <2>1, PlainCalls DEF set_cry_detection, Changes
  <2> QED BY <2>2, PlainSeqs DEF AiCommand
<1> QED BY <1>1, <1>2

\* Of the requests, one stores a preset in a slot it looks for, one sets the clock, one
\* reads it, and two set a title; two start tasks; and a login sets the clock alone.
IsProgram(p, r) ==
    IF r.service = "login" THEN p = LoginClock
    ELSE \/ p \in Seq(PlainSteps)
         \/ p \in {Storing, WriteClock, ReadClock, Titling("name"), Titling("dates")}
         \/ (r.action # "Stop" /\ p \in Seq(MovingSteps))

LEMMA Programs ==
  ASSUME NEW r, NEW c, IsWish(r), r.token \in Words, r.zoom \in Words, r.action \in Words
  PROVE  IsProgram(Program(r, c), r)
<1> DEFINE p == Program(r, c)
<1>1. CASE r.service = "ptz"
  BY <1>1, PtzPrograms DEF IsProgram, Program
<1>2. CASE r.service \in {"device", "imaging", "osd"}
  BY <1>2, DevicePrograms, ImagingPrograms, OsdPrograms DEF IsProgram, Program
<1>3. CASE r.service \in {"users", "neolink_ptz", "pir", "status-light", "battery", "reboot", "mqtt", "library"}
  BY <1>3, CommandPrograms DEF IsProgram, Program
<1>4. CASE r.service \in {"services", "ai"}
  BY <1>4, SharedPrograms DEF IsProgram, Program
<1>5. CASE r.service = "login"
  BY <1>5 DEF IsProgram, Program
<1> QED BY <1>1, <1>2, <1>3, <1>4, <1>5 DEF IsWish, Services

\* A Stop of the motor: it cancels first.
LEMMA StopProgram ==
  ASSUME NEW r, NEW c, r.service = "ptz", r.action = "Stop", r.pan = "move", "pan_tilt" \in c
  PROVE  LET p == Program(r, c)
         IN Len(p) \in {2, 3} /\ p[1] = Do("abort_pt") /\ p[2] = Run(Stops) /\ (Len(p) = 3 => p[3] = Do("abort_zoom"))
<1>1. Program(r, c) = Stop(r, c)
  BY DEF Program, Ptz
<1>2. CASE r.zoom = "none"
  <2>1. Stop(r, c) = <<Do("abort_pt"), Run(Stops)>> \o <<>>
    BY <1>2 DEF Stop, Given
  <2>2. Stop(r, c) = <<Do("abort_pt"), Run(Stops)>>
    <3>1. <<Do("abort_pt"), Run(Stops)>> \in Seq({Do("abort_pt"), Run(Stops)})
      OBVIOUS
    <3> QED BY <2>1, <3>1, ConcatEmptySeq
  <2> QED BY <1>1, <2>2
<1>3. CASE r.zoom # "none"
  <2>1. Stop(r, c) = <<Do("abort_pt"), Run(Stops)>> \o <<Do("abort_zoom")>>
    BY <1>3 DEF Stop, Given
  <2>2. Stop(r, c) = <<Do("abort_pt"), Run(Stops), Do("abort_zoom")>>
    BY <2>1, JoinedTwoOne
  <2> QED BY <1>1, <2>2
<1> QED BY <1>2, <1>3

-----------------------------------------------------------------------------
(* The inductive invariant *)

CellFields == {"st", "wish", "prog", "i", "k", "seen", "at", "slot", "entry", "moved", "stopped", "wrote"}

\* Where a worker is in its program.
Placed(c) ==
    /\ DOMAIN c = CellFields /\ c.prog \in Seq(AllSteps)
    /\ c.i \in 1 .. Len(c.prog) + 1 /\ c.k \in Nat \ {0}
    /\ c.i <= Len(c.prog) /\ c.prog[c.i].do = "run" => c.k <= Len(c.prog[c.i].asks)

JobFits(j) ==
    /\ job[j].st \in {"idle", "run", "done", "fault"}
    /\ job[j].st = "run" => job[j].prog = Program(job[j].wish, caps) /\ IsProgram(job[j].prog, job[j].wish)

TaskFits(t) ==
    /\ job[t].st \in {"idle", "run", "polled", "done", "fault", "aborted"}
    /\ job[t].st \in {"run", "polled"} => job[t].prog \in {TimedMove, ZoomLoop} /\ job[t].wish.action # "Stop"

WorkersFit ==
    /\ DOMAIN job = Workers /\ desk \in Desks
    /\ \A w \in Workers : Placed(job[w]) /\ (job[w].st = "idle" => job[w] = Idle)
    /\ \A j \in Jobs : JobFits(j)
    /\ \A t \in Tasks : TaskFits(t)

\* A task that is not told to end is the one in the slot for what it does.
SlotsFit ==
    /\ ptTask \in Tasks \union {None} /\ zoomTask \in Tasks \union {None}
    /\ \A t \in Tasks : Running(t) =>
          \/ t = ptTask /\ job[t].prog = TimedMove
          \/ t = zoomTask /\ job[t].prog = ZoomLoop

Fields == {"clock", "name", "dates"}
BlocksFit ==
    /\ DOMAIN held = DOMAIN Blocks
    /\ DOMAIN held.general = Fields /\ DOMAIN meant = Fields
    /\ DOMAIN held.presets = {"home", "one", "two"}

\* A slot that was found taken still is; the home position is only given when both are.
PresetsFit ==
    \A w \in Workers :
        /\ job[w].slot \in {"none", "one", "two", "home"}
        /\ job[w].slot = "home" => held.presets.one # "empty" /\ held.presets.two # "empty"
        /\ At(w, "allocate") =>
              /\ DOMAIN job[w].seen = {"home", "one", "two"}
              /\ \A s \in {"one", "two"} : job[w].seen[s] # "empty" => held.presets[s] # "empty"

\* Those that write the block hold the lock, from when they take it.
Locked(j) ==
    /\ Running(j)
    /\ \/ job[j].prog = WriteClock /\ job[j].i > 1
       \/ \E f \in {"name", "dates"} : job[j].prog = Titling(f) /\ job[j].i > 2
Writes_(j, f) ==
    /\ Running(j)
    /\ \/ f = "clock" /\ job[j].prog = WriteClock /\ job[j].i = 3
       \/ f \in {"name", "dates"} /\ job[j].prog = Titling(f) /\ job[j].i = 4
ByLogin(f) == \E j \in Jobs : meant[f] = j /\ job[j].wish.service = "login"

GeneralFits ==
    /\ \A j \in Jobs : Locked(j) => generalLock = j
    /\ \A j \in Jobs, f \in Fields : Writes_(j, f) =>
          /\ DOMAIN job[j].seen = Fields
          /\ \A g \in Fields \ {f} : job[j].seen[g] = held.general[g] \/ ByLogin(g)

\* The clock was set, and what was kept of it has been dropped since.
Forgot(j) ==
    /\ job[j].wish.service # "login"
    /\ job[j].st = "done" \/ (Running(j) /\ job[j].prog = WriteClock /\ job[j].i = 5)
Fresh == \A j \in Jobs : job[j].wrote => Forgot(j)
Reading(j, i) == Running(j) /\ job[j].prog = ReadClock /\ job[j].i = i

ClockFits ==
    /\ \A j \in Jobs : Reading(j, 2) \/ Reading(j, 3) => clockLock = j
    /\ \A j \in Jobs : Running(j) /\ job[j].wrote => job[j].prog = WriteClock \/ job[j].wish.service = "login"
    /\ \A j \in Jobs : meant["clock"] = j => job[j].st # "idle" /\ (job[j].wish.service = "login" => job[j].wrote)
    /\ Fresh => /\ sample \in {None, "failed", held.general.clock}
                /\ lastGood \in {None, held.general.clock}
                /\ \A j \in Jobs : Reading(j, 3) => job[j].seen = Nothing \/ job[j].seen.clock = held.general.clock

\* While a Stop is served with nothing else asked for.
Stopping(j) ==
    /\ Running(j) /\ job[j].wish.service = "ptz" /\ job[j].wish.action = "Stop" /\ job[j].wish.pan = "move" /\ "pan_tilt" \in caps
    /\ job[j].i > 1 => \A t \in Tasks : Running(t) => job[t].prog # TimedMove
    /\ job[j].i > 2 => held.motor.way \in {"still", "stray"}

CalmFits ==
    /\ calm \in {"no", "asked", "answered"} /\ DOMAIN held.motor = {"way"}
    /\ calm = "asked" => \E j \in Jobs : Stopping(j) /\ \A o \in Jobs \ {j} : ~Running(o)
    /\ calm = "answered" => /\ held.motor.way \in {"still", "stray"} /\ \A j \in Jobs : ~Running(j)
                            /\ \A t \in Tasks : Running(t) => job[t].prog # TimedMove

-----------------------------------------------------------------------------
(* Steps of a program *)

LEMMA AllPrograms ==
  /\ <<>> \in Seq(AllSteps) /\ TimedMove \in Seq(AllSteps) /\ ZoomLoop \in Seq(AllSteps)
  /\ \A p, r : IsProgram(p, r) => p \in Seq(AllSteps)
<1>1. PlainSteps \subseteq AllSteps /\ MovingSteps \subseteq AllSteps
  <2>1. Seq(PlainAsks) \subseteq Seq(PlainAsks \union GeneralAsks)
    BY SeqMonotonic
  <2>2. Calls(PlainAsks) \subseteq Calls(PlainAsks \union GeneralAsks)
    BY <2>1 DEF Calls
  <2>3. Notes(PlainDoings) \subseteq Notes(Doings) /\ Notes({"spawn_zoom", "spawn_pt"}) \subseteq Notes(Doings)
    BY DEF Notes, Doings
  <2> QED BY <2>2, <2>3 DEF AllSteps, PlainSteps, MovingSteps
<1>2. \A p : p \in Seq(PlainSteps) \/ p \in Seq(MovingSteps) => p \in Seq(AllSteps)
  BY <1>1, SeqMonotonic
<1>3. /\ \A a \in PlainAsks \union GeneralAsks : Run(<<a>>) \in AllSteps /\ Try(<<a>>) \in AllSteps
      /\ \A a \in PlainAsks \union GeneralAsks, b \in PlainAsks \union GeneralAsks : Run(<<a, b>>) \in AllSteps
      /\ \A what \in Doings : Do(what) \in AllSteps
  BY DEF AllSteps, Run, Try, Do, Calls, Notes
<1>4. /\ Read("get_general") \in PlainAsks /\ Read("get_ptz_preset") \in PlainAsks /\ Read("get_zoom") \in PlainAsks
      /\ Ask("set_ptz_preset", "none", "mine") \in PlainAsks /\ Ask("start_zoom_focus", "zoom", "there") \in PlainAsks
      /\ Ask("send_ptz", "way", "moving") \in PlainAsks /\ Ask("send_ptz", "way", "still") \in PlainAsks
  BY PlainOnes DEF QuietNames, Words, TheirWords
<1>5. /\ Read("get_time") \in GeneralAsks /\ Ask("set_time", "clock", "mine") \in GeneralAsks
      /\ \A f \in Fields : Ask("set_general", f, "mine") \in GeneralAsks
  BY DEF Read, Ask, GeneralAsks, Words, TheirWords, Fields
<1>6. Storing \in Seq(AllSteps)
  BY <1>3, <1>4 DEF Storing, Doings
<1>7. WriteClock \in Seq(AllSteps)
  <2>1. WriteClock = <<Do("lock"), Run(<<Read("get_general")>>), Run(<<Ask("set_general", "clock", "mine")>>), Do("forget_clock")>>
    BY JoinedThreeOne DEF WriteClock, WriteGeneral
  <2> QED BY <2>1, <1>3, <1>4, <1>5 DEF Doings, Fields
<1>8. ReadClock \in Seq(AllSteps)
  BY <1>3, <1>4 DEF ReadClock, Doings
<1>9. \A f \in {"name", "dates"} : Titling(f) \in Seq(AllSteps)
  BY <1>3, <1>4, <1>5 DEF Titling, Doings, Fields
<1>10. LoginClock \in Seq(AllSteps)
  BY <1>3, <1>5 DEF LoginClock
<1>11. TimedMove \in Seq(AllSteps) /\ ZoomLoop \in Seq(AllSteps)
  BY <1>3, <1>4 DEF TimedMove, ZoomLoop, Moves, Stops, zoom_to, Doings
<1>12. \A p, r : IsProgram(p, r) => p \in Seq(AllSteps)
  BY <1>2, <1>6, <1>7, <1>8, <1>9, <1>10 DEF IsProgram
<1> QED BY <1>11, <1>12

\* The step a worker is at, and what it asks for.
LEMMA StepAt ==
  ASSUME NEW c, Placed(c), c.i <= Len(c.prog)
  PROVE  /\ c.prog[c.i] \in AllSteps /\ Len(c.prog) \in Nat /\ c.i \in Nat \ {0}
         /\ c.prog[c.i].do = "run" => /\ c.prog[c.i].asks \in Seq(PlainAsks \union GeneralAsks)
                                     /\ c.k \in 1 .. Len(c.prog[c.i].asks)
                                     /\ c.prog[c.i].asks[c.k] \in PlainAsks \union GeneralAsks
<1>1. c.prog[c.i] \in AllSteps /\ Len(c.prog) \in Nat /\ c.i \in Nat \ {0}
  BY DEF Placed
<1>2. c.prog[c.i].do = "run" => c.prog[c.i].asks \in Seq(PlainAsks \union GeneralAsks)
  BY <1>1 DEF AllSteps, Calls, Notes, Doings, PlainDoings
<1>3. c.prog[c.i].do = "run" => c.k \in 1 .. Len(c.prog[c.i].asks)
  BY <1>2 DEF Placed
<1> QED BY <1>1, <1>2, <1>3, ElementOfSeq

\* A cell that stands at the first request of a step of its program, or past the end.
LEMMA PlacedFirst ==
  ASSUME NEW c, DOMAIN c = CellFields, c.prog \in Seq(AllSteps), c.i \in 1 .. Len(c.prog) + 1, c.k = 1
  PROVE  Placed(c)
<1>1. ASSUME c.i <= Len(c.prog), c.prog[c.i].do = "run" PROVE 1 <= Len(c.prog[c.i].asks)
  <2>1. c.prog[c.i] \in AllSteps
    BY <1>1, ElementOfSeq
  <2>2. c.prog[c.i].asks \in Seq(PlainAsks \union GeneralAsks) \ {<<>>}
    BY <1>1, <2>1 DEF AllSteps, Calls, Notes, Doings, PlainDoings
  <2> QED BY <2>2, EmptySeq
<1> QED BY <1>1 DEF Placed

LEMMA IdlePlaced == Placed(Idle) /\ Idle.st = "idle" /\ Idle.wish.service # "login" /\ Idle.slot = "none" /\ Idle.wrote = FALSE
<1>1. /\ DOMAIN Idle = CellFields /\ Idle.prog = <<>> /\ Idle.i = 1 /\ Idle.k = 1 /\ Idle.st = "idle" /\ Idle.slot = "none"
      /\ Idle.wrote = FALSE
  BY DEF Idle, CellFields
<1>2. Idle.wish.service # "login"
  BY DEF Idle, Asked
<1>3. Idle.i \in 1 .. Len(Idle.prog) + 1
  BY <1>1
<1> QED BY <1>1, <1>2, <1>3, PlacedFirst, AllPrograms

LEMMA OnwardIs ==
  ASSUME NEW c, DOMAIN c = CellFields
  PROVE  LET d == Onward(c)
         IN /\ DOMAIN d = CellFields /\ d.i = c.i + 1 /\ d.k = 1
            /\ d.st = c.st /\ d.wish = c.wish /\ d.prog = c.prog /\ d.seen = c.seen /\ d.at = c.at /\ d.slot = c.slot
            /\ d.entry = c.entry /\ d.moved = c.moved /\ d.stopped = c.stopped /\ d.wrote = c.wrote
  BY DEF Onward, CellFields

LEMMA OnwardPlaced ==
  ASSUME NEW c, NEW d, Placed(c), c.i <= Len(c.prog), DOMAIN d = CellFields, d.prog = c.prog, d.i = c.i + 1, d.k = 1
  PROVE  Placed(d)
<1>1. c.prog \in Seq(AllSteps) /\ c.i \in Nat \ {0} /\ Len(c.prog) \in Nat
  BY StepAt DEF Placed
<1> QED BY <1>1, PlacedFirst

LEMMA OverIs ==
  ASSUME NEW w, NEW how, DOMAIN job[w] = CellFields
  PROVE  LET d == Over(w, how)
         IN Placed(d) /\ d.st = how /\ d.wish = job[w].wish /\ d.prog = <<>> /\ d.i = 1 /\ d.slot = "none"
            /\ d.wrote = job[w].wrote
<1> DEFINE d == Over(w, how)
<1>1. /\ DOMAIN d = CellFields /\ d.st = how /\ d.wish = job[w].wish /\ d.prog = <<>> /\ d.i = 1 /\ d.k = 1 /\ d.slot = "none"
      /\ d.wrote = job[w].wrote
  BY DEF Over, CellFields
<1>2. d.i \in 1 .. Len(d.prog) + 1
  BY <1>1
<1> QED BY <1>1, <1>2, PlacedFirst, AllPrograms

\* A worker that failed.
GivesUp(c, d) == d.st = "fault" /\ d.prog = <<>> /\ d.slot = "none"
PassesOver(c, d) == d.st = c.st /\ d.prog = c.prog /\ d.i = c.i + 1 /\ d.slot = c.slot /\ d.seen = Nothing /\ c.prog[c.i].try
Drops(c, d) ==
    /\ d.st = c.st /\ d.prog = c.prog /\ d.slot = c.slot /\ d.i = Len(c.prog)
    /\ c.prog[Len(c.prog)].do = "drop_stop" /\ c.i < Len(c.prog)

LEMMA FailedIs ==
  ASSUME NEW w, Placed(job[w]), job[w].i <= Len(job[w].prog)
  PROVE  LET d == Failed(w)
             c == job[w]
         IN Placed(d) /\ d.wish = c.wish /\ d.wrote = c.wrote /\ (GivesUp(c, d) \/ PassesOver(c, d) \/ Drops(c, d))
<1> DEFINE c == job[w]
           last == Len(c.prog)
<1>1. DOMAIN c = CellFields /\ c.i \in Nat \ {0} /\ last \in Nat /\ c.prog \in Seq(AllSteps)
  BY StepAt DEF Placed
<1>2. CASE Step(w).try
  <2> DEFINE d == [Onward(c) EXCEPT !.seen = Nothing]
  <2>1. /\ DOMAIN d = CellFields /\ d.i = c.i + 1 /\ d.k = 1 /\ d.prog = c.prog /\ d.wish = c.wish /\ d.wrote = c.wrote
        /\ d.st = c.st /\ d.slot = c.slot /\ d.seen = Nothing
    <3>1. DOMAIN Onward(c) = CellFields
      BY <1>1, OnwardIs
    <3> QED BY <1>1, <3>1, OnwardIs DEF CellFields
  <2>2. Failed(w) = d
    BY <1>2 DEF Failed
  <2> QED BY <1>2, <2>1, <2>2, OnwardPlaced DEF PassesOver, Step
<1>3. CASE ~Step(w).try /\ c.prog[last].do = "drop_stop" /\ c.i < last
  <2> DEFINE d == [c EXCEPT !.i = last, !.k = 1]
  <2>1. /\ DOMAIN d = CellFields /\ d.i = last /\ d.k = 1 /\ d.prog = c.prog /\ d.wish = c.wish /\ d.wrote = c.wrote
        /\ d.st = c.st /\ d.slot = c.slot
    BY <1>1 DEF CellFields
  <2>2. Failed(w) = d
    BY <1>3 DEF Failed
  <2>3. Placed(d)
    <3> HIDE DEF d
    <3> QED BY <1>1, <1>3, <2>1, PlacedFirst
  <2> QED BY <1>3, <2>1, <2>2, <2>3 DEF Drops
<1>4. CASE ~Step(w).try /\ ~(c.prog[last].do = "drop_stop" /\ c.i < last)
  BY <1>1, <1>4, OverIs DEF Failed, GivesUp
<1> QED BY <1>2, <1>3, <1>4

LEMMA MarkedIs ==
  ASSUME NEW w, DOMAIN job[w] = CellFields
  PROVE  LET d == Marked(w)
             c == job[w]
         IN /\ DOMAIN d = CellFields /\ d.i = c.i /\ d.k = c.k /\ d.st = c.st /\ d.wish = c.wish /\ d.prog = c.prog
            /\ d.seen = c.seen /\ d.at = c.at /\ d.slot = c.slot /\ d.entry = c.entry
            /\ d.wrote <=> (c.wrote \/ (Now(w).name \in {"set_general", "set_time"} /\ Field(w) = "clock"))
  BY DEF Marked, CellFields

\* What a worker writes of the clock.
WritesClock(w) == Now(w).name \in {"set_general", "set_time"} /\ Field(w) = "clock"

LEMMA AnsweredIs ==
  ASSUME NEW w, Placed(job[w]), job[w].i <= Len(job[w].prog), Step(w).do = "run"
  PROVE  LET d == Answered(w)
             c == job[w]
             rq == Requests[Now(w).name]
         IN /\ Placed(d) /\ d.st = c.st /\ d.wish = c.wish /\ d.prog = c.prog /\ d.slot = c.slot
            /\ d.i = c.i + 1 \/ (d.i = c.i /\ c.k # Len(Step(w).asks))
            /\ d.wrote <=> (c.wrote \/ (rq.does # "get" /\ WritesClock(w)))
            /\ d.i <= Len(c.prog) /\ rq.does # "get" => d.seen = c.seen
            /\ d.i <= Len(c.prog) /\ rq.does = "get" /\ rq.block # "lens" => d.seen = held[rq.block]
<1> DEFINE c == job[w]
           rq == Requests[Now(w).name]
           read == IF rq.does # "get" THEN Marked(w)
                   ELSE IF rq.block = "lens" /\ Len(Step(w).asks) = 1 THEN [job[w] EXCEPT !.at = zoom]
                   ELSE [job[w] EXCEPT !.seen = held[rq.block]]
           through == job[w].k = Len(Step(w).asks) \/ (rq.does = "get" /\ Settled(Now(w), held[rq.block]))
           next == [Onward(read) EXCEPT !.seen = IF job[w].i < Len(job[w].prog) THEN @ ELSE Nothing]
           more == [read EXCEPT !.k = @ + 1]
<1>1. /\ DOMAIN c = CellFields /\ c.i \in Nat \ {0} /\ Len(c.prog) \in Nat /\ c.k \in 1 .. Len(Step(w).asks)
      /\ Len(Step(w).asks) \in Nat /\ c.prog \in Seq(AllSteps)
  BY StepAt, LenProperties DEF Placed, Step
<1>2. /\ DOMAIN read = CellFields /\ read.st = c.st /\ read.wish = c.wish /\ read.prog = c.prog /\ read.slot = c.slot
      /\ read.i = c.i /\ read.k = c.k
      /\ read.wrote <=> (c.wrote \/ (rq.does # "get" /\ WritesClock(w)))
      /\ rq.does # "get" => read.seen = c.seen
      /\ rq.does = "get" /\ rq.block # "lens" => read.seen = held[rq.block]
  <2>1. CASE rq.does # "get"
    BY <1>1, <2>1, MarkedIs DEF WritesClock
  <2>2. CASE rq.does = "get" /\ rq.block = "lens" /\ Len(Step(w).asks) = 1
    BY <1>1, <2>2 DEF CellFields
  <2>3. CASE rq.does = "get" /\ ~(rq.block = "lens" /\ Len(Step(w).asks) = 1)
    BY <1>1, <2>3 DEF CellFields
  <2> QED BY <2>1, <2>2, <2>3
<1>3. Answered(w) = IF through THEN next ELSE more
  BY DEF Answered
<1> HIDE DEF read
<1>4. CASE through
  <2>1. DOMAIN Onward(read) = CellFields
    BY <1>2, OnwardIs
  <2>2. /\ DOMAIN next = CellFields /\ next.i = c.i + 1 /\ next.k = 1 /\ next.st = c.st /\ next.wish = c.wish
        /\ next.prog = c.prog /\ next.slot = c.slot /\ next.wrote = read.wrote
        /\ c.i < Len(c.prog) => next.seen = read.seen
    BY <1>2, <2>1, OnwardIs DEF CellFields
  <2> HIDE DEF next
  <2>3. Placed(next)
    BY <2>2, OnwardPlaced
  <2> QED BY <1>1, <1>2, <1>3, <1>4, <2>2, <2>3
<1>5. CASE ~through
  <2>1. /\ DOMAIN more = CellFields /\ more.i = c.i /\ more.k = c.k + 1 /\ more.st = c.st /\ more.wish = c.wish
        /\ more.prog = c.prog /\ more.slot = c.slot /\ more.wrote = read.wrote /\ more.seen = read.seen
    BY <1>2 DEF CellFields
  <2> HIDE DEF more
  <2>2. c.k + 1 \in 1 .. Len(Step(w).asks) /\ c.i \in 1 .. Len(c.prog) + 1
    <3>1. \A k, n \in Nat : k \in 1 .. n /\ k # n => k + 1 \in 1 .. n
      OBVIOUS
    <3>2. c.k \in Nat /\ c.k # Len(Step(w).asks)
      BY <1>1, <1>5
    <3> QED BY <1>1, <3>1, <3>2 DEF Placed
  <2>3. Step(w) = c.prog[c.i]
    BY DEF Step
  <2> HIDE DEF c, rq, through
  <2>4. more.i \in 1 .. Len(more.prog) + 1 /\ more.k \in Nat \ {0} /\ more.k <= Len(more.prog[more.i].asks)
    BY <1>1, <2>1, <2>2, <2>3
  <2>5. Placed(more)
    BY <1>1, <2>1, <2>4 DEF Placed
  <2> USE DEF c, rq, through
  <2> QED BY <1>2, <1>3, <1>5, <2>1, <2>5
<1> QED BY <1>4, <1>5

LEMMA PlainOrGeneral ==
  /\ \A a \in PlainAsks :
        \/ a.name \in QuietNames \union {"get_general", "get_ptz_preset"}
        \/ a.name = "set_ptz_preset" /\ a.value = "mine"
        \/ a.name \in {"send_ptz", "moveto_ptz_preset"} /\ a.field = "way"
  /\ \A a \in GeneralAsks : a.name \in {"get_time", "set_general", "set_time"}
  /\ QuietNames \cap {"get_general", "get_ptz_preset", "set_ptz_preset", "send_ptz", "moveto_ptz_preset", "get_time",
                     "set_general", "set_time"} = {}
  /\ QuietBlocks \cap {"general", "presets", "motor"} = {}
  BY DEF PlainAsks, GeneralAsks, QuietNames, SettingsNames, QuietBlocks

\* What the camera is left with.
LEMMA CarriedIs ==
  ASSUME NEW w, Placed(job[w]), job[w].i <= Len(job[w].prog), Step(w).do = "run", Carried(w), BlocksFit
  PROVE  /\ DOMAIN held' = DOMAIN Blocks /\ DOMAIN meant' = Fields
         /\ Now(w).name = "set_general" =>
               /\ held'.general = [job[w].seen EXCEPT ![Field(w)] = Value(w)]
               /\ meant' = [meant EXCEPT ![Field(w)] = w]
         /\ Now(w).name = "set_time" =>
               /\ held'.general = [held.general EXCEPT ![Field(w)] = Value(w)]
               /\ meant' = [meant EXCEPT ![Field(w)] = w]
         /\ Now(w).name \notin {"set_general", "set_time"} => held'.general = held.general /\ meant' = meant
         /\ Now(w).name = "set_ptz_preset" =>
               held'.presets = [held.presets EXCEPT ![Field(w)] = Value(w)] /\ Now(w).value = "mine"
         /\ Now(w).name # "set_ptz_preset" => held'.presets = held.presets
         /\ Now(w).name \in {"send_ptz", "moveto_ptz_preset"} =>
               held'.motor = [held.motor EXCEPT ![Field(w)] = Value(w)] /\ Now(w).field = "way"
         /\ Now(w).name \notin {"send_ptz", "moveto_ptz_preset"} => held'.motor = held.motor
<1> DEFINE rq == Requests[Now(w).name]
<1>1. Now(w) \in PlainAsks \union GeneralAsks
  BY StepAt DEF Now, Step
<1>2. /\ DOMAIN held = DOMAIN Blocks /\ DOMAIN meant = Fields
      /\ "general" \in DOMAIN held /\ "presets" \in DOMAIN held /\ "motor" \in DOMAIN held
  BY DEF BlocksFit, Blocks
<1>3. CASE rq.does = "get"
  <2>1. UNCHANGED <<held, meant>>
    BY <1>3 DEF Carried, camera
  <2>2. Now(w).name \notin {"set_general", "set_time", "set_ptz_preset", "send_ptz", "moveto_ptz_preset"}
    BY <1>3, RequestsAre
  <2> QED BY <1>2, <2>1, <2>2
<1>4. CASE rq.does # "get" /\ rq.block = "lens"
  <2>1. UNCHANGED <<held, meant>>
    BY <1>4 DEF Carried
  <2>2. Now(w).name \notin {"set_general", "set_time", "set_ptz_preset", "send_ptz", "moveto_ptz_preset"}
    BY <1>4, RequestsAre
  <2> QED BY <1>2, <2>1, <2>2
<1>5. CASE rq.does # "get" /\ rq.block # "lens"
  <2> DEFINE new == [(IF rq.does = "put" THEN job[w].seen ELSE held[rq.block]) EXCEPT ![Field(w)] = Value(w)]
  <2>1. /\ held' = [held EXCEPT ![rq.block] = new]
        /\ meant' = IF rq.block = "general" THEN [meant EXCEPT ![Field(w)] = w] ELSE meant
    BY <1>5 DEF Carried
  <2>2. /\ Now(w).name \in {"set_general", "set_time"} => rq.block = "general"
        /\ Now(w).name = "set_general" => rq.does = "put"
        /\ Now(w).name = "set_time" => rq.does # "put"
        /\ Now(w).name = "set_ptz_preset" => rq.block = "presets" /\ rq.does # "put" /\ Now(w).value = "mine"
        /\ Now(w).name \in {"send_ptz", "moveto_ptz_preset"} => rq.block = "motor" /\ rq.does # "put" /\ Now(w).field = "way"
    BY <1>1, RequestsAre, PlainOrGeneral
  <2>3. /\ rq.block = "general" => Now(w).name \in {"set_general", "set_time"}
        /\ rq.block = "presets" => Now(w).name = "set_ptz_preset"
        /\ rq.block = "motor" => Now(w).name \in {"send_ptz", "moveto_ptz_preset"}
    BY <1>1, <1>5, RequestsAre, PlainOrGeneral
  <2>4. /\ DOMAIN held' = DOMAIN held /\ DOMAIN meant' = DOMAIN meant
        /\ held'.general = IF rq.block = "general" THEN new ELSE held.general
        /\ held'.presets = IF rq.block = "presets" THEN new ELSE held.presets
        /\ held'.motor = IF rq.block = "motor" THEN new ELSE held.motor
    <3> HIDE DEF new, rq
    <3> QED BY <1>2, <2>1
  <2>5. /\ Now(w).name \in {"set_general", "set_time"} => held'.general = new /\ meant' = [meant EXCEPT ![Field(w)] = w]
        /\ Now(w).name \notin {"set_general", "set_time"} => held'.general = held.general /\ meant' = meant
    BY <2>1, <2>2, <2>3, <2>4
  <2>6. /\ Now(w).name = "set_ptz_preset" => held'.presets = new
        /\ Now(w).name # "set_ptz_preset" => held'.presets = held.presets
    BY <2>2, <2>3, <2>4
  <2>7. /\ Now(w).name \in {"send_ptz", "moveto_ptz_preset"} => held'.motor = new
        /\ Now(w).name \notin {"send_ptz", "moveto_ptz_preset"} => held'.motor = held.motor
    BY <2>2, <2>3, <2>4
  <2>8. /\ Now(w).name = "set_general" => new = [job[w].seen EXCEPT ![Field(w)] = Value(w)]
        /\ Now(w).name = "set_time" => new = [held.general EXCEPT ![Field(w)] = Value(w)]
        /\ Now(w).name = "set_ptz_preset" => new = [held.presets EXCEPT ![Field(w)] = Value(w)]
        /\ Now(w).name \in {"send_ptz", "moveto_ptz_preset"} => new = [held.motor EXCEPT ![Field(w)] = Value(w)]
    BY <2>2
  <2> HIDE DEF new
  <2> QED BY <1>2, <2>2, <2>4, <2>5, <2>6, <2>7, <2>8
<1> QED BY <1>3, <1>4, <1>5
-----------------------------------------------------------------------------
(* Every step is of a worker that is served, of one that comes, or of the entry *)

\* A worker goes on in its program, or ends.
Goes(w, d) ==
    /\ job[w].st \in {"run", "polled"} /\ Placed(d) /\ d.wish = job[w].wish
    /\ \/ d.st = job[w].st /\ d.prog = job[w].prog
       \/ d.st \in {"done", "fault"}
       \/ w \in Tasks /\ d.st = "aborted"
       \/ w \in Tasks /\ d.st = "polled" /\ d.prog = job[w].prog
Starts(w, d) ==
    /\ Placed(d) /\ d.st = "run"
    /\ w \in Jobs => d.prog = Program(d.wish, caps) /\ IsProgram(d.prog, d.wish)
    /\ w \in Tasks => d.prog \in {TimedMove, ZoomLoop} /\ d.wish.action # "Stop"

LEMMA WorkersStay ==
  ASSUME WorkersFit, ControlAssumption, UNCHANGED <<desk, caps>>, DOMAIN job' = Workers,
         \A w \in Workers : job'[w] = job[w] \/ Goes(w, job'[w]) \/ Starts(w, job'[w])
  PROVE  WorkersFit'
<1>1. ASSUME NEW w \in Workers
      PROVE  (Placed(job[w]) /\ (job[w].st = "idle" => job[w] = Idle))'
  <2>1. CASE job'[w] = job[w]
    BY <2>1 DEF WorkersFit, Placed
  <2>2. CASE Goes(w, job'[w]) \/ Starts(w, job'[w])
    BY <2>2 DEF Goes, Starts, Placed
  <2> QED BY <2>1, <2>2
<1>2. ASSUME NEW j \in Jobs PROVE JobFits(j)'
  <2> j \in Workers /\ j \notin Tasks
    BY DEF Workers, ControlAssumption
  <2> JobFits(j)
    BY DEF WorkersFit
  <2> caps' = caps
    OBVIOUS
  <2>1. CASE job'[j] = job[j]
    BY <2>1 DEF JobFits
  <2>2. CASE Goes(j, job'[j])
    BY <2>2 DEF Goes, JobFits
  <2>3. CASE Starts(j, job'[j])
    BY <2>3 DEF Starts, JobFits
  <2> QED BY <2>1, <2>2, <2>3
<1>3. ASSUME NEW t \in Tasks PROVE TaskFits(t)'
  <2> t \in Workers
    BY DEF Workers
  <2> TaskFits(t)
    BY DEF WorkersFit
  <2>1. CASE job'[t] = job[t]
    BY <2>1 DEF TaskFits
  <2>2. CASE Goes(t, job'[t])
    BY <2>2 DEF Goes, TaskFits
  <2>3. CASE Starts(t, job'[t])
    BY <2>3 DEF Starts, TaskFits
  <2> QED BY <2>1, <2>2, <2>3
<1> QED BY <1>1, <1>2, <1>3 DEF WorkersFit

\* One worker alone goes on.
Alone(w) ==
    /\ DOMAIN job' = Workers /\ \A v \in Workers \ {w} : job'[v] = job[v]
    /\ Goes(w, job'[w]) /\ UNCHANGED <<asking, slots>>

LEMMA AloneStays ==
  ASSUME WorkersFit, SlotsFit, ControlAssumption, NEW w \in Workers, Alone(w)
  PROVE  WorkersFit' /\ SlotsFit'
<1>1. WorkersFit'
  BY WorkersStay DEF Alone, asking
<1>2. \A t \in Tasks : t \in Workers
  BY DEF Workers
<1>3. ptTask' = ptTask /\ zoomTask' = zoomTask
  BY DEF Alone, slots
<1>4. ASSUME NEW t \in Tasks, Running(t)'
      PROVE  Running(t) /\ job'[t].prog = job[t].prog
  BY <1>2, <1>4 DEF Alone, Goes, Running
<1> QED BY <1>1, <1>3, <1>4 DEF SlotsFit

LEMMA OneOther ==
  ASSUME WorkersFit, NEW w \in Workers, NEW d, job' = [job EXCEPT ![w] = d]
  PROVE  DOMAIN job' = Workers /\ job'[w] = d /\ \A v \in Workers \ {w} : job'[v] = job[v]
  BY DEF WorkersFit

\* A worker that asks the camera is in the middle of its program.
LEMMA AskingIs ==
  ASSUME WorkersFit, NEW w \in Workers, ~Ended(w)
  PROVE  Placed(job[w]) /\ job[w].i <= Len(job[w].prog) /\ job[w].i \in Nat \ {0} /\ Len(job[w].prog) \in Nat
<1>1. Placed(job[w])
  BY DEF WorkersFit
<1>2. job[w].prog \in Seq(AllSteps) /\ job[w].i \in 1 .. Len(job[w].prog) + 1
  BY <1>1 DEF Placed
<1>3. Len(job[w].prog) \in Nat
  BY <1>2, LenProperties
<1> QED BY <1>1, <1>2, <1>3 DEF Ended

LEMMA FinishIs ==
  ASSUME WorkersFit, NEW w \in Workers, Finish(w)
  PROVE  Alone(w) /\ job'[w].st = "done" /\ job'[w].slot = "none" /\ job'[w].wrote = job[w].wrote
<1>1. DOMAIN job[w] = CellFields
  BY DEF WorkersFit, Placed
<1>2. DOMAIN job' = Workers /\ job'[w] = Over(w, "done") /\ \A v \in Workers \ {w} : job'[v] = job[v]
  BY OneOther DEF Finish
<1> QED BY <1>1, <1>2, OverIs DEF Alone, Goes, Finish, Running

\* After a failure, the worker has given up, passed over it or gone to what is dropped last.
Falls(w) == LET d == job'[w] IN GivesUp(job[w], d) \/ PassesOver(job[w], d) \/ Drops(job[w], d)

LEMMA FailsIs ==
  ASSUME WorkersFit, NEW w \in Workers, Running(w), ~Ended(w), Fails(w), UNCHANGED <<asking, slots>>
  PROVE  Alone(w) /\ Falls(w) /\ job'[w].wrote = job[w].wrote /\ job'[w].st = Failed(w).st
<1>1. Placed(job[w]) /\ job[w].i <= Len(job[w].prog)
  BY AskingIs
<1>2. DOMAIN job' = Workers /\ job'[w] = Failed(w) /\ \A v \in Workers \ {w} : job'[v] = job[v]
  BY OneOther DEF Fails
<1>3. LET d == Failed(w)
      IN Placed(d) /\ d.wish = job[w].wish /\ d.wrote = job[w].wrote
         /\ (GivesUp(job[w], d) \/ PassesOver(job[w], d) \/ Drops(job[w], d))
  BY <1>1, FailedIs
<1>4. Falls(w)
  BY <1>2, <1>3 DEF Falls
<1>5. Goes(w, job'[w])
  BY <1>2, <1>3 DEF Goes, GivesUp, PassesOver, Drops, Running
<1> QED BY <1>2, <1>3, <1>4, <1>5 DEF Alone

LEMMA RefuseIs ==
  ASSUME WorkersFit, NEW w \in Workers, Refuse(w)
  PROVE  Alone(w) /\ Falls(w) /\ job'[w].wrote = job[w].wrote
  BY FailsIs DEF Refuse, Asking, At

\* After an answer it goes on to the next request or the next step.
Heard(w) ==
    LET d == job'[w]
        c == job[w]
        rq == Requests[Now(w).name]
    IN /\ d.st = c.st /\ d.prog = c.prog /\ d.slot = c.slot
       /\ d.i = c.i + 1 \/ (d.i = c.i /\ c.k # Len(Step(w).asks))
       /\ d.wrote <=> (c.wrote \/ (rq.does # "get" /\ WritesClock(w)))
       /\ d.i <= Len(c.prog) /\ rq.does # "get" => d.seen = c.seen
       /\ d.i <= Len(c.prog) /\ rq.does = "get" /\ rq.block # "lens" => d.seen = held[rq.block]

LEMMA HeardIs ==
  ASSUME WorkersFit, NEW w \in Workers, Asking(w), job' = [job EXCEPT ![w] = Answered(w)], UNCHANGED <<asking, slots>>
  PROVE  Alone(w) /\ Heard(w)
<1>1. Placed(job[w]) /\ job[w].i <= Len(job[w].prog) /\ Step(w).do = "run" /\ Running(w)
  BY AskingIs DEF Asking
<1>2. DOMAIN job' = Workers /\ job'[w] = Answered(w) /\ \A v \in Workers \ {w} : job'[v] = job[v]
  BY OneOther
<1>3. Heard(w) /\ Placed(job'[w]) /\ job'[w].wish = job[w].wish
  BY <1>1, <1>2, AnsweredIs DEF Heard
<1>4. Goes(w, job'[w])
  BY <1>1, <1>3 DEF Goes, Heard, Running
<1> QED BY <1>2, <1>3, <1>4 DEF Alone

LEMMA ReplyIs ==
  ASSUME WorkersFit, NEW w \in Workers, Reply(w)
  PROVE  Alone(w) /\ Heard(w)
  BY HeardIs DEF Reply

LEMMA NoReplyIs ==
  ASSUME WorkersFit, NEW w \in Workers, NoReply(w)
  PROVE  Alone(w) /\ Heard(w)
  BY HeardIs DEF NoReply

\* No answer: it fails, having written what it may have written.
LEMMA NoAnswerIs ==
  ASSUME WorkersFit, NEW w \in Workers, NoAnswer(w)
  PROVE  /\ Alone(w) /\ Falls(w) /\ job'[w].st = Failed(w).st
         /\ \/ UNCHANGED camera /\ job'[w].wrote = job[w].wrote
            \/ Carried(w) /\ (job'[w].wrote <=> (job[w].wrote \/ WritesClock(w)))
<1>1. Running(w) /\ ~Ended(w) /\ Placed(job[w]) /\ job[w].i <= Len(job[w].prog) /\ UNCHANGED <<asking, slots>>
  BY AskingIs DEF NoAnswer, Asking
<1>2. LET d == Failed(w)
      IN Placed(d) /\ d.wish = job[w].wish /\ d.wrote = job[w].wrote
         /\ (GivesUp(job[w], d) \/ PassesOver(job[w], d) \/ Drops(job[w], d))
  BY <1>1, FailedIs
<1> DEFINE e == [Failed(w) EXCEPT !.moved = Marked(w).moved, !.stopped = Marked(w).stopped, !.wrote = Marked(w).wrote]
<1>3. /\ Placed(e) /\ e.wish = job[w].wish /\ e.wrote = Marked(w).wrote /\ e.st = Failed(w).st
      /\ (GivesUp(job[w], e) \/ PassesOver(job[w], e) \/ Drops(job[w], e))
  <2>1. DOMAIN Failed(w) = CellFields
    BY <1>2 DEF Placed
  <2>2. /\ DOMAIN e = CellFields /\ e.st = Failed(w).st /\ e.prog = Failed(w).prog /\ e.slot = Failed(w).slot
        /\ e.i = Failed(w).i /\ e.k = Failed(w).k /\ e.seen = Failed(w).seen /\ e.wish = Failed(w).wish
        /\ e.wrote = Marked(w).wrote
    BY <2>1 DEF CellFields
  <2> HIDE DEF e
  <2> QED BY <1>2, <2>2 DEF Placed, GivesUp, PassesOver, Drops
<1>4. Marked(w).wrote <=> (job[w].wrote \/ WritesClock(w))
  <2>1. DOMAIN job[w] = CellFields
    BY <1>1 DEF Placed
  <2> QED BY <2>1, MarkedIs DEF WritesClock
<1>5. \/ UNCHANGED camera /\ job' = [job EXCEPT ![w] = Failed(w)]
      \/ Carried(w) /\ job' = [job EXCEPT ![w] = e]
  BY DEF NoAnswer
<1> HIDE DEF e
<1>6. CASE UNCHANGED camera /\ job' = [job EXCEPT ![w] = Failed(w)]
  <2>1. DOMAIN job' = Workers /\ job'[w] = Failed(w) /\ \A v \in Workers \ {w} : job'[v] = job[v]
    BY <1>6, OneOther
  <2>2. Goes(w, job'[w])
    BY <2>1, <1>1, <1>2 DEF Goes, GivesUp, PassesOver, Drops, Running
  <2> QED BY <1>1, <1>2, <1>6, <2>1, <2>2 DEF Alone, Falls
<1>7. CASE Carried(w) /\ job' = [job EXCEPT ![w] = e]
  <2>1. DOMAIN job' = Workers /\ job'[w] = e /\ \A v \in Workers \ {w} : job'[v] = job[v]
    BY <1>7, OneOther
  <2>2. Goes(w, job'[w])
    BY <2>1, <1>1, <1>3 DEF Goes, GivesUp, PassesOver, Drops, Running
  <2> QED BY <1>1, <1>3, <1>4, <1>7, <2>1, <2>2 DEF Alone, Falls
<1> QED BY <1>5, <1>6, <1>7

\* The task is begun again, on the next connection.
LEMMA AgainIs ==
  ASSUME WorkersFit, NEW w \in Workers, Again(w)
  PROVE  /\ Alone(w)
         /\ LET d == job'[w]
                c == job[w]
            IN /\ d.st = c.st /\ d.prog = c.prog /\ d.slot = c.slot /\ d.i = c.i /\ d.k = 1 /\ d.seen = c.seen
               /\ \/ UNCHANGED camera /\ d.wrote = c.wrote
                  \/ Carried(w) /\ (d.wrote <=> (c.wrote \/ WritesClock(w)))
<1>1. Running(w) /\ ~Ended(w) /\ Placed(job[w]) /\ job[w].i <= Len(job[w].prog) /\ UNCHANGED <<asking, slots>>
  BY AskingIs DEF Again, Asking
<1>2. DOMAIN job[w] = CellFields /\ job[w].prog \in Seq(AllSteps) /\ job[w].i \in 1 .. Len(job[w].prog) + 1
  BY <1>1 DEF Placed
<1> DEFINE a == [job[w] EXCEPT !.k = 1]
           b == [Marked(w) EXCEPT !.k = 1]
<1>3. /\ Placed(a) /\ a.st = job[w].st /\ a.wish = job[w].wish /\ a.prog = job[w].prog /\ a.slot = job[w].slot
      /\ a.i = job[w].i /\ a.k = 1 /\ a.seen = job[w].seen /\ a.wrote = job[w].wrote
  <2>1. /\ DOMAIN a = CellFields /\ a.st = job[w].st /\ a.wish = job[w].wish /\ a.prog = job[w].prog /\ a.slot = job[w].slot
        /\ a.i = job[w].i /\ a.k = 1 /\ a.seen = job[w].seen /\ a.wrote = job[w].wrote
    BY <1>2 DEF CellFields
  <2> HIDE DEF a
  <2> QED BY <1>2, <2>1, PlacedFirst
<1>4. /\ Placed(b) /\ b.st = job[w].st /\ b.wish = job[w].wish /\ b.prog = job[w].prog /\ b.slot = job[w].slot
      /\ b.i = job[w].i /\ b.k = 1 /\ b.seen = job[w].seen /\ (b.wrote <=> (job[w].wrote \/ WritesClock(w)))
  <2>1. /\ DOMAIN b = CellFields /\ b.st = Marked(w).st /\ b.wish = Marked(w).wish /\ b.prog = Marked(w).prog
        /\ b.slot = Marked(w).slot /\ b.i = Marked(w).i /\ b.k = 1 /\ b.seen = Marked(w).seen /\ b.wrote = Marked(w).wrote
    BY <1>2, MarkedIs DEF CellFields
  <2> HIDE DEF b
  <2> QED BY <1>2, <2>1, MarkedIs, PlacedFirst DEF WritesClock
<1>5. \/ UNCHANGED camera /\ job' = [job EXCEPT ![w] = a]
      \/ Carried(w) /\ job' = [job EXCEPT ![w] = b]
  <2>1. ASSUME job' = [job EXCEPT ![w].k = 1] PROVE job' = [job EXCEPT ![w] = a]
    BY <2>1
  <2> QED BY <2>1 DEF Again
<1> HIDE DEF a, b
<1>6. CASE UNCHANGED camera /\ job' = [job EXCEPT ![w] = a]
  <2>1. DOMAIN job' = Workers /\ job'[w] = a /\ \A v \in Workers \ {w} : job'[v] = job[v]
    BY <1>6, OneOther
  <2> QED BY <1>1, <1>3, <1>6, <2>1 DEF Alone, Goes, Running
<1>7. CASE Carried(w) /\ job' = [job EXCEPT ![w] = b]
  <2>1. DOMAIN job' = Workers /\ job'[w] = b /\ \A v \in Workers \ {w} : job'[v] = job[v]
    BY <1>7, OneOther
  <2> QED BY <1>1, <1>4, <1>7, <2>1 DEF Alone, Goes, Running
<1> QED BY <1>5, <1>6, <1>7

\* A step that the worker itself takes, of which nothing is asked.
Onwards(w) ==
    LET d == job'[w]
        c == job[w]
    IN d.st = c.st /\ d.prog = c.prog /\ d.i = c.i + 1 /\ d.k = 1 /\ d.seen = c.seen /\ d.wrote = c.wrote

LEMMA OnwardsIs ==
  ASSUME WorkersFit, NEW w \in Workers, Running(w), ~Ended(w), job' = [job EXCEPT ![w] = Onward(job[w])],
         UNCHANGED <<asking, slots>>
  PROVE  Alone(w) /\ Onwards(w) /\ job'[w].slot = job[w].slot
<1>1. Placed(job[w]) /\ job[w].i <= Len(job[w].prog) /\ DOMAIN job[w] = CellFields
  BY AskingIs DEF Placed
<1>2. DOMAIN job' = Workers /\ job'[w] = Onward(job[w]) /\ \A v \in Workers \ {w} : job'[v] = job[v]
  BY OneOther
<1>3. /\ DOMAIN job'[w] = CellFields /\ job'[w].wish = job[w].wish /\ job'[w].slot = job[w].slot /\ Onwards(w)
  BY <1>1, <1>2, OnwardIs DEF Onwards
<1>4. Placed(job'[w])
  BY <1>1, <1>3, OnwardPlaced DEF Onwards
<1> QED BY <1>2, <1>3, <1>4 DEF Alone, Goes, Onwards, Running

LEMMA LockIs ==
  ASSUME WorkersFit, NEW w \in Workers, TakeGeneralLock(w)
  PROVE  Alone(w) /\ Onwards(w) /\ job'[w].slot = job[w].slot
<1>1. job' = [job EXCEPT ![w] = Onward(job[w])]
  BY DEF TakeGeneralLock
<1> QED BY <1>1, OnwardsIs DEF TakeGeneralLock, At

LEMMA AllocateIs ==
  ASSUME WorkersFit, NEW w \in Workers, Allocate(w)
  PROVE  /\ Alone(w)
         /\ \/ Falls(w) /\ Fails(w) /\ job'[w].wrote = job[w].wrote
            \/ /\ Onwards(w) /\ UNCHANGED <<generalLock, calm>>
               /\ LET free == Free(job[w].seen)
                  IN job'[w].slot = IF "one" \in free THEN "one" ELSE IF "two" \in free THEN "two" ELSE "home"
<1> DEFINE free == Free(job[w].seen)
           first == IF "one" \in free THEN "one" ELSE IF "two" \in free THEN "two" ELSE "home"
           d == [Onward(job[w]) EXCEPT !.slot = first]
<1>1. Running(w) /\ ~Ended(w) /\ UNCHANGED <<asking, slots>>
  BY DEF Allocate, At
<1>2. \/ Fails(w)
      \/ job' = [job EXCEPT ![w] = d] /\ UNCHANGED <<generalLock, calm>>
  BY DEF Allocate
<1>3. CASE Fails(w)
  BY <1>1, <1>3, FailsIs
<1>4. CASE job' = [job EXCEPT ![w] = d] /\ UNCHANGED <<generalLock, calm>>
  <2>1. Placed(job[w]) /\ job[w].i <= Len(job[w].prog) /\ DOMAIN job[w] = CellFields
    BY <1>1, AskingIs DEF Placed
  <2> HIDE DEF first
  <2>2. /\ DOMAIN d = CellFields /\ d.st = job[w].st /\ d.wish = job[w].wish /\ d.prog = job[w].prog /\ d.slot = first
        /\ d.i = job[w].i + 1 /\ d.k = 1 /\ d.seen = job[w].seen /\ d.wrote = job[w].wrote
    <3>1. DOMAIN Onward(job[w]) = CellFields
      BY <2>1, OnwardIs
    <3> QED BY <2>1, <3>1, OnwardIs DEF CellFields
  <2> HIDE DEF d
  <2>3. DOMAIN job' = Workers /\ job'[w] = d /\ \A v \in Workers \ {w} : job'[v] = job[v]
    BY <1>4, OneOther
  <2>4. Placed(d)
    BY <2>1, <2>2, OnwardPlaced
  <2>5. Onwards(w) /\ Goes(w, job'[w])
    BY <1>1, <2>2, <2>3, <2>4 DEF Onwards, Goes, Running
  <2> QED BY <1>1, <1>4, <2>2, <2>3, <2>5 DEF Alone, first
<1> QED BY <1>2, <1>3, <1>4

LEMMA FindHomeIs ==
  ASSUME WorkersFit, NEW w \in Workers, FindHome(w)
  PROVE  /\ Alone(w)
         /\ \/ Falls(w) /\ Fails(w) /\ job'[w].wrote = job[w].wrote
            \/ Onwards(w) /\ job'[w].slot = job[w].slot /\ UNCHANGED <<generalLock, calm>>
<1>1. Running(w) /\ ~Ended(w) /\ UNCHANGED <<asking, slots>>
  BY DEF FindHome, At
<1>2. \/ Fails(w)
      \/ job' = [job EXCEPT ![w] = Onward(job[w])] /\ UNCHANGED <<generalLock, calm>>
  BY DEF FindHome
<1> QED BY <1>1, <1>2, FailsIs, OnwardsIs

LEMMA ZoomOnIs ==
  ASSUME WorkersFit, ControlAssumption, NEW w \in Tasks, ZoomOn(w)
  PROVE  Alone(w) /\ job'[w].prog = job[w].prog /\ job'[w].st = "run" /\ job'[w].slot = job[w].slot /\ job'[w].prog = ZoomLoop
<1>1. Running(w) /\ ~Ended(w) /\ UNCHANGED <<asking, slots>> /\ Step(w).do = "zoom_on" /\ w \in Workers
  BY DEF ZoomOn, At, Workers
<1>2. Placed(job[w]) /\ job[w].i <= Len(job[w].prog) /\ DOMAIN job[w] = CellFields /\ job[w].i \in Nat \ {0}
  BY <1>1, AskingIs DEF Placed
<1>3. job[w].prog = ZoomLoop
  <2>1. job[w].prog \in {TimedMove, ZoomLoop}
    BY <1>1 DEF WorkersFit, TaskFits, Running
  <2>2. \A i \in {1, 2} : TimedMove[i].do # "zoom_on" /\ Len(TimedMove) = 2
    BY DEF TimedMove, Run
  <2> QED BY <1>1, <1>2, <2>1, <2>2 DEF Step
<1>4. Len(ZoomLoop) = 4
  BY DEF ZoomLoop
<1> DEFINE next == IF job[w].wish.zoom = "in" THEN job[w].at + 1 ELSE job[w].at - 1
           a == [job[w] EXCEPT !.i = 3, !.k = 1, !.at = next]
           b == [job[w] EXCEPT !.i = Len(job[w].prog) + 1]
<1>5. job' = [job EXCEPT ![w] = a] \/ job' = [job EXCEPT ![w] = b]
  <2>1. job' = [job EXCEPT ![w] = IF next \in 0..ZoomMax THEN a ELSE b]
    BY DEF ZoomOn
  <2> HIDE DEF a, b, next
  <2> QED BY <2>1
<1>6. Placed(a) /\ a.st = job[w].st /\ a.wish = job[w].wish /\ a.prog = job[w].prog /\ a.slot = job[w].slot
  <2>1. /\ DOMAIN a = CellFields /\ a.st = job[w].st /\ a.wish = job[w].wish /\ a.prog = job[w].prog /\ a.i = 3 /\ a.k = 1
        /\ a.slot = job[w].slot
    BY <1>2 DEF CellFields
  <2> HIDE DEF a
  <2>2. a.prog \in Seq(AllSteps)
    BY <1>2, <2>1 DEF Placed
  <2>3. Len(a.prog) = 4 /\ a.i = 3
    BY <1>3, <1>4, <2>1 DEF ZoomLoop
  <2>4. a.i \in 1 .. Len(a.prog) + 1
    BY <2>3
  <2> QED BY <2>1, <2>2, <2>4, PlacedFirst
<1>7. Placed(b) /\ b.st = job[w].st /\ b.wish = job[w].wish /\ b.prog = job[w].prog /\ b.slot = job[w].slot
  <2>1. /\ DOMAIN b = CellFields /\ b.st = job[w].st /\ b.wish = job[w].wish /\ b.prog = job[w].prog
        /\ b.i = Len(job[w].prog) + 1 /\ b.k = job[w].k /\ b.slot = job[w].slot
    BY <1>2 DEF CellFields
  <2> HIDE DEF b
  <2> QED BY <1>2, <1>3, <1>4, <2>1 DEF Placed
<1> HIDE DEF a, b
<1>8. \A d : job' = [job EXCEPT ![w] = d] => DOMAIN job' = Workers /\ job'[w] = d /\ \A v \in Workers \ {w} : job'[v] = job[v]
  BY <1>1, OneOther
<1> QED BY <1>1, <1>3, <1>5, <1>6, <1>7, <1>8 DEF Alone, Goes, Running

LEMMA GoneIs ==
  ASSUME WorkersFit, NEW w \in Tasks, Gone(w)
  PROVE  Alone(w) /\ job'[w].st = "done" /\ job'[w].slot = "none"
<1>1. w \in Workers /\ DOMAIN job[w] = CellFields
  BY DEF WorkersFit, Placed, Workers
<1>2. DOMAIN job' = Workers /\ job'[w] = Over(w, "done") /\ \A v \in Workers \ {w} : job'[v] = job[v]
  BY <1>1, OneOther DEF Gone
<1> QED BY <1>1, <1>2, OverIs DEF Alone, Goes, Gone, Running

LEMMA LastPollIs ==
  ASSUME WorkersFit, NEW w \in Tasks, LastPoll(w)
  PROVE  Alone(w) /\ job'[w].st = "aborted" /\ job'[w].slot = "none"
<1>1. w \in Workers /\ DOMAIN job[w] = CellFields
  BY DEF WorkersFit, Placed, Workers
<1>2. DOMAIN job' = Workers /\ job'[w] = Over(w, "aborted") /\ \A v \in Workers \ {w} : job'[v] = job[v]
  BY <1>1, OneOther DEF LastPoll
<1> QED BY <1>1, <1>2, OverIs DEF Alone, Goes, LastPoll

LEMMA LookIs ==
  ASSUME WorkersFit, NEW w \in Workers, LookAtClock(w)
  PROVE  /\ Alone(w) /\ job'[w].slot = job[w].slot /\ job'[w].wrote = job[w].wrote
         /\ \/ /\ UNCHANGED clockLock /\ job'[w].i = Len(job[w].prog) + 1
               /\ job'[w].st = job[w].st /\ job'[w].prog = job[w].prog
            \/ clockLock' = w /\ Onwards(w)
<1>1. Running(w) /\ ~Ended(w) /\ UNCHANGED <<asking, slots>>
  BY DEF LookAtClock, At
<1>2. Placed(job[w]) /\ job[w].i <= Len(job[w].prog) /\ DOMAIN job[w] = CellFields /\ Len(job[w].prog) \in Nat
  BY <1>1, AskingIs DEF Placed
<1>3. \/ job' = [job EXCEPT ![w] = Onward(job[w])] /\ clockLock' = w
      \/ job' = [job EXCEPT ![w].i = Len(job[w].prog) + 1] /\ UNCHANGED clockLock
  BY DEF LookAtClock
<1>4. CASE job' = [job EXCEPT ![w] = Onward(job[w])] /\ clockLock' = w
  BY <1>1, <1>4, OnwardsIs DEF Onwards
<1>5. CASE job' = [job EXCEPT ![w].i = Len(job[w].prog) + 1] /\ UNCHANGED clockLock
  <2> DEFINE d == [job[w] EXCEPT !.i = Len(job[w].prog) + 1]
  <2>1. job' = [job EXCEPT ![w] = d]
    BY <1>5
  <2>2. /\ DOMAIN d = CellFields /\ d.st = job[w].st /\ d.wish = job[w].wish /\ d.prog = job[w].prog /\ d.slot = job[w].slot
        /\ d.i = Len(job[w].prog) + 1 /\ d.k = job[w].k /\ d.wrote = job[w].wrote
    BY <1>2 DEF CellFields
  <2> HIDE DEF d
  <2>3. DOMAIN job' = Workers /\ job'[w] = d /\ \A v \in Workers \ {w} : job'[v] = job[v]
    BY <2>1, OneOther
  <2>4. Placed(d)
    BY <1>2, <2>2 DEF Placed
  <2> QED BY <1>1, <1>5, <2>2, <2>3, <2>4 DEF Alone, Goes, Running
<1> QED BY <1>3, <1>4, <1>5

LEMMA KeepIs ==
  ASSUME WorkersFit, NEW w \in Workers, KeepClock(w)
  PROVE  Alone(w) /\ Onwards(w) /\ job'[w].slot = job[w].slot
<1>1. job' = [job EXCEPT ![w] = Onward(job[w])]
  BY DEF KeepClock
<1> QED BY <1>1, OnwardsIs DEF KeepClock, At

LEMMA ForgetIs ==
  ASSUME WorkersFit, NEW w \in Workers, ForgetClock(w)
  PROVE  Alone(w) /\ Onwards(w) /\ job'[w].slot = job[w].slot
<1>1. job' = [job EXCEPT ![w] = Onward(job[w])]
  BY DEF ForgetClock
<1> QED BY <1>1, OnwardsIs DEF ForgetClock, At

LEMMA DropStopIs ==
  ASSUME WorkersFit, NEW w \in Workers, DropStop(w)
  PROVE  Alone(w) /\ Onwards(w) /\ job'[w].slot = job[w].slot
<1> DEFINE d == [Onward(job[w]) EXCEPT !.stopped = TRUE]
<1>1. Running(w) /\ ~Ended(w) /\ UNCHANGED <<asking, slots>> /\ job' = [job EXCEPT ![w] = d]
  BY DEF DropStop, At
<1>2. Placed(job[w]) /\ job[w].i <= Len(job[w].prog) /\ DOMAIN job[w] = CellFields
  BY <1>1, AskingIs DEF Placed
<1>3. /\ DOMAIN d = CellFields /\ d.st = job[w].st /\ d.wish = job[w].wish /\ d.prog = job[w].prog /\ d.slot = job[w].slot
      /\ d.i = job[w].i + 1 /\ d.k = 1 /\ d.seen = job[w].seen /\ d.wrote = job[w].wrote
  <2>1. DOMAIN Onward(job[w]) = CellFields
    BY <1>2, OnwardIs
  <2> QED BY <1>2, <2>1, OnwardIs DEF CellFields
<1> HIDE DEF d
<1>4. DOMAIN job' = Workers /\ job'[w] = d /\ \A v \in Workers \ {w} : job'[v] = job[v]
  BY <1>1, OneOther
<1>5. Placed(d)
  BY <1>2, <1>3, OnwardPlaced
<1> QED BY <1>1, <1>3, <1>4, <1>5 DEF Alone, Goes, Onwards, Running

\* The task in a slot is ended, or polled once more.
Ends(t) == job'[t].st \in {"aborted", "polled"} /\ job'[t].slot \in {"none", job[t].slot}

LEMMA CancelledIs ==
  ASSUME WorkersFit, SlotsFit, ControlAssumption, NEW t \in {ptTask, zoomTask}, NEW others, DOMAIN others = Workers, Cancelled(t, others)
  PROVE  /\ DOMAIN job' = Workers /\ \A w \in Workers \ {t} : job'[w] = others[w]
         /\ t \in Tasks /\ Running(t) => Goes(t, job'[t]) /\ Ends(t)
         /\ t \in Tasks /\ ~Running(t) => job'[t] = others[t]
<1>1. t \in Tasks \union {None} /\ None \notin Tasks
  BY DEF SlotsFit, ControlAssumption, None
<1>2. CASE t \in Tasks /\ Running(t)
  <2>1. Placed(job[t]) /\ DOMAIN job[t] = CellFields /\ t \in Workers
    BY <1>2 DEF WorkersFit, Placed, Workers
  <2> DEFINE a == Over(t, "aborted")
             p == [job[t] EXCEPT !.st = "polled"]
  <2>2. Placed(a) /\ a.st = "aborted" /\ a.wish = job[t].wish /\ a.slot = "none"
    BY <2>1, OverIs
  <2>3. Placed(p) /\ p.st = "polled" /\ p.wish = job[t].wish /\ p.slot = job[t].slot /\ p.prog = job[t].prog
    <3>1. /\ DOMAIN p = CellFields /\ p.st = "polled" /\ p.wish = job[t].wish /\ p.slot = job[t].slot
          /\ p.prog = job[t].prog /\ p.i = job[t].i /\ p.k = job[t].k
      BY <2>1 DEF CellFields
    <3> HIDE DEF p
    <3> QED BY <2>1, <3>1 DEF Placed
  <2>4. Aborted(t) = {a, p}
    BY <1>1, <1>2 DEF Aborted
  <2> HIDE DEF a, p
  <2>5. \E gone \in {a, p} : job' = [others EXCEPT ![t] = gone]
    <3>1. {a, p} # {}
      OBVIOUS
    <3> QED BY <2>4, <3>1 DEF Cancelled
  <2>6. DOMAIN job' = Workers /\ job'[t] \in {a, p} /\ \A w \in Workers \ {t} : job'[w] = others[w]
    BY <2>1, <2>5
  <2>7. Goes(t, job'[t]) /\ Ends(t)
    BY <1>2, <2>2, <2>3, <2>6 DEF Goes, Ends, Running
  <2> QED BY <1>2, <2>6, <2>7
<1>3. CASE ~(t \in Tasks /\ Running(t))
  <2>1. Aborted(t) = {}
    BY <1>1, <1>3 DEF Aborted
  <2>2. job' = others
    BY <2>1 DEF Cancelled
  <2> QED BY <1>3, <2>2
<1> QED BY <1>2, <1>3

LEMMA OnwardGoes ==
  ASSUME WorkersFit, NEW j \in Workers, Running(j), ~Ended(j), NEW d, d = Onward(job[j])
  PROVE  /\ Goes(j, d) /\ d.st = job[j].st /\ d.prog = job[j].prog /\ d.i = job[j].i + 1 /\ d.k = 1
         /\ d.seen = job[j].seen /\ d.wrote = job[j].wrote /\ d.slot = job[j].slot
<1>1. Placed(job[j]) /\ job[j].i <= Len(job[j].prog) /\ DOMAIN job[j] = CellFields
  BY AskingIs DEF Placed
<1>2. /\ DOMAIN d = CellFields /\ d.i = job[j].i + 1 /\ d.k = 1 /\ d.st = job[j].st /\ d.wish = job[j].wish /\ d.prog = job[j].prog
      /\ d.seen = job[j].seen /\ d.wrote = job[j].wrote /\ d.slot = job[j].slot
  BY <1>1, OnwardIs
<1>3. Placed(d)
  BY <1>1, <1>2, OnwardPlaced
<1> QED BY <1>2, <1>3 DEF Goes, Running

\* A task is only ended by what takes its slot.
LEMMA AbortTaskIs ==
  ASSUME WorkersFit, SlotsFit, ControlAssumption, NEW j \in Jobs, AbortTask(j)
  PROVE  /\ WorkersFit' /\ SlotsFit' /\ Goes(j, job'[j]) /\ Onwards(j) /\ job'[j].slot = job[j].slot
         /\ \A w \in Workers \ {j} : job'[w] = job[w] \/ (w \in Tasks /\ Goes(w, job'[w]) /\ Ends(w))
         /\ Step(j).do = "abort_pt" => ptTask' = None
<1>1. j \in Workers /\ j \notin Tasks /\ j # None /\ Tasks \subseteq Workers /\ None \notin Tasks
  BY DEF Workers, ControlAssumption, None
<1>2. Running(j) /\ ~Ended(j) /\ UNCHANGED asking
  BY DEF AbortTask, At
<1> DEFINE others == [job EXCEPT ![j] = Onward(job[j])]
<1>3. \/ Step(j).do = "abort_pt" /\ Cancelled(ptTask, others) /\ ptTask' = None /\ UNCHANGED zoomTask
      \/ Step(j).do = "abort_zoom" /\ Cancelled(zoomTask, others) /\ zoomTask' = None /\ UNCHANGED ptTask
  BY DEF AbortTask, At
<1>4. DOMAIN others = Workers /\ others[j] = Onward(job[j]) /\ \A w \in Workers \ {j} : others[w] = job[w]
  BY <1>1 DEF WorkersFit
<1> HIDE DEF others
<1>5. ptTask \in Tasks \union {None} /\ zoomTask \in Tasks \union {None}
  BY DEF SlotsFit
<1>6. ASSUME NEW t \in {ptTask, zoomTask}, Cancelled(t, others)
      PROVE  /\ DOMAIN job' = Workers /\ job'[j] = Onward(job[j])
             /\ \A w \in Workers \ {j} : job'[w] = job[w] \/ (w = t /\ w \in Tasks /\ Goes(w, job'[w]) /\ Ends(w))
             /\ t \in Tasks => job'[t].st # "run"
  <2>1. /\ DOMAIN job' = Workers /\ \A w \in Workers \ {t} : job'[w] = others[w]
        /\ t \in Tasks /\ Running(t) => Goes(t, job'[t]) /\ Ends(t)
        /\ t \in Tasks /\ ~Running(t) => job'[t] = others[t]
    BY <1>4, <1>6, CancelledIs
  <2>2. t # j
    BY <1>1, <1>5
  <2>3. job'[j] = Onward(job[j])
    BY <1>1, <1>4, <2>1, <2>2
  <2>4. ASSUME NEW w \in Workers \ {j}, w # t PROVE job'[w] = job[w]
    BY <1>4, <2>1, <2>4
  <2>5. ASSUME t \in Workers PROVE job'[t] = job[t] \/ (t \in Tasks /\ Goes(t, job'[t]) /\ Ends(t))
    <3>1. t \in Tasks
      BY <1>1, <1>5, <2>5 DEF ControlAssumption, Workers, None
    <3> QED BY <1>4, <2>1, <2>2, <2>5, <3>1
  <2>6. t \in Tasks => job'[t].st # "run"
    BY <1>1, <1>4, <2>1, <2>2 DEF Ends, Running
  <2> QED BY <2>1, <2>3, <2>4, <2>5, <2>6
<1>7. Goes(j, job'[j]) /\ Onwards(j) /\ job'[j].slot = job[j].slot
  BY <1>1, <1>2, <1>3, <1>6, OnwardGoes DEF Onwards
<1>8. DOMAIN job' = Workers /\ \A w \in Workers \ {j} : job'[w] = job[w] \/ (w \in Tasks /\ Goes(w, job'[w]) /\ Ends(w))
  BY <1>3, <1>6
<1>9. WorkersFit'
  BY <1>2, <1>7, <1>8, WorkersStay DEF asking
<1>10. SlotsFit'
  <2>1. ASSUME NEW t \in Tasks, Running(t)'
        PROVE  Running(t) /\ job'[t].prog = job[t].prog
    BY <1>1, <1>8, <2>1 DEF Ends, Running
  <2>2. CASE Step(j).do = "abort_pt" /\ Cancelled(ptTask, others) /\ ptTask' = None /\ UNCHANGED zoomTask
    <3>1. \A t \in Tasks : Running(t)' => t # ptTask
      BY <1>6, <2>2 DEF Running
    <3> QED BY <2>1, <2>2, <3>1 DEF SlotsFit
  <2>3. CASE Step(j).do = "abort_zoom" /\ Cancelled(zoomTask, others) /\ zoomTask' = None /\ UNCHANGED ptTask
    <3>1. \A t \in Tasks : Running(t)' => t # zoomTask
      BY <1>6, <2>3 DEF Running
    <3> QED BY <2>1, <2>3, <3>1 DEF SlotsFit
  <2> QED BY <1>3, <2>2, <2>3
<1> QED BY <1>3, <1>7, <1>8, <1>9, <1>10

\* A desk's wish is one of those there are, and what it names is a word.
LEMMA WishIs ==
  ASSUME WorkersFit, ControlAssumption, NEW r \in desk
  PROVE  IsWish(r) /\ r.token \in Words /\ r.zoom \in Words /\ r.action \in Words
<1>1. IsWish(r)
  BY DEF WorkersFit, ControlAssumption
<1>2. r \in UNION Desks
  BY DEF WorkersFit
<1> QED BY <1>1, <1>2 DEF Words

\* A request that comes gets the program for what it asks.
LEMMA ArriveIs ==
  ASSUME WorkersFit, SlotsFit, ControlAssumption, NEW j \in Jobs, NEW r \in desk, Arrive(j, r)
  PROVE  /\ WorkersFit' /\ SlotsFit' /\ Starts(j, job'[j]) /\ \A w \in Workers \ {j} : job'[w] = job[w]
         /\ job'[j].wish = r /\ job'[j].i = 1 /\ job'[j].slot = "none" /\ job'[j].wrote = FALSE
<1>1. j \in Workers /\ j \notin Tasks
  BY DEF Workers, ControlAssumption
<1>2. job[j].st = "idle" /\ job[j] = Idle
  BY <1>1 DEF Arrive, WorkersFit
<1> DEFINE d == [job[j] EXCEPT !.st = "run", !.wish = r, !.prog = Program(r, caps), !.entry = entry]
<1>3. job' = [job EXCEPT ![j] = d]
  BY DEF Arrive
<1>4. /\ DOMAIN d = CellFields /\ d.st = "run" /\ d.wish = r /\ d.prog = Program(r, caps) /\ d.i = 1 /\ d.k = 1 /\ d.slot = "none"
      /\ d.wrote = FALSE
  <2>1. DOMAIN Idle = CellFields /\ Idle.i = 1 /\ Idle.k = 1 /\ Idle.slot = "none" /\ Idle.wrote = FALSE
    BY DEF Idle, CellFields
  <2> HIDE DEF Idle
  <2> QED BY <1>2, <2>1 DEF CellFields
<1> HIDE DEF d
<1>5. IsProgram(d.prog, r)
  BY <1>4, WishIs, Programs
<1>6. Placed(d)
  <2>1. d.prog \in Seq(AllSteps)
    BY <1>5, AllPrograms
  <2>2. d.i \in 1 .. Len(d.prog) + 1
    BY <1>4, <2>1, LenProperties
  <2> QED BY <1>4, <2>1, <2>2, PlacedFirst
<1>7. DOMAIN job' = Workers /\ job'[j] = d /\ \A w \in Workers \ {j} : job'[w] = job[w]
  BY <1>1, <1>3, OneOther
<1>8. Starts(j, job'[j])
  BY <1>1, <1>4, <1>5, <1>6, <1>7 DEF Starts
<1>9. UNCHANGED <<desk, caps, ptTask, zoomTask>>
  BY DEF Arrive, asking, slots
<1>10. WorkersFit'
  BY <1>7, <1>8, <1>9, WorkersStay
<1>11. SlotsFit'
  <2>1. \A t \in Tasks : job'[t] = job[t]
    BY <1>1, <1>7 DEF Workers
  <2> QED BY <1>9, <2>1 DEF SlotsFit, Running
<1> QED BY <1>4, <1>7, <1>8, <1>10, <1>11

\* The programs that the properties are about, step by step.
LEMMA Shapes ==
  /\ Len(Storing) = 3 /\ Storing[1] = Run(<<Read("get_ptz_preset")>>) /\ Storing[2] = Do("allocate")
  /\ Storing[3] = Run(<<Ask("set_ptz_preset", "none", "mine")>>)
  /\ Len(WriteClock) = 4 /\ WriteClock[1] = Do("lock") /\ WriteClock[2] = Run(<<Read("get_general")>>)
  /\ WriteClock[3] = Run(<<Ask("set_general", "clock", "mine")>>) /\ WriteClock[4] = Do("forget_clock")
  /\ Len(ReadClock) = 3 /\ ReadClock[1] = Do("look_at_clock") /\ ReadClock[2] = Try(<<Read("get_general")>>)
  /\ ReadClock[3] = Do("keep_clock")
  /\ \A f : /\ Len(Titling(f)) = 4 /\ Titling(f)[1] = Try(<<Read("get_general")>>) /\ Titling(f)[2] = Do("lock")
            /\ Titling(f)[3] = Run(<<Read("get_general")>>) /\ Titling(f)[4] = Run(<<Ask("set_general", f, "mine")>>)
  /\ Len(LoginClock) = 1 /\ LoginClock[1] = Run(<<Read("get_time"), Ask("set_time", "clock", "mine")>>)
<1>1. WriteClock = <<Do("lock"), Run(<<Read("get_general")>>), Run(<<Ask("set_general", "clock", "mine")>>), Do("forget_clock")>>
  BY JoinedThreeOne DEF WriteClock, WriteGeneral
<1>2. /\ Len(WriteClock) = 4 /\ WriteClock[1] = Do("lock") /\ WriteClock[2] = Run(<<Read("get_general")>>)
      /\ WriteClock[3] = Run(<<Ask("set_general", "clock", "mine")>>) /\ WriteClock[4] = Do("forget_clock")
  BY <1>1
<1>3. /\ Len(Storing) = 3 /\ Storing[1] = Run(<<Read("get_ptz_preset")>>) /\ Storing[2] = Do("allocate")
      /\ Storing[3] = Run(<<Ask("set_ptz_preset", "none", "mine")>>)
  BY DEF Storing
<1>4. /\ Len(ReadClock) = 3 /\ ReadClock[1] = Do("look_at_clock") /\ ReadClock[2] = Try(<<Read("get_general")>>)
      /\ ReadClock[3] = Do("keep_clock")
  BY DEF ReadClock
<1>5. \A f : /\ Len(Titling(f)) = 4 /\ Titling(f)[1] = Try(<<Read("get_general")>>) /\ Titling(f)[2] = Do("lock")
             /\ Titling(f)[3] = Run(<<Read("get_general")>>) /\ Titling(f)[4] = Run(<<Ask("set_general", f, "mine")>>)
  BY DEF Titling
<1>6. Len(LoginClock) = 1 /\ LoginClock[1] = Run(<<Read("get_time"), Ask("set_time", "clock", "mine")>>)
  BY DEF LoginClock
<1> QED BY <1>2, <1>3, <1>4, <1>5, <1>6

LEMMA Kinds ==
  /\ \A asks : Run(asks).do = "run" /\ Run(asks).asks = asks /\ Run(asks).try = FALSE
  /\ \A asks : Try(asks).do = "run" /\ Try(asks).asks = asks /\ Try(asks).try = TRUE
  /\ \A what : Do(what).do = what /\ Do(what).try = FALSE
  BY DEF Run, Try, Do

LEMMA Doing ==
  /\ \A i \in 1 .. Len(Storing) : Storing[i].do = IF i = 2 THEN "allocate" ELSE "run"
  /\ \A i \in 1 .. Len(WriteClock) : WriteClock[i].do = IF i = 1 THEN "lock" ELSE IF i = 4 THEN "forget_clock" ELSE "run"
  /\ \A i \in 1 .. Len(ReadClock) : ReadClock[i].do = IF i = 1 THEN "look_at_clock" ELSE IF i = 3 THEN "keep_clock" ELSE "run"
  /\ \A f : \A i \in 1 .. Len(Titling(f)) : Titling(f)[i].do = IF i = 2 THEN "lock" ELSE "run"
  /\ \A i \in 1 .. Len(LoginClock) : LoginClock[i].do = "run"
<1>1. \A i \in 1 .. 4 : i = 1 \/ i = 2 \/ i = 3 \/ i = 4
  OBVIOUS
<1>2. \A i \in 1 .. 3 : i = 1 \/ i = 2 \/ i = 3
  OBVIOUS
<1>3. \A i \in 1 .. 1 : i = 1
  OBVIOUS
<1>4. \A i \in 1 .. Len(WriteClock) : WriteClock[i].do = IF i = 1 THEN "lock" ELSE IF i = 4 THEN "forget_clock" ELSE "run"
  BY <1>1, Shapes, Kinds
<1>5. \A f : \A i \in 1 .. Len(Titling(f)) : Titling(f)[i].do = IF i = 2 THEN "lock" ELSE "run"
  <2>1. ASSUME NEW f, NEW i \in 1 .. Len(Titling(f)) PROVE Titling(f)[i].do = IF i = 2 THEN "lock" ELSE "run"
    <3> DEFINE p == Titling(f)
    <3>1. /\ i \in 1 .. 4 /\ p[1] = Try(<<Read("get_general")>>) /\ p[2] = Do("lock")
          /\ p[3] = Run(<<Read("get_general")>>) /\ p[4] = Run(<<Ask("set_general", f, "mine")>>)
      BY Shapes
    <3> HIDE DEF p
    <3>2. p[i].do = IF i = 2 THEN "lock" ELSE "run"
      BY <1>1, <3>1, Kinds
    <3> QED BY <3>2 DEF p
  <2> QED BY <2>1
<1>6. \A i \in 1 .. Len(Storing) : Storing[i].do = IF i = 2 THEN "allocate" ELSE "run"
  BY <1>2, Shapes, Kinds
<1>7. \A i \in 1 .. Len(ReadClock) : ReadClock[i].do = IF i = 1 THEN "look_at_clock" ELSE IF i = 3 THEN "keep_clock" ELSE "run"
  BY <1>2, Shapes, Kinds
<1>8. \A i \in 1 .. Len(LoginClock) : LoginClock[i].do = "run"
  BY <1>3, Shapes, Kinds
<1> QED BY <1>4, <1>5, <1>6, <1>7, <1>8

\* One that spawns a task was not asked to stop.
LEMMA SpawnersMove ==
  ASSUME WorkersFit, ControlAssumption, NEW j \in Jobs, At(j, "spawn_pt") \/ At(j, "spawn_zoom")
  PROVE  job[j].wish.action # "Stop"
<1>1. Running(j) /\ ~Ended(j) /\ Step(j).do \in {"spawn_pt", "spawn_zoom"} /\ j \in Workers
  BY DEF At, Workers
<1>2. IsProgram(job[j].prog, job[j].wish) /\ job[j].i \in 1 .. Len(job[j].prog)
  <2>1. JobFits(j)
    BY DEF WorkersFit
  <2>2. IsProgram(job[j].prog, job[j].wish)
    BY <1>1, <2>1 DEF JobFits, Running
  <2>3. job[j].i <= Len(job[j].prog) /\ job[j].i \in Nat \ {0} /\ Len(job[j].prog) \in Nat
    BY <1>1, AskingIs
  <2> QED BY <2>2, <2>3
<1>3. job[j].prog \notin Seq(PlainSteps)
  <2>1. ASSUME job[j].prog \in Seq(PlainSteps) PROVE Step(j) \in PlainSteps
    BY <1>2, <2>1, ElementOfSeq DEF Step
  <2> QED BY <1>1, <2>1 DEF PlainSteps, Calls, Notes, PlainDoings
<1>4. job[j].prog # LoginClock /\ job[j].prog \notin {Storing, WriteClock, ReadClock, Titling("name"), Titling("dates")}
  BY <1>1, <1>2, Doing DEF Step
<1> QED BY <1>2, <1>3, <1>4 DEF IsProgram

LEMMA StartedIs ==
  ASSUME WorkersFit, NEW j \in Jobs, NEW t \in Tasks, NEW p \in {TimedMove, ZoomLoop}, job[j].wish.action # "Stop",
         ControlAssumption
  PROVE  LET d == Started(t, j, p) IN Starts(t, d) /\ d.prog = p /\ d.slot = "none" /\ d.wrote = FALSE
<1> DEFINE d == Started(t, j, p)
<1>1. /\ DOMAIN d = CellFields /\ d.st = "run" /\ d.wish = job[j].wish /\ d.prog = p /\ d.i = 1 /\ d.k = 1 /\ d.slot = "none"
      /\ d.wrote = FALSE
  <2>1. DOMAIN Idle = CellFields /\ Idle.i = 1 /\ Idle.k = 1 /\ Idle.slot = "none" /\ Idle.wrote = FALSE
    BY DEF Idle, CellFields
  <2> HIDE DEF Idle
  <2> QED BY <2>1 DEF Started, CellFields
<1> HIDE DEF d
<1>2. p \in Seq(AllSteps)
  BY AllPrograms
<1>3. d.i \in 1 .. Len(d.prog) + 1
  BY <1>1, <1>2, LenProperties
<1>4. Placed(d)
  BY <1>1, <1>2, <1>3, PlacedFirst
<1>5. t \notin Jobs
  BY DEF ControlAssumption
<1>6. Starts(t, d)
  BY <1>1, <1>4, <1>5 DEF Starts
<1> QED BY <1>1, <1>6 DEF d

\* The task that is spawned takes the slot of the one that is ended.
LEMMA SpawnIs ==
  ASSUME WorkersFit, SlotsFit, ControlAssumption, NEW j \in Jobs, NEW t \in Tasks, Spawn(j, t)
  PROVE  /\ WorkersFit' /\ SlotsFit' /\ Goes(j, job'[j]) /\ Onwards(j) /\ job'[j].slot = job[j].slot
         /\ Starts(t, job'[t]) /\ job'[t].slot = "none"
         /\ \A w \in Workers \ {j, t} : job'[w] = job[w] \/ (w \in Tasks /\ Goes(w, job'[w]) /\ Ends(w))
<1>1. j \in Workers /\ j \notin Tasks /\ j # None /\ Tasks \subseteq Workers /\ None \notin Tasks
  BY DEF Workers, ControlAssumption, None
<1>2. Running(j) /\ ~Ended(j) /\ UNCHANGED asking /\ job[t].st = "idle" /\ j # t
  BY <1>1 DEF Spawn, At
<1>3. job[j].wish.action # "Stop"
  BY SpawnersMove DEF Spawn
<1> DEFINE others(p) == [job EXCEPT ![j] = Onward(job[j]), ![t] = Started(t, j, p)]
<1>4. \/ Cancelled(ptTask, others(TimedMove)) /\ ptTask' = t /\ UNCHANGED zoomTask
      \/ Cancelled(zoomTask, others(ZoomLoop)) /\ zoomTask' = t /\ UNCHANGED ptTask
  BY DEF Spawn
<1>5. \A p : /\ DOMAIN others(p) = Workers /\ others(p)[j] = Onward(job[j]) /\ others(p)[t] = Started(t, j, p)
             /\ \A w \in Workers \ {j, t} : others(p)[w] = job[w]
  BY <1>1, <1>2 DEF WorkersFit
<1> HIDE DEF others
<1>6. ptTask \in Tasks \union {None} /\ zoomTask \in Tasks \union {None}
  BY DEF SlotsFit
<1>7. ASSUME NEW s \in {ptTask, zoomTask}, NEW p \in {TimedMove, ZoomLoop}, Cancelled(s, others(p))
      PROVE  /\ DOMAIN job' = Workers /\ job'[j] = Onward(job[j]) /\ job'[t] = Started(t, j, p)
             /\ \A w \in Workers \ {j, t} : job'[w] = job[w] \/ (w = s /\ w \in Tasks /\ Goes(w, job'[w]) /\ Ends(w))
             /\ s \in Tasks \ {t} => job'[s].st # "run"
  <2>1. /\ DOMAIN job' = Workers /\ \A w \in Workers \ {s} : job'[w] = others(p)[w]
        /\ s \in Tasks /\ Running(s) => Goes(s, job'[s]) /\ Ends(s)
        /\ s \in Tasks /\ ~Running(s) => job'[s] = others(p)[s]
    BY <1>5, <1>7, CancelledIs
  <2>2. s # j
    BY <1>1, <1>6
  <2>3. job'[j] = Onward(job[j])
    BY <1>1, <1>5, <2>1, <2>2
  <2>4. job'[t] = Started(t, j, p)
    <3>1. ~Running(t)
      BY <1>2 DEF Running
    <3> QED BY <1>1, <1>5, <2>1, <3>1
  <2>5. ASSUME NEW w \in Workers \ {j, t}, w # s PROVE job'[w] = job[w]
    BY <1>5, <2>1, <2>5
  <2>6. ASSUME s \in Workers \ {j, t} PROVE job'[s] = job[s] \/ (s \in Tasks /\ Goes(s, job'[s]) /\ Ends(s))
    <3>1. s \in Tasks
      BY <1>1, <1>6, <2>6 DEF ControlAssumption, Workers, None
    <3> QED BY <1>5, <2>1, <2>6, <3>1
  <2>7. s \in Tasks \ {t} => job'[s].st # "run"
    BY <1>1, <1>5, <2>1, <2>2 DEF Ends, Running
  <2> QED BY <2>1, <2>3, <2>4, <2>5, <2>6, <2>7
<1>8. Goes(j, job'[j]) /\ Onwards(j) /\ job'[j].slot = job[j].slot
  BY <1>1, <1>2, <1>4, <1>7, OnwardGoes DEF Onwards
<1>13. \A p \in {TimedMove, ZoomLoop} :
          LET d == Started(t, j, p) IN Starts(t, d) /\ d.prog = p /\ d.slot = "none"
  <2>1. ASSUME NEW p \in {TimedMove, ZoomLoop}
        PROVE  LET d == Started(t, j, p) IN Starts(t, d) /\ d.prog = p /\ d.slot = "none"
    BY <1>3, StartedIs
  <2> QED BY <2>1
<1>9. Starts(t, job'[t]) /\ job'[t].slot = "none"
  BY <1>4, <1>7, <1>13
<1>10. DOMAIN job' = Workers /\ \A w \in Workers \ {j, t} : job'[w] = job[w] \/ (w \in Tasks /\ Goes(w, job'[w]) /\ Ends(w))
  BY <1>4, <1>7
<1>11. WorkersFit'
  BY <1>1, <1>2, <1>8, <1>9, <1>10, WorkersStay DEF asking
<1>12. SlotsFit'
  <2>1. ASSUME NEW u \in Tasks \ {t}, Running(u)'
        PROVE  Running(u) /\ job'[u].prog = job[u].prog
    BY <1>1, <1>10, <2>1 DEF Ends, Running
  <2>2. CASE Cancelled(ptTask, others(TimedMove)) /\ ptTask' = t /\ UNCHANGED zoomTask
    <3>1. \A u \in Tasks \ {t} : Running(u)' => u # ptTask
      BY <1>7, <2>2 DEF Running
    <3>2. job'[t].prog = TimedMove
      BY <1>7, <1>13, <2>2
    <3> QED BY <1>6, <2>1, <2>2, <3>1, <3>2 DEF SlotsFit
  <2>3. CASE Cancelled(zoomTask, others(ZoomLoop)) /\ zoomTask' = t /\ UNCHANGED ptTask
    <3>1. \A u \in Tasks \ {t} : Running(u)' => u # zoomTask
      BY <1>7, <2>3 DEF Running
    <3>2. job'[t].prog = ZoomLoop
      BY <1>7, <1>13, <2>3
    <3> QED BY <1>6, <2>1, <2>3, <3>1, <3>2 DEF SlotsFit
  <2> QED BY <1>4, <2>2, <2>3
<1> QED BY <1>8, <1>9, <1>10, <1>11, <1>12

\* The entry's own steps leave the workers and their slots as they are.
LEMMA EntryStays ==
  ASSUME WorkersFit, SlotsFit, UNCHANGED <<desk, caps, job, slots>>
  PROVE  WorkersFit' /\ SlotsFit'
<1>1. \A w \in Workers : Placed(job[w])' <=> Placed(job[w])
  BY DEF Placed
<1>2. \A j \in Jobs : JobFits(j)' <=> JobFits(j)
  BY DEF JobFits
<1>3. \A t \in Tasks : TaskFits(t)' <=> TaskFits(t)
  BY DEF TaskFits
<1> QED BY <1>1, <1>2, <1>3 DEF WorkersFit, SlotsFit, slots, Running

-----------------------------------------------------------------------------
(* What holds of the workers and the slots *)

LEMMA WorkInit == ASSUME Init, ControlAssumption PROVE WorkersFit /\ SlotsFit
<1>1. \A w \in Workers : job[w] = Idle
  BY DEF Init
<1>2. Placed(Idle) /\ Idle.st = "idle"
  BY IdlePlaced
<1>3. \A j \in Jobs : JobFits(j)
  BY <1>1, <1>2 DEF JobFits, Workers
<1>4. \A t \in Tasks : TaskFits(t)
  BY <1>1, <1>2 DEF TaskFits, Workers
<1>5. WorkersFit
  BY <1>1, <1>2, <1>3, <1>4 DEF WorkersFit, Init
<1>6. SlotsFit
  BY <1>1, <1>2 DEF SlotsFit, Init, Running, Workers
<1> QED BY <1>5, <1>6

\* A worker that is served alone, in whichever way.
Working(w) ==
    \/ Serve(w)
    \/ w \in Jobs /\ (TakeGeneralLock(w) \/ Allocate(w) \/ FindHome(w) \/ DropStop(w) \/ LookAtClock(w) \/ KeepClock(w) \/ ForgetClock(w))
    \/ w \in Tasks /\ (ZoomOn(w) \/ Gone(w) \/ LastPoll(w))

LEMMA WorkingIsAlone ==
  ASSUME WorkersFit, ControlAssumption, NEW w \in Workers, Working(w)
  PROVE  Alone(w)
<1>1. CASE Serve(w)
  BY <1>1, FinishIs, RefuseIs, ReplyIs, NoReplyIs, NoAnswerIs, AgainIs DEF Serve
<1>2. CASE w \in Jobs /\ (TakeGeneralLock(w) \/ Allocate(w) \/ FindHome(w) \/ DropStop(w) \/ LookAtClock(w) \/ KeepClock(w) \/ ForgetClock(w))
  BY <1>2, LockIs, AllocateIs, FindHomeIs, DropStopIs, LookIs, KeepIs, ForgetIs
<1>3. CASE w \in Tasks /\ (ZoomOn(w) \/ Gone(w) \/ LastPoll(w))
  BY <1>3, ZoomOnIs, GoneIs, LastPollIs
<1> QED BY <1>1, <1>2, <1>3 DEF Working

\* The kinds of step there are.
LEMMA NextIs ==
  ASSUME Next \/ Served \/ UNCHANGED vars
  PROVE  \/ \E j \in Jobs, r \in desk : Arrive(j, r)
         \/ \E w \in Workers : Working(w)
         \/ \E j \in Jobs : AbortTask(j)
         \/ \E j \in Jobs, t \in Tasks : Spawn(j, t)
         \/ Expire \/ Reload \/ UNCHANGED vars
<1>1. ASSUME NEW w \in Workers, Serve(w) PROVE Working(w)
  BY <1>1 DEF Working
<1>2. ASSUME NEW w \in Jobs,
             TakeGeneralLock(w) \/ Allocate(w) \/ FindHome(w) \/ DropStop(w) \/ LookAtClock(w) \/ KeepClock(w) \/ ForgetClock(w)
      PROVE  w \in Workers /\ Working(w)
  BY <1>2 DEF Working, Workers
<1>3. ASSUME NEW w \in Tasks, ZoomOn(w) \/ Gone(w) \/ LastPoll(w) PROVE w \in Workers /\ Working(w)
  BY <1>3 DEF Working, Workers
<1>4. CASE Served \/ UNCHANGED vars
  BY <1>4 DEF Served
<1>5. CASE Next
  <2>1. CASE \E j \in Jobs : \E w \in desk : Arrive(j, w)
    BY <2>1
  <2>2. CASE \E j \in Workers : Serve(j)
    BY <2>2, <1>1
  <2>3. CASE \E j \in Jobs : AbortTask(j) \/ TakeGeneralLock(j) \/ Allocate(j) \/ FindHome(j) \/ DropStop(j)
    BY <2>3, <1>2
  <2>4. CASE \E j \in Jobs : LookAtClock(j) \/ KeepClock(j) \/ ForgetClock(j)
    BY <2>4, <1>2
  <2>5. CASE \E j \in Jobs, t \in Tasks : Spawn(j, t)
    BY <2>5
  <2>6. CASE \E t \in Tasks : ZoomOn(t) \/ Gone(t) \/ LastPoll(t)
    BY <2>6, <1>3
  <2>7. CASE Expire \/ Reload
    BY <2>7
  <2> QED BY <1>5, <2>1, <2>2, <2>3, <2>4, <2>5, <2>6, <2>7 DEF Next
<1> QED BY <1>4, <1>5

LEMMA WorkNext ==
  ASSUME WorkersFit, SlotsFit, ControlAssumption, Next \/ Served \/ UNCHANGED vars
  PROVE  WorkersFit' /\ SlotsFit'
<1>1. CASE \E j \in Jobs, r \in desk : Arrive(j, r)
  BY <1>1, ArriveIs
<1>2. CASE \E w \in Workers : Working(w)
  BY <1>2, WorkingIsAlone, AloneStays
<1>3. CASE \E j \in Jobs : AbortTask(j)
  BY <1>3, AbortTaskIs
<1>4. CASE \E j \in Jobs, t \in Tasks : Spawn(j, t)
  BY <1>4, SpawnIs
<1>5. CASE Expire \/ Reload \/ UNCHANGED vars
  <2>1. UNCHANGED <<desk, caps, job, slots>>
    BY <1>5 DEF Expire, Reload, vars, asking
  <2> QED BY <2>1, EntryStays
<1> QED BY <1>1, <1>2, <1>3, <1>4, <1>5, NextIs

\* A task that was not told to end is the one in its slot, where the next request finds
\* it, however many requests spawn and end tasks and however often the configuration is
\* read again (spawn_pt_task, spawn_zoom_task, ptz.rs; sync_with_config, state.rs).
THEOREM IsHeld == Spec => []TasksAreHeld
<1>1. Init => WorkersFit /\ SlotsFit
  BY WorkInit, ControlAssumption
<1>2. WorkersFit /\ SlotsFit /\ [Next \/ Served]_vars => (WorkersFit /\ SlotsFit)'
  BY WorkNext, ControlAssumption
<1>3. WorkersFit /\ SlotsFit => TasksAreHeld
  BY DEF SlotsFit, TasksAreHeld
<1> QED BY <1>1, <1>2, <1>3, PTL DEF Spec

-----------------------------------------------------------------------------
(* How the programs that the properties are about are gone through *)

Special == {Storing, WriteClock, ReadClock, Titling("name"), Titling("dates")}

LEMMA OneAsk ==
  ASSUME WorkersFit, NEW w \in Workers, ~Ended(w), NEW a, Step(w) \in {Run(<<a>>), Try(<<a>>)}
  PROVE  Now(w) = a /\ job[w].k = 1 /\ Len(Step(w).asks) = 1 /\ Step(w).do = "run"
<1>1. Step(w).do = "run" /\ Step(w).asks = <<a>>
  BY Kinds
<1>2. job[w].k \in 1 .. Len(Step(w).asks)
  BY <1>1, AskingIs, StepAt DEF Step
<1>3. Len(<<a>>) = 1 /\ <<a>>[1] = a
  OBVIOUS
<1>4. Len(Step(w).asks) = 1
  BY <1>1, <1>3
<1>5. job[w].k = 1
  BY <1>2, <1>4
<1> QED BY <1>1, <1>3, <1>4, <1>5 DEF Now

LEMMA SpecialStep ==
  ASSUME WorkersFit, NEW w \in Workers, ~Ended(w)
  PROVE  /\ job[w].prog = Storing => \/ job[w].i = 1 /\ Step(w) = Run(<<Read("get_ptz_preset")>>)
                                     \/ job[w].i = 2 /\ Step(w) = Do("allocate")
                                     \/ job[w].i = 3 /\ Step(w) = Run(<<Ask("set_ptz_preset", "none", "mine")>>)
         /\ job[w].prog = WriteClock => \/ job[w].i = 1 /\ Step(w) = Do("lock")
                                        \/ job[w].i = 2 /\ Step(w) = Run(<<Read("get_general")>>)
                                        \/ job[w].i = 3 /\ Step(w) = Run(<<Ask("set_general", "clock", "mine")>>)
                                        \/ job[w].i = 4 /\ Step(w) = Do("forget_clock")
         /\ job[w].prog = ReadClock => \/ job[w].i = 1 /\ Step(w) = Do("look_at_clock")
                                       \/ job[w].i = 2 /\ Step(w) = Try(<<Read("get_general")>>)
                                       \/ job[w].i = 3 /\ Step(w) = Do("keep_clock")
         /\ \A f : job[w].prog = Titling(f) => \/ job[w].i = 1 /\ Step(w) = Try(<<Read("get_general")>>)
                                               \/ job[w].i = 2 /\ Step(w) = Do("lock")
                                               \/ job[w].i = 3 /\ Step(w) = Run(<<Read("get_general")>>)
                                               \/ job[w].i = 4 /\ Step(w) = Run(<<Ask("set_general", f, "mine")>>)
         /\ job[w].prog = LoginClock =>
                job[w].i = 1 /\ Step(w) = Run(<<Read("get_time"), Ask("set_time", "clock", "mine")>>)
<1>1. job[w].i \in 1 .. Len(job[w].prog) /\ Step(w) = job[w].prog[job[w].i]
  <2>1. job[w].i \in Nat \ {0} /\ job[w].i <= Len(job[w].prog) /\ Len(job[w].prog) \in Nat
    BY AskingIs
  <2> QED BY <2>1 DEF Step
<1>2. \A i \in 1 .. 4 : i = 1 \/ i = 2 \/ i = 3 \/ i = 4
  OBVIOUS
<1>3. \A i \in 1 .. 3 : i = 1 \/ i = 2 \/ i = 3
  OBVIOUS
<1>4. \A i \in 1 .. 1 : i = 1
  OBVIOUS
<1>5. job[w].prog = Storing => \/ job[w].i = 1 /\ Step(w) = Run(<<Read("get_ptz_preset")>>)
                               \/ job[w].i = 2 /\ Step(w) = Do("allocate")
                               \/ job[w].i = 3 /\ Step(w) = Run(<<Ask("set_ptz_preset", "none", "mine")>>)
  BY <1>1, <1>3, Shapes
<1>6. job[w].prog = WriteClock => \/ job[w].i = 1 /\ Step(w) = Do("lock")
                                  \/ job[w].i = 2 /\ Step(w) = Run(<<Read("get_general")>>)
                                  \/ job[w].i = 3 /\ Step(w) = Run(<<Ask("set_general", "clock", "mine")>>)
                                  \/ job[w].i = 4 /\ Step(w) = Do("forget_clock")
  BY <1>1, <1>2, Shapes
<1>7. job[w].prog = ReadClock => \/ job[w].i = 1 /\ Step(w) = Do("look_at_clock")
                                 \/ job[w].i = 2 /\ Step(w) = Try(<<Read("get_general")>>)
                                 \/ job[w].i = 3 /\ Step(w) = Do("keep_clock")
  BY <1>1, <1>3, Shapes
<1>8. ASSUME NEW f, job[w].prog = Titling(f)
      PROVE  \/ job[w].i = 1 /\ Step(w) = Try(<<Read("get_general")>>)
             \/ job[w].i = 2 /\ Step(w) = Do("lock")
             \/ job[w].i = 3 /\ Step(w) = Run(<<Read("get_general")>>)
             \/ job[w].i = 4 /\ Step(w) = Run(<<Ask("set_general", f, "mine")>>)
  <2> DEFINE p == Titling(f)
  <2>1. /\ Len(p) = 4 /\ p[1] = Try(<<Read("get_general")>>) /\ p[2] = Do("lock")
        /\ p[3] = Run(<<Read("get_general")>>) /\ p[4] = Run(<<Ask("set_general", f, "mine")>>)
    BY Shapes
  <2>2. job[w].prog = p
    BY <1>8
  <2> HIDE DEF p
  <2> QED BY <1>1, <1>2, <2>1, <2>2
<1>9. job[w].prog = LoginClock =>
          job[w].i = 1 /\ Step(w) = Run(<<Read("get_time"), Ask("set_time", "clock", "mine")>>)
  BY <1>1, <1>4, Shapes
<1> QED BY <1>5, <1>6, <1>7, <1>8, <1>9

\* The zoom task asks for nothing but the lens.
LEMMA ZoomAsks ==
  ASSUME WorkersFit, NEW w \in Workers, ~Ended(w), job[w].prog = ZoomLoop
  PROVE  \/ Step(w).do = "run" /\ Now(w).name \in {"get_zoom", "start_zoom_focus"}
         \/ Step(w).do = "zoom_on"
<1>1. job[w].i \in 1 .. Len(job[w].prog) /\ Step(w) = job[w].prog[job[w].i]
  <2>1. job[w].i \in Nat \ {0} /\ job[w].i <= Len(job[w].prog) /\ Len(job[w].prog) \in Nat
    BY AskingIs
  <2> QED BY <2>1 DEF Step
<1>2. Step(w) \in {Run(<<Read("get_zoom")>>), Do("zoom_on"), Run(zoom_to("there"))}
  <2>1. \A i \in 1 .. 4 : i = 1 \/ i = 2 \/ i = 3 \/ i = 4
    OBVIOUS
  <2>2. /\ Len(ZoomLoop) = 4 /\ ZoomLoop[1] = Run(<<Read("get_zoom")>>) /\ ZoomLoop[2] = Do("zoom_on")
        /\ ZoomLoop[3] = Run(zoom_to("there")) /\ ZoomLoop[4] = Do("zoom_on")
    BY DEF ZoomLoop
  <2> QED BY <1>1, <2>1, <2>2
<1>3. CASE Step(w) = Run(<<Read("get_zoom")>>)
  BY <1>3, OneAsk DEF Read, Ask
<1>4. CASE Step(w) = Do("zoom_on")
  BY <1>4, Kinds
<1>5. CASE Step(w) = Run(zoom_to("there"))
  <2>1. Step(w).do = "run" /\ Step(w).asks = <<Read("get_zoom"), Ask("start_zoom_focus", "zoom", "there")>>
    BY <1>5, Kinds DEF zoom_to
  <2>2. job[w].k \in 1 .. Len(Step(w).asks)
    BY <2>1, AskingIs, StepAt DEF Step
  <2>3. Now(w) \in {Read("get_zoom"), Ask("start_zoom_focus", "zoom", "there")}
    <3>1. \A k \in 1 .. 2 : k = 1 \/ k = 2
      OBVIOUS
    <3>2. \A a, b : Len(<<a, b>>) = 2 /\ <<a, b>>[1] = a /\ <<a, b>>[2] = b
      OBVIOUS
    <3> QED BY <2>1, <2>2, <3>1, <3>2 DEF Now
  <2> QED BY <2>1, <2>3 DEF Read, Ask
<1> QED BY <1>2, <1>3, <1>4, <1>5

\* Which of the programs a step that only they have is of.
LEMMA Whose ==
  ASSUME WorkersFit, ControlAssumption, NEW w \in Workers, job[w].st \in {"run", "polled"}, ~Ended(w)
  PROVE  /\ Step(w).do = "allocate" => w \in Jobs /\ job[w].prog = Storing
         /\ Step(w).do = "lock" => w \in Jobs /\ (job[w].prog = WriteClock \/ \E f \in {"name", "dates"} : job[w].prog = Titling(f))
         /\ Step(w).do \in {"look_at_clock", "keep_clock"} => w \in Jobs /\ job[w].prog = ReadClock
         /\ Step(w).do = "forget_clock" => w \in Jobs /\ job[w].prog = WriteClock
         /\ Step(w).do = "run" /\ Now(w).name = "set_general" =>
                w \in Jobs /\ (job[w].prog = WriteClock \/ \E f \in {"name", "dates"} : job[w].prog = Titling(f))
         /\ Step(w).do = "run" /\ Now(w).name = "set_time" => w \in Jobs /\ job[w].prog = LoginClock /\ job[w].wish.service = "login"
         /\ Step(w).do = "run" /\ Now(w).name = "set_ptz_preset" => w \in Jobs
<1>1. job[w].i \in 1 .. Len(job[w].prog) /\ Step(w) = job[w].prog[job[w].i]
  <2>1. job[w].i \in Nat \ {0} /\ job[w].i <= Len(job[w].prog) /\ Len(job[w].prog) \in Nat
    BY AskingIs
  <2> QED BY <2>1 DEF Step
<1> DEFINE Ours == /\ Step(w).do \notin {"allocate", "lock", "look_at_clock", "keep_clock", "forget_clock"}
                   /\ Step(w).do = "run" => Now(w).name \notin {"set_general", "set_time"}
<1>2. CASE w \in Jobs /\ (job[w].prog \in Seq(PlainSteps) \/ job[w].prog \in Seq(MovingSteps))
  <2>1. Step(w) \in MovingSteps
    <3>1. PlainSteps \subseteq MovingSteps
      BY DEF MovingSteps
    <3> QED BY <1>1, <1>2, <3>1, ElementOfSeq
  <2>2. Step(w).do \notin {"allocate", "lock", "look_at_clock", "keep_clock", "forget_clock"}
    BY <2>1 DEF MovingSteps, PlainSteps, Calls, Notes, PlainDoings
  <2>3. ASSUME Step(w).do = "run" PROVE Now(w) \in PlainAsks
    <3>1. Step(w).asks \in Seq(PlainAsks)
      BY <2>1, <2>3 DEF MovingSteps, PlainSteps, Calls, Notes, PlainDoings
    <3>2. job[w].k \in 1 .. Len(Step(w).asks)
      BY <2>3, AskingIs, StepAt DEF Step
    <3> QED BY <3>1, <3>2, ElementOfSeq DEF Now
  <2>4. Ours
    BY <2>2, <2>3, PlainOrGeneral
  <2> QED BY <1>2, <2>4
<1>3. CASE w \in Tasks
  <2>1. job[w].prog \in {TimedMove, ZoomLoop}
    BY <1>3 DEF WorkersFit, TaskFits
  <2>2. CASE job[w].prog = TimedMove
    <3>1. \A i \in 1 .. 2 : i = 1 \/ i = 2
      OBVIOUS
    <3>2. Step(w) \in {Run(<<Ask("send_ptz", "way", "moving")>>), Run(<<Ask("send_ptz", "way", "still")>>)}
      <4>1. Len(TimedMove) = 2 /\ TimedMove[1] = Run(Moves) /\ TimedMove[2] = Run(Stops)
        BY DEF TimedMove
      <4> QED BY <1>1, <2>2, <3>1, <4>1 DEF Moves, Stops
    <3>3. Step(w).do = "run" /\ Now(w).name = "send_ptz"
      BY <3>2, OneAsk DEF Ask
    <3> QED BY <3>3
  <2>3. CASE job[w].prog = ZoomLoop
    BY <2>3, ZoomAsks
  <2> QED BY <2>1, <2>2, <2>3
<1>4. CASE w \in Jobs /\ job[w].prog \in Special
  <2>1. CASE job[w].prog = Storing
    <3>1. Step(w).do = "run" => Now(w).name \in {"get_ptz_preset", "set_ptz_preset"}
      BY <2>1, SpecialStep, OneAsk, Kinds DEF Read, Ask
    <3>2. Step(w).do \in {"run", "allocate"}
      BY <2>1, SpecialStep, Kinds
    <3> QED BY <1>4, <2>1, <3>1, <3>2
  <2>2. CASE job[w].prog = ReadClock
    <3>1. Step(w).do = "run" => Now(w).name = "get_general"
      BY <2>2, SpecialStep, OneAsk, Kinds DEF Read, Ask
    <3>2. Step(w).do \in {"run", "look_at_clock", "keep_clock"}
      BY <2>2, SpecialStep, Kinds
    <3> QED BY <1>4, <2>2, <3>1, <3>2
  <2>3. CASE job[w].prog = WriteClock
    <3>1. Step(w).do = "run" => Now(w).name \in {"get_general", "set_general"}
      BY <2>3, SpecialStep, OneAsk, Kinds DEF Read, Ask
    <3>2. Step(w).do \in {"run", "lock", "forget_clock"}
      BY <2>3, SpecialStep, Kinds
    <3> QED BY <1>4, <2>3, <3>1, <3>2
  <2>4. ASSUME NEW f \in {"name", "dates"}, job[w].prog = Titling(f)
        PROVE /\ Step(w).do \in {"run", "lock"}
              /\ Step(w).do = "run" => Now(w).name \in {"get_general", "set_general"}
    <3>1. Step(w) \in {Try(<<Read("get_general")>>), Do("lock"), Run(<<Read("get_general")>>), Run(<<Ask("set_general", f, "mine")>>)}
      <4>1. \/ Step(w) = Try(<<Read("get_general")>>) \/ Step(w) = Do("lock")
            \/ Step(w) = Run(<<Read("get_general")>>) \/ Step(w) = Run(<<Ask("set_general", f, "mine")>>)
        BY <2>4, SpecialStep
      <4> QED BY <4>1
    <3>2. Step(w) \in {Try(<<Read("get_general")>>), Run(<<Read("get_general")>>)} => Step(w).do = "run" /\ Now(w).name = "get_general"
      BY OneAsk DEF Read, Ask
    <3>3. Step(w) = Run(<<Ask("set_general", f, "mine")>>) => Step(w).do = "run" /\ Now(w).name = "set_general"
      BY OneAsk DEF Ask
    <3>4. Step(w) = Do("lock") => Step(w).do = "lock"
      BY Kinds
    <3> QED BY <3>1, <3>2, <3>3, <3>4
  <2> QED BY <1>4, <2>1, <2>2, <2>3, <2>4 DEF Special
<1>5. CASE w \in Jobs /\ job[w].prog = LoginClock /\ job[w].wish.service = "login"
  <2>1. Step(w).do = "run" /\ Step(w).asks = <<Read("get_time"), Ask("set_time", "clock", "mine")>>
    BY <1>5, SpecialStep, Kinds
  <2>2. job[w].k \in 1 .. Len(Step(w).asks)
    BY <2>1, AskingIs, StepAt DEF Step
  <2>3. Now(w) \in {Read("get_time"), Ask("set_time", "clock", "mine")}
    <3>1. \A k \in 1 .. 2 : k = 1 \/ k = 2
      OBVIOUS
    <3>2. \A a, b : Len(<<a, b>>) = 2 /\ <<a, b>>[1] = a /\ <<a, b>>[2] = b
      OBVIOUS
    <3> QED BY <2>1, <2>2, <3>1, <3>2 DEF Now
  <2>4. Now(w).name \in {"get_time", "set_time"}
    BY <2>3 DEF Read, Ask
  <2> QED BY <1>5, <2>1, <2>4
<1>6. w \in Jobs => IsProgram(job[w].prog, job[w].wish)
  BY DEF WorkersFit, JobFits
<1> QED BY <1>2, <1>3, <1>4, <1>5, <1>6 DEF IsProgram, Special, Workers

\* Such a program is gone through a step at a time.
LEMMA Progress ==
  ASSUME WorkersFit, ControlAssumption, NEW w \in Jobs, Working(w), job[w].prog \in Special, Running(w)'
  PROVE  /\ Running(w) /\ job'[w].prog = job[w].prog
         /\ \/ Asking(w) /\ job'[w].i = job[w].i /\ job'[w].seen = job[w].seen
            \/ Asking(w) /\ Heard(w) /\ job'[w].i = job[w].i + 1
            \/ ~Ended(w) /\ Step(w).try /\ job'[w].i = job[w].i + 1 /\ job'[w].seen = Nothing
            \/ ~Ended(w) /\ Step(w).do # "run" /\ Onwards(w)
            \/ job[w].prog = ReadClock /\ ~Ended(w) /\ job[w].i = 1 /\ job'[w].i = 4
<1>1. w \in Workers /\ w \notin Tasks
  BY DEF Workers, ControlAssumption
<1>2. Running(w) /\ job'[w].prog = job[w].prog
  <2>1. Goes(w, job'[w])
    BY <1>1, WorkingIsAlone DEF Alone
  <2> QED BY <1>1, <2>1 DEF Goes, Running, WorkersFit, JobFits
<1>3. ASSUME ~Ended(w), Falls(w)
      PROVE  Step(w).try /\ job'[w].i = job[w].i + 1 /\ job'[w].seen = Nothing
  <2>1. ~GivesUp(job[w], job'[w])
    BY DEF GivesUp, Running
  <2>2. ~Drops(job[w], job'[w])
    <3>1. \A p \in Special : Len(p) \in 1 .. Len(p) /\ p[Len(p)].do # "drop_stop"
      <4>1. /\ Len(Storing) = 3 /\ Len(WriteClock) = 4 /\ Len(ReadClock) = 3 /\ Len(Titling("name")) = 4 /\ Len(Titling("dates")) = 4
        BY Shapes
      <4>2. 3 \in 1 .. 3 /\ 4 \in 1 .. 4
        OBVIOUS
      <4>3. Len(Storing) \in 1 .. Len(Storing) /\ Storing[Len(Storing)].do # "drop_stop"
        BY <4>1, <4>2, Doing
      <4>4. Len(WriteClock) \in 1 .. Len(WriteClock) /\ WriteClock[Len(WriteClock)].do # "drop_stop"
        BY <4>1, <4>2, Doing
      <4>5. Len(ReadClock) \in 1 .. Len(ReadClock) /\ ReadClock[Len(ReadClock)].do # "drop_stop"
        BY <4>1, <4>2, Doing
      <4>6. \A f \in {"name", "dates"} : Len(Titling(f)) \in 1 .. Len(Titling(f)) /\ Titling(f)[Len(Titling(f))].do # "drop_stop"
        BY <4>1, <4>2, Doing
      <4> QED BY <4>3, <4>4, <4>5, <4>6 DEF Special
    <3> QED BY <3>1 DEF Drops
  <2> QED BY <1>3, <2>1, <2>2 DEF Falls, PassesOver, Step
<1>4. CASE Reply(w) \/ NoReply(w)
  <2>1. Heard(w) /\ Asking(w)
    BY <1>1, <1>4, ReplyIs, NoReplyIs DEF Reply, NoReply
  <2>2. ~Ended(w) /\ Step(w).do = "run"
    BY <2>1 DEF Asking
  <2>3. Len(Step(w).asks) = 1 /\ job[w].k = 1
    <3>1. CASE job[w].prog = Storing
      <4>1. \E a : Step(w) \in {Run(<<a>>), Try(<<a>>)}
        BY <1>1, <2>2, <3>1, SpecialStep, Kinds
      <4> QED BY <1>1, <2>2, <4>1, OneAsk
    <3>2. CASE job[w].prog = WriteClock
      <4>1. \E a : Step(w) \in {Run(<<a>>), Try(<<a>>)}
        BY <1>1, <2>2, <3>2, SpecialStep, Kinds
      <4> QED BY <1>1, <2>2, <4>1, OneAsk
    <3>3. CASE job[w].prog = ReadClock
      <4>1. \E a : Step(w) \in {Run(<<a>>), Try(<<a>>)}
        BY <1>1, <2>2, <3>3, SpecialStep, Kinds
      <4> QED BY <1>1, <2>2, <4>1, OneAsk
    <3>4. ASSUME NEW f, job[w].prog = Titling(f) PROVE Len(Step(w).asks) = 1 /\ job[w].k = 1
      <4>1. \/ Step(w) = Try(<<Read("get_general")>>) \/ Step(w) = Do("lock")
            \/ Step(w) = Run(<<Read("get_general")>>) \/ Step(w) = Run(<<Ask("set_general", f, "mine")>>)
        BY <1>1, <2>2, <3>4, SpecialStep
      <4>2. \E a : Step(w) \in {Run(<<a>>), Try(<<a>>)}
        BY <2>2, <4>1, Kinds
      <4> QED BY <1>1, <2>2, <4>2, OneAsk
    <3> QED BY <3>1, <3>2, <3>3, <3>4 DEF Special
  <2> QED BY <1>2, <2>1, <2>3 DEF Heard
<1>5. CASE Again(w)
  BY <1>1, <1>2, <1>5, AgainIs DEF Again
<1>6. CASE Refuse(w) \/ NoAnswer(w)
  <2>1. ~Ended(w) /\ Falls(w)
    BY <1>1, <1>6, RefuseIs, NoAnswerIs DEF Refuse, NoAnswer, Asking, At
  <2> QED BY <1>2, <1>3, <2>1
<1>7. CASE Finish(w)
  BY <1>1, <1>7, FinishIs DEF Running
<1>8. CASE Allocate(w) \/ FindHome(w)
  <2>1. ~Ended(w) /\ Step(w).do # "run" /\ (Falls(w) \/ Onwards(w))
    BY <1>1, <1>8, AllocateIs, FindHomeIs DEF Allocate, FindHome, At
  <2> QED BY <1>2, <1>3, <2>1
<1>9. CASE TakeGeneralLock(w) \/ DropStop(w) \/ KeepClock(w) \/ ForgetClock(w)
  <2>1. ~Ended(w) /\ Step(w).do # "run" /\ Onwards(w)
    BY <1>1, <1>9, LockIs, DropStopIs, KeepIs, ForgetIs DEF TakeGeneralLock, DropStop, KeepClock, ForgetClock, At
  <2> QED BY <1>2, <2>1
<1>10. CASE LookAtClock(w)
  <2>1. ~Ended(w) /\ Step(w).do = "look_at_clock"
    BY <1>10 DEF LookAtClock, At
  <2>2. job[w].prog = ReadClock
    BY <1>1, <1>2, <2>1, Whose DEF Running
  <2>3. job[w].i = 1 /\ Len(job[w].prog) = 3
    BY <1>1, <2>1, <2>2, SpecialStep, Kinds, Shapes
  <2>4. job'[w].i = 4 \/ Onwards(w)
    <3>1. job'[w].i = Len(job[w].prog) + 1 \/ Onwards(w)
      BY <1>1, <1>10, LookIs
    <3>2. Len(job[w].prog) = 3
      BY <2>3
    <3> QED BY <3>1, <3>2
  <2> QED BY <1>2, <2>1, <2>2, <2>3, <2>4
<1> QED BY <1>1, <1>4, <1>5, <1>6, <1>7, <1>8, <1>9, <1>10 DEF Working, Serve

\* What becomes of the camera in a step.
LEMMA CameraMoves ==
  ASSUME WorkersFit, SlotsFit, ControlAssumption, NEW w \in Workers, Working(w)
  PROVE  \/ UNCHANGED camera
         \/ Carried(w) /\ ~Ended(w) /\ Step(w).do = "run" /\ (Asking(w) \/ (w \in Tasks /\ job[w].st = "polled"))
         \/ w \in Jobs /\ At(w, "drop_stop") /\ held' \in {held, [held EXCEPT !.motor.way = "still"]} /\ UNCHANGED <<zoom, meant>>
<1>1. CASE Serve(w)
  BY <1>1 DEF Serve, Refuse, Reply, NoReply, NoAnswer, Again, Finish, Asking
<1>2. CASE w \in Jobs /\ (TakeGeneralLock(w) \/ Allocate(w) \/ FindHome(w) \/ DropStop(w) \/ LookAtClock(w) \/ KeepClock(w) \/ ForgetClock(w))
  BY <1>2 DEF TakeGeneralLock, Allocate, FindHome, DropStop, LookAtClock, KeepClock, ForgetClock
<1>3. CASE w \in Tasks /\ (ZoomOn(w) \/ Gone(w) \/ LastPoll(w))
  BY <1>3 DEF ZoomOn, Gone, LastPoll
<1> QED BY <1>1, <1>2, <1>3 DEF Working

\* The steps that are not of a worker alone: nothing is asked of the camera, the locks are
\* where they were, and of the clock's cache a sample may be too old.
Elsewhere ==
    /\ UNCHANGED <<camera, generalLock, clockLock, lastGood>> /\ sample' \in {sample, None}
    /\ \A w \in Workers :
         \/ job'[w] = job[w]
         \/ /\ Starts(w, job'[w]) /\ job[w].st = "idle" /\ job'[w].slot = "none"
            /\ w \in Jobs => job'[w].i = 1 /\ job'[w].wrote = FALSE
         \/ /\ w \in Jobs /\ Goes(w, job'[w]) /\ Onwards(w) /\ Running(w) /\ ~Ended(w) /\ job'[w].slot = job[w].slot
            /\ Step(w).do \in {"abort_pt", "abort_zoom", "spawn_pt", "spawn_zoom"}
         \/ w \in Tasks /\ Goes(w, job'[w]) /\ Ends(w)

LEMMA ElsewhereIs ==
  ASSUME WorkersFit, SlotsFit, ControlAssumption,
         \/ \E j \in Jobs, r \in desk : Arrive(j, r)
         \/ \E j \in Jobs : AbortTask(j)
         \/ \E j \in Jobs, t \in Tasks : Spawn(j, t)
         \/ Expire \/ Reload \/ UNCHANGED vars
  PROVE  Elsewhere
<1>1. ASSUME NEW j \in Jobs, NEW r \in desk, Arrive(j, r) PROVE Elsewhere
  <2>1. /\ Starts(j, job'[j]) /\ \A w \in Workers \ {j} : job'[w] = job[w]
        /\ job'[j].i = 1 /\ job'[j].slot = "none" /\ job'[j].wrote = FALSE
    BY <1>1, ArriveIs
  <2> QED BY <1>1, <2>1 DEF Elsewhere, Arrive, camera, clock
<1>2. ASSUME NEW j \in Jobs, AbortTask(j) PROVE Elsewhere
  <2>1. /\ Goes(j, job'[j]) /\ Onwards(j) /\ job'[j].slot = job[j].slot
        /\ \A w \in Workers \ {j} : job'[w] = job[w] \/ (w \in Tasks /\ Goes(w, job'[w]) /\ Ends(w))
    BY <1>2, AbortTaskIs
  <2>2. UNCHANGED <<camera, generalLock, clock>> /\ Running(j) /\ ~Ended(j) /\ Step(j).do \in {"abort_pt", "abort_zoom"}
    BY <1>2 DEF AbortTask, At
  <2> QED BY <2>1, <2>2 DEF Elsewhere, clock
<1>3. ASSUME NEW j \in Jobs, NEW t \in Tasks, Spawn(j, t) PROVE Elsewhere
  <2>1. /\ Goes(j, job'[j]) /\ Onwards(j) /\ job'[j].slot = job[j].slot
        /\ Starts(t, job'[t]) /\ job'[t].slot = "none"
        /\ \A w \in Workers \ {j, t} : job'[w] = job[w] \/ (w \in Tasks /\ Goes(w, job'[w]) /\ Ends(w))
    BY <1>3, SpawnIs
  <2>2. UNCHANGED <<camera, generalLock, clock>> /\ Running(j) /\ ~Ended(j) /\ Step(j).do \in {"spawn_pt", "spawn_zoom"}
        /\ job[t].st = "idle"
    BY <1>3 DEF Spawn, At
  <2>3. t \notin Jobs
    BY DEF ControlAssumption
  <2> QED BY <2>1, <2>2, <2>3 DEF Elsewhere, clock
<1>4. CASE Expire \/ Reload \/ UNCHANGED vars
  BY <1>4 DEF Expire, Reload, vars, Elsewhere, clock
<1> QED BY <1>1, <1>2, <1>3, <1>4

\* A worker that looks for a free slot.
Allocates(w) == w \in Jobs /\ job[w].prog = Storing /\ job[w].i = 2

AllocatesFit == \A w \in Workers : At(w, "allocate") => Allocates(w)

LEMMA AllocatesIs == WorkersFit /\ ControlAssumption => AllocatesFit
<1> SUFFICES ASSUME WorkersFit, ControlAssumption, NEW w \in Workers, At(w, "allocate") PROVE Allocates(w)
  BY DEF AllocatesFit
<1>1. w \in Jobs /\ job[w].prog = Storing /\ ~Ended(w) /\ Step(w).do = "allocate"
  BY Whose DEF At, Running
<1>2. job[w].i = 2
  BY <1>1, SpecialStep, Kinds
<1> QED BY <1>1, <1>2 DEF Allocates

\* What is stored stays stored.
LEMMA PresetsGrow ==
  ASSUME WorkersFit, SlotsFit, BlocksFit, ControlAssumption, NEW w \in Workers, Working(w)
  PROVE  /\ DOMAIN held' = DOMAIN held /\ DOMAIN held'.presets = {"home", "one", "two"}
         /\ \A s \in {"one", "two"} : held.presets[s] # "empty" => held'.presets[s] # "empty"
         /\ held'.presets.home # held.presets.home =>
                Asking(w) /\ Now(w).name = "set_ptz_preset" /\ Field(w) = "home"
<1>1. DOMAIN held.presets = {"home", "one", "two"} /\ "presets" \in DOMAIN held /\ DOMAIN held = DOMAIN Blocks
  BY DEF BlocksFit, Blocks
<1>2. CASE UNCHANGED camera
  BY <1>1, <1>2 DEF camera
<1>3. CASE held' \in {held, [held EXCEPT !.motor.way = "still"]}
  BY <1>1, <1>3
<1>4. CASE Carried(w) /\ ~Ended(w) /\ Step(w).do = "run" /\ (Asking(w) \/ (w \in Tasks /\ job[w].st = "polled"))
  <2>1. Placed(job[w]) /\ job[w].i <= Len(job[w].prog)
    BY <1>4, AskingIs
  <2>2. /\ DOMAIN held' = DOMAIN Blocks
        /\ Now(w).name = "set_ptz_preset" =>
               held'.presets = [held.presets EXCEPT ![Field(w)] = Value(w)] /\ Now(w).value = "mine"
        /\ Now(w).name # "set_ptz_preset" => held'.presets = held.presets
    BY <1>4, <2>1, CarriedIs
  <2>3. CASE Now(w).name = "set_ptz_preset"
    <3>1. w \in Jobs
      BY <1>4, <2>3, Whose DEF Asking, Running
    <3>2. Asking(w)
      BY <1>4, <3>1 DEF ControlAssumption
    <3>3. held'.presets = [held.presets EXCEPT ![Field(w)] = w] /\ w # "empty"
      BY <2>2, <2>3 DEF Value, ControlAssumption, Workers
    <3> QED BY <1>1, <2>2, <2>3, <3>2, <3>3
  <2>4. CASE Now(w).name # "set_ptz_preset"
    BY <1>1, <2>2, <2>4
  <2> QED BY <2>3, <2>4
<1> QED BY <1>2, <1>3, <1>4, CameraMoves

\* A slot is only given by Allocate.
Given_(w) ==
    LET free == Free(job[w].seen)
    IN job'[w].slot = IF "one" \in free THEN "one" ELSE IF "two" \in free THEN "two" ELSE "home"
LEMMA SlotMoves ==
  ASSUME WorkersFit, SlotsFit, ControlAssumption, NEW w \in Workers, Working(w)
  PROVE  job'[w].slot \in {job[w].slot, "none"} \/ (Allocate(w) /\ Given_(w))
<1>1. Falls(w) => job'[w].slot \in {job[w].slot, "none"}
  BY DEF Falls, GivesUp, PassesOver, Drops
<1>2. Heard(w) => job'[w].slot = job[w].slot
  BY DEF Heard
<1>3. CASE Serve(w)
  BY <1>1, <1>2, <1>3, FinishIs, RefuseIs, ReplyIs, NoReplyIs, NoAnswerIs, AgainIs DEF Serve
<1>4. CASE w \in Jobs /\ (TakeGeneralLock(w) \/ Allocate(w) \/ FindHome(w) \/ DropStop(w) \/ LookAtClock(w) \/ KeepClock(w) \/ ForgetClock(w))
  BY <1>1, <1>4, LockIs, AllocateIs, FindHomeIs, DropStopIs, LookIs, KeepIs, ForgetIs DEF Given_
<1>5. CASE w \in Tasks /\ (ZoomOn(w) \/ Gone(w) \/ LastPoll(w))
  BY <1>5, ZoomOnIs, GoneIs, LastPollIs
<1> QED BY <1>3, <1>4, <1>5 DEF Working

LEMMA PresetsWorking ==
  ASSUME WorkersFit, WorkersFit', SlotsFit, BlocksFit, PresetsFit, ControlAssumption, NEW w \in Workers, Working(w)
  PROVE  PresetsFit'
<1>1. /\ DOMAIN held' = DOMAIN held /\ DOMAIN held'.presets = {"home", "one", "two"}
      /\ \A s \in {"one", "two"} : held.presets[s] # "empty" => held'.presets[s] # "empty"
  BY PresetsGrow
<1>2. \A v \in Workers \ {w} : job'[v] = job[v]
  BY WorkingIsAlone DEF Alone
<1>3. ASSUME NEW v \in Workers \ {w}
      PROVE  /\ job'[v].slot \in {"none", "one", "two", "home"}
             /\ job'[v].slot = "home" => held'.presets.one # "empty" /\ held'.presets.two # "empty"
             /\ At(v, "allocate")' =>
                   /\ DOMAIN job'[v].seen = {"home", "one", "two"}
                   /\ \A s \in {"one", "two"} : job'[v].seen[s] # "empty" => held'.presets[s] # "empty"
  BY <1>1, <1>2, <1>3 DEF PresetsFit, At, Running, Ended, Step
<1>4. /\ job'[w].slot \in {"none", "one", "two", "home"}
      /\ job'[w].slot = "home" => held'.presets.one # "empty" /\ held'.presets.two # "empty"
  <2>1. CASE job'[w].slot \in {job[w].slot, "none"}
    BY <1>1, <2>1 DEF PresetsFit
  <2>2. CASE Allocate(w) /\ Given_(w)
    <3>1. job'[w].slot = IF "one" \in Free(job[w].seen) THEN "one" ELSE IF "two" \in Free(job[w].seen) THEN "two" ELSE "home"
      BY <2>2 DEF Given_
    <3>2. At(w, "allocate")
      BY <2>2 DEF Allocate
    <3>3. job'[w].slot = "home" => "one" \notin Free(job[w].seen) /\ "two" \notin Free(job[w].seen)
      BY <3>1
    <3>4. \A s \in {"one", "two"} : s \notin Free(job[w].seen) => held.presets[s] # "empty"
      BY <3>2 DEF PresetsFit, Free
    <3> QED BY <1>1, <3>1, <3>3, <3>4
  <2> QED BY <2>1, <2>2, SlotMoves
<1>5. ASSUME At(w, "allocate")'
      PROVE  /\ DOMAIN job'[w].seen = {"home", "one", "two"}
             /\ \A s \in {"one", "two"} : job'[w].seen[s] # "empty" => held'.presets[s] # "empty"
  <2>1. AllocatesFit'
    BY AllocatesIs, ControlAssumption, PTL
  <2>2. w \in Jobs /\ job'[w].prog = Storing /\ job'[w].i = 2 /\ Running(w)'
    BY <1>5, <2>1 DEF AllocatesFit, Allocates, At
  <2>3. job[w].prog = Storing
    <3>1. w \notin Tasks /\ JobFits(w)
      BY <2>2 DEF ControlAssumption, WorkersFit
    <3> QED BY <2>2, <3>1, WorkingIsAlone DEF Alone, Goes, Running, JobFits
  <2>4. /\ Running(w)
        /\ \/ Asking(w) /\ job'[w].i = job[w].i
           \/ Asking(w) /\ Heard(w) /\ job'[w].i = job[w].i + 1
           \/ ~Ended(w) /\ Step(w).try /\ job'[w].i = job[w].i + 1
           \/ ~Ended(w) /\ Step(w).do # "run" /\ job'[w].i = job[w].i + 1
    BY <2>2, <2>3, Progress DEF Special, Onwards
  <2>5. ~Ended(w) /\ job[w].i \in Nat
    BY <2>4, AskingIs DEF Asking
  <2>6. \/ job[w].i = 1 /\ Step(w) = Run(<<Read("get_ptz_preset")>>)
        \/ job[w].i = 2 /\ Step(w) = Do("allocate")
        \/ job[w].i = 3
    BY <2>3, <2>5, SpecialStep
  <2>7. job[w].i = 1 /\ Step(w) = Run(<<Read("get_ptz_preset")>>) /\ Heard(w)
    BY <2>2, <2>4, <2>5, <2>6, Kinds DEF Asking
  <2>8. Now(w) = Read("get_ptz_preset")
    BY <2>5, <2>7, OneAsk
  <2>9. job'[w].seen = held.presets
    <3>1. Now(w).name = "get_ptz_preset"
      BY <2>8 DEF Read, Ask
    <3>2. job'[w].i <= Len(job[w].prog)
      BY <2>2, <2>3, Shapes
    <3> QED BY <2>7, <3>1, <3>2, RequestsAre DEF Heard
  <2> QED BY <1>1, <2>9 DEF BlocksFit
<1> QED BY <1>3, <1>4, <1>5 DEF PresetsFit

LEMMA SpecialDoes ==
  \A p \in Special : \A i \in 1 .. Len(p) : p[i].do \in {"run", "allocate", "lock", "look_at_clock", "keep_clock", "forget_clock"}
<1> DEFINE These == {"run", "allocate", "lock", "look_at_clock", "keep_clock", "forget_clock"}
<1>1. \A i \in 1 .. Len(Storing) : Storing[i].do \in These
  BY Doing
<1>2. \A i \in 1 .. Len(WriteClock) : WriteClock[i].do \in These
  BY Doing
<1>3. \A i \in 1 .. Len(ReadClock) : ReadClock[i].do \in These
  BY Doing
<1>4. ASSUME NEW f, NEW i \in 1 .. Len(Titling(f)) PROVE Titling(f)[i].do \in These
  <2>1. Titling(f)[i].do = IF i = 2 THEN "lock" ELSE "run"
    BY Doing
  <2> QED BY <2>1
<1> HIDE DEF These
<1>5. \A p \in Special : \A i \in 1 .. Len(p) : p[i].do \in These
  BY <1>1, <1>2, <1>3, <1>4 DEF Special
<1> QED BY <1>5 DEF These

\* Such a program is not gone on with by what ends and starts tasks.
LEMMA ElsewhereSpecial ==
  ASSUME WorkersFit, ControlAssumption, Elsewhere, NEW v \in Jobs, job'[v].prog \in Special
  PROVE  job'[v] = job[v] \/ job'[v].i = 1
<1>1. v \in Workers /\ v \notin Tasks
  BY DEF Workers, ControlAssumption
<1>2. ASSUME Onwards(v), Running(v), ~Ended(v), Step(v).do \in {"abort_pt", "abort_zoom", "spawn_pt", "spawn_zoom"}
      PROVE  FALSE
  <2>1. job[v].prog \in Special
    BY <1>2 DEF Onwards
  <2>2. job[v].i \in 1 .. Len(job[v].prog) /\ Step(v) = job[v].prog[job[v].i]
    <3>1. job[v].i \in Nat \ {0} /\ job[v].i <= Len(job[v].prog) /\ Len(job[v].prog) \in Nat
      BY <1>1, <1>2, AskingIs
    <3> QED BY <3>1 DEF Step
  <2> QED BY <1>2, <2>1, <2>2, SpecialDoes
<1> QED BY <1>1, <1>2 DEF Elsewhere

LEMMA PresetsElsewhere ==
  ASSUME WorkersFit, WorkersFit', PresetsFit, ControlAssumption, Elsewhere
  PROVE  PresetsFit'
<1>1. held' = held
  BY DEF Elsewhere, camera
<1>2. AllocatesFit'
  BY AllocatesIs, ControlAssumption, PTL
<1>3. ASSUME NEW v \in Workers
      PROVE  job'[v].slot \in {job[v].slot, "none"}
  BY DEF Elsewhere, Ends
<1>4. ASSUME NEW v \in Workers, At(v, "allocate")'
      PROVE  job'[v] = job[v]
  <2>1. v \in Jobs /\ job'[v].prog = Storing /\ job'[v].i = 2
    BY <1>2, <1>4 DEF AllocatesFit, Allocates
  <2> QED BY <2>1, ElsewhereSpecial DEF Special
<1>5. ASSUME NEW v \in Workers
      PROVE  /\ job'[v].slot \in {"none", "one", "two", "home"}
             /\ job'[v].slot = "home" => held'.presets.one # "empty" /\ held'.presets.two # "empty"
  BY <1>1, <1>3 DEF PresetsFit
<1>6. ASSUME NEW v \in Workers, At(v, "allocate")'
      PROVE  /\ DOMAIN job'[v].seen = {"home", "one", "two"}
             /\ \A s \in {"one", "two"} : job'[v].seen[s] # "empty" => held'.presets[s] # "empty"
  <2>1. job'[v] = job[v]
    BY <1>4, <1>6
  <2>2. At(v, "allocate")
    BY <1>6, <2>1 DEF At, Running, Ended, Step
  <2> QED BY <1>1, <2>1, <2>2 DEF PresetsFit
<1> QED BY <1>5, <1>6 DEF PresetsFit

-----------------------------------------------------------------------------
(* The block that two services write *)

\* What the lock does in a step.
LEMMA LockMoves ==
  ASSUME WorkersFit, SlotsFit, ControlAssumption, NEW w \in Workers, Working(w)
  PROVE  \/ UNCHANGED generalLock
         \/ generalLock = w /\ generalLock' = None /\ ~Running(w)'
         \/ w \in Jobs /\ TakeGeneralLock(w)
<1>1. CASE Finish(w)
  <2>1. job'[w].st = "done"
    BY <1>1, FinishIs
  <2> QED BY <1>1, <2>1 DEF Finish, Running
<1>2. ASSUME Fails(w), Running(w), ~Ended(w), UNCHANGED <<asking, slots>>
      PROVE  \/ UNCHANGED generalLock
             \/ generalLock = w /\ generalLock' = None /\ ~Running(w)'
  <2>1. job'[w].st = Failed(w).st
    BY <1>2, FailsIs
  <2> QED BY <1>2, <2>1 DEF Fails, Running
<1>3. CASE Refuse(w)
  BY <1>2, <1>3 DEF Refuse, Asking, At
<1>4. CASE NoAnswer(w)
  <2>1. job'[w].st = Failed(w).st
    BY <1>4, NoAnswerIs
  <2> QED BY <1>4, <2>1 DEF NoAnswer, Running
<1>5. CASE Reply(w) \/ NoReply(w) \/ Again(w)
  BY <1>5 DEF Reply, NoReply, Again
<1>6. CASE w \in Jobs /\ (Allocate(w) \/ FindHome(w))
  <2>1. UNCHANGED generalLock \/ Fails(w)
    BY <1>6 DEF Allocate, FindHome
  <2> QED BY <1>2, <1>6, <2>1 DEF Allocate, FindHome, At
<1>7. CASE w \in Jobs /\ (TakeGeneralLock(w) \/ DropStop(w) \/ LookAtClock(w) \/ KeepClock(w) \/ ForgetClock(w))
  BY <1>7 DEF DropStop, LookAtClock, KeepClock, ForgetClock
<1>8. CASE w \in Tasks /\ (ZoomOn(w) \/ Gone(w) \/ LastPoll(w))
  BY <1>8 DEF ZoomOn, Gone, LastPoll
<1> QED BY <1>1, <1>3, <1>4, <1>5, <1>6, <1>7, <1>8 DEF Working, Serve

\* A step that concerns the entry is taken by the action for it.
LEMMA Taken ==
  ASSUME ControlAssumption, NEW w \in Jobs, Working(w), ~Ended(w)
  PROVE  /\ Step(w).do = "lock" => TakeGeneralLock(w)
         /\ Step(w).do = "look_at_clock" => LookAtClock(w)
         /\ Step(w).do = "keep_clock" => KeepClock(w)
         /\ Step(w).do = "forget_clock" => ForgetClock(w)
<1>1. w \notin Tasks
  BY DEF ControlAssumption
<1>2. CASE Serve(w)
  <2>1. Step(w).do \in {"run", "fault"}
    BY <1>2 DEF Serve, Refuse, Reply, NoReply, NoAnswer, Again, Finish, Asking, At
  <2> QED BY <2>1
<1>3. CASE TakeGeneralLock(w) \/ Allocate(w) \/ FindHome(w) \/ DropStop(w) \/ LookAtClock(w) \/ KeepClock(w) \/ ForgetClock(w)
  <2>1. \/ TakeGeneralLock(w) /\ Step(w).do = "lock"
        \/ Step(w).do \in {"allocate", "find_home", "drop_stop"}
        \/ LookAtClock(w) /\ Step(w).do = "look_at_clock"
        \/ KeepClock(w) /\ Step(w).do = "keep_clock"
        \/ ForgetClock(w) /\ Step(w).do = "forget_clock"
    BY <1>3 DEF TakeGeneralLock, Allocate, FindHome, DropStop, LookAtClock, KeepClock, ForgetClock, At
  <2> QED BY <2>1
<1> QED BY <1>1, <1>2, <1>3 DEF Working

LEMMA WriterIs ==
  ASSUME WorkersFit, ControlAssumption, NEW w \in Workers, job[w].st \in {"run", "polled"}, ~Ended(w), Step(w).do = "run"
  PROVE  /\ Now(w).name = "set_general" => \E f \in Fields : w \in Jobs /\ Writes_(w, f) /\ Field(w) = f /\ Value(w) = w
         /\ Now(w).name = "set_time" => w \in Jobs /\ job[w].wish.service = "login" /\ Field(w) = "clock" /\ Value(w) = w
<1>1. ASSUME w \in Jobs PROVE Running(w)
  BY <1>1 DEF WorkersFit, JobFits, Running
<1>2. ASSUME Now(w).name = "set_general" PROVE \E f \in Fields : w \in Jobs /\ Writes_(w, f) /\ Field(w) = f /\ Value(w) = w
  <2>1. w \in Jobs /\ (job[w].prog = WriteClock \/ \E f \in {"name", "dates"} : job[w].prog = Titling(f))
    BY <1>2, Whose
  <2>2. \A f \in Fields : Now(w) = Ask("set_general", f, "mine") => Field(w) = f /\ Value(w) = w
    <3>1. ASSUME NEW f \in Fields, Now(w) = Ask("set_general", f, "mine") PROVE Field(w) = f /\ Value(w) = w
      <4>1. Now(w).field = f /\ Now(w).value = "mine" /\ f # "none"
        BY <3>1 DEF Ask, Fields
      <4> QED BY <4>1 DEF Field, Value
    <3> QED BY <3>1
  <2>3. \A g, a : Read("get_general").name # "set_general"
    BY DEF Read, Ask
  <2>4. CASE job[w].prog = WriteClock
    <3>1. job[w].i = 3 /\ Now(w) = Ask("set_general", "clock", "mine")
      <4>1. \/ job[w].i = 2 /\ Step(w) = Run(<<Read("get_general")>>)
            \/ job[w].i = 3 /\ Step(w) = Run(<<Ask("set_general", "clock", "mine")>>)
        BY <2>4, SpecialStep, Kinds
      <4>2. Step(w) # Run(<<Read("get_general")>>)
        BY <1>2, <2>3, OneAsk
      <4> QED BY <4>1, <4>2, OneAsk
    <3> QED BY <1>1, <2>1, <2>2, <2>4, <3>1 DEF Fields, Writes_
  <2>5. ASSUME NEW f \in {"name", "dates"}, job[w].prog = Titling(f)
        PROVE  w \in Jobs /\ Writes_(w, f) /\ Field(w) = f /\ Value(w) = w
    <3>1. job[w].i = 4 /\ Now(w) = Ask("set_general", f, "mine")
      <4>1. \/ Step(w) = Try(<<Read("get_general")>>) \/ Step(w) = Do("lock") \/ Step(w) = Run(<<Read("get_general")>>)
            \/ job[w].i = 4 /\ Step(w) = Run(<<Ask("set_general", f, "mine")>>)
        BY <2>5, SpecialStep
      <4>2. Step(w) # Run(<<Read("get_general")>>) /\ Step(w) # Try(<<Read("get_general")>>) /\ Step(w) # Do("lock")
        BY <1>2, <2>3, OneAsk, Kinds
      <4> QED BY <4>1, <4>2, OneAsk
    <3>2. f \in Fields
      BY DEF Fields
    <3> QED BY <1>1, <2>1, <2>2, <2>5, <3>1, <3>2 DEF Writes_
  <2> QED BY <2>1, <2>4, <2>5 DEF Fields
<1>3. ASSUME Now(w).name = "set_time"
      PROVE  w \in Jobs /\ job[w].wish.service = "login" /\ Field(w) = "clock" /\ Value(w) = w
  <2>1. w \in Jobs /\ job[w].prog = LoginClock /\ job[w].wish.service = "login"
    BY <1>3, Whose
  <2>2. Step(w).do = "run" /\ Step(w).asks = <<Read("get_time"), Ask("set_time", "clock", "mine")>>
    BY <2>1, SpecialStep, Kinds
  <2>3. job[w].k \in 1 .. Len(Step(w).asks)
    BY <2>2, AskingIs, StepAt DEF Step
  <2>4. Now(w) \in {Read("get_time"), Ask("set_time", "clock", "mine")}
    <3>1. \A k \in 1 .. 2 : k = 1 \/ k = 2
      OBVIOUS
    <3>2. \A a, b : Len(<<a, b>>) = 2 /\ <<a, b>>[1] = a /\ <<a, b>>[2] = b
      OBVIOUS
    <3> QED BY <2>2, <2>3, <3>1, <3>2 DEF Now
  <2>5. Now(w).field = "clock" /\ Now(w).value = "mine"
    BY <1>3, <2>4 DEF Read, Ask
  <2> QED BY <2>1, <2>5 DEF Field, Value
<1> QED BY <1>2, <1>3

\* What a job has written of the clock is marked, for good.
LEMMA WroteIs ==
  ASSUME WorkersFit, ControlAssumption, NEW w \in Jobs, Working(w)
  PROVE  /\ job[w].wrote => job'[w].wrote
         /\ job'[w].wrote => job[w].wrote \/ (Asking(w) /\ WritesClock(w))
         /\ UNCHANGED camera \/ ~Asking(w) \/ (WritesClock(w) => job'[w].wrote)
         /\ job'[w].st = "done" => Finish(w)
<1>1. w \in Workers /\ w \notin Tasks
  BY DEF Workers, ControlAssumption
<1>2. ~Asking(w) \/ ~At(w, "drop_stop")
  BY DEF Asking, At
<1>3. Running(w)
  <2>1. JobFits(w)
    BY DEF WorkersFit
  <2> QED BY <1>1, <2>1, WorkingIsAlone DEF Alone, Goes, JobFits, Running
<1>4. Falls(w) => job'[w].st # "done"
  BY <1>3 DEF Falls, GivesUp, PassesOver, Drops, Running
<1>5. Onwards(w) => job'[w].st # "done" /\ job'[w].wrote = job[w].wrote
  BY <1>3 DEF Onwards, Running
<1>6. CASE Reply(w) \/ NoReply(w)
  <2>1. Heard(w) /\ Asking(w)
    BY <1>1, <1>6, ReplyIs, NoReplyIs DEF Reply, NoReply
  <2>2. WritesClock(w) => Requests[Now(w).name].does # "get"
    BY RequestsAre DEF WritesClock
  <2> QED BY <1>3, <2>1, <2>2 DEF Heard, Running
<1>7. CASE NoAnswer(w)
  <2>1. Asking(w) /\ Falls(w)
        /\ \/ UNCHANGED camera /\ job'[w].wrote = job[w].wrote
           \/ Carried(w) /\ (job'[w].wrote <=> (job[w].wrote \/ WritesClock(w)))
    BY <1>1, <1>7, NoAnswerIs DEF NoAnswer
  <2> QED BY <1>4, <2>1
<1>8. CASE Again(w)
  <2>1. Asking(w) /\ job'[w].st = job[w].st
        /\ \/ UNCHANGED camera /\ job'[w].wrote = job[w].wrote
           \/ Carried(w) /\ (job'[w].wrote <=> (job[w].wrote \/ WritesClock(w)))
    BY <1>1, <1>8, AgainIs DEF Again
  <2> QED BY <1>3, <2>1 DEF Running
<1>9. CASE Refuse(w)
  <2>1. UNCHANGED camera /\ job'[w].wrote = job[w].wrote /\ Falls(w)
    BY <1>1, <1>9, RefuseIs DEF Refuse
  <2> QED BY <1>4, <2>1
<1>10. CASE Finish(w)
  <2>1. UNCHANGED camera /\ job'[w].wrote = job[w].wrote
    BY <1>1, <1>10, FinishIs DEF Finish
  <2> QED BY <1>10, <2>1
<1>11. CASE Allocate(w) \/ FindHome(w)
  <2>1. UNCHANGED camera /\ job'[w].wrote = job[w].wrote /\ (Falls(w) \/ Onwards(w))
    BY <1>1, <1>5, <1>11, AllocateIs, FindHomeIs DEF Allocate, FindHome
  <2> QED BY <1>4, <1>5, <2>1
<1>12. CASE TakeGeneralLock(w) \/ KeepClock(w) \/ ForgetClock(w)
  <2>1. UNCHANGED camera /\ Onwards(w)
    BY <1>1, <1>12, LockIs, KeepIs, ForgetIs DEF TakeGeneralLock, KeepClock, ForgetClock
  <2> QED BY <1>5, <2>1
<1>13. CASE LookAtClock(w)
  <2>1. UNCHANGED camera /\ job'[w].wrote = job[w].wrote /\ (job'[w].st = job[w].st \/ Onwards(w))
    BY <1>1, <1>13, LookIs DEF LookAtClock
  <2> QED BY <1>3, <1>5, <2>1 DEF Running
<1>14. CASE DropStop(w)
  <2>1. ~Asking(w) /\ Onwards(w)
    BY <1>1, <1>2, <1>14, DropStopIs DEF DropStop
  <2> QED BY <1>5, <2>1
<1> QED BY <1>1, <1>6, <1>7, <1>8, <1>9, <1>10, <1>11, <1>12, <1>13, <1>14 DEF Working, Serve

\* What becomes of the general block in a step of a worker.
LEMMA GeneralMoves ==
  ASSUME WorkersFit, SlotsFit, BlocksFit, GeneralFits, ControlAssumption, NEW w \in Workers, Working(w)
  PROVE  \/ held'.general = held.general /\ meant' = meant
         \/ \E f \in Fields : /\ w \in Jobs /\ Writes_(w, f) /\ Asking(w) /\ (f = "clock" => job'[w].wrote)
                              /\ held'.general = [job[w].seen EXCEPT ![f] = w] /\ meant' = [meant EXCEPT ![f] = w]
         \/ /\ w \in Jobs /\ job[w].wish.service = "login" /\ job'[w].wrote
            /\ held'.general = [held.general EXCEPT !["clock"] = w] /\ meant' = [meant EXCEPT !["clock"] = w]
<1>1. DOMAIN held = DOMAIN Blocks /\ "general" \in DOMAIN held
  BY DEF BlocksFit, Blocks
<1>2. CASE UNCHANGED camera
  BY <1>2 DEF camera
<1>3. CASE held' \in {held, [held EXCEPT !.motor.way = "still"]} /\ UNCHANGED <<zoom, meant>>
  BY <1>1, <1>3
<1>4. CASE Carried(w) /\ ~Ended(w) /\ Step(w).do = "run" /\ (Asking(w) \/ (w \in Tasks /\ job[w].st = "polled"))
  <2>1. Placed(job[w]) /\ job[w].i <= Len(job[w].prog) /\ job[w].st \in {"run", "polled"}
    BY <1>4, AskingIs DEF Asking, Running
  <2>2. /\ Now(w).name = "set_general" =>
               /\ held'.general = [job[w].seen EXCEPT ![Field(w)] = Value(w)]
               /\ meant' = [meant EXCEPT ![Field(w)] = w]
        /\ Now(w).name = "set_time" =>
               /\ held'.general = [held.general EXCEPT ![Field(w)] = Value(w)]
               /\ meant' = [meant EXCEPT ![Field(w)] = w]
        /\ Now(w).name \notin {"set_general", "set_time"} => held'.general = held.general /\ meant' = meant
    BY <1>4, <2>1, CarriedIs
  <2>3. CASE Now(w).name = "set_general"
    <3>1. PICK f \in Fields : w \in Jobs /\ Writes_(w, f) /\ Field(w) = f /\ Value(w) = w
      BY <1>4, <2>1, <2>3, WriterIs
    <3>2. Asking(w)
      BY <1>4, <3>1 DEF ControlAssumption
    <3>3. UNCHANGED camera \/ (f = "clock" => job'[w].wrote)
      BY <2>3, <3>1, <3>2, WroteIs DEF WritesClock
    <3> QED BY <1>2, <2>2, <2>3, <3>1, <3>2, <3>3
  <2>4. CASE Now(w).name = "set_time"
    <3>1. w \in Jobs /\ job[w].wish.service = "login" /\ Field(w) = "clock" /\ Value(w) = w
      BY <1>4, <2>1, <2>4, WriterIs
    <3>2. UNCHANGED camera \/ job'[w].wrote
      BY <1>4, <2>4, <3>1, WroteIs DEF WritesClock, ControlAssumption
    <3> QED BY <1>2, <2>2, <2>4, <3>1, <3>2
  <2> QED BY <2>2, <2>3, <2>4
<1> QED BY <1>2, <1>3, <1>4, CameraMoves

\* One that has the lock took it.
LEMMA LockedBy ==
  ASSUME WorkersFit, ControlAssumption, NEW w \in Jobs, Working(w), Locked(w)'
  PROVE  Locked(w) \/ TakeGeneralLock(w)
<1>1. w \in Workers
  BY DEF Workers
<1>2. PICK p \in {WriteClock, Titling("name"), Titling("dates")} :
          /\ Running(w)' /\ job'[w].prog = p /\ job'[w].i > (IF p = WriteClock THEN 1 ELSE 2)
  <2>1. \A f : Titling(f) # WriteClock
    <3>1. \A f : Titling(f)[1] = Try(<<Read("get_general")>>) /\ WriteClock[1] = Do("lock")
      BY Shapes
    <3> QED BY <3>1, Kinds
  <2> QED BY <2>1 DEF Locked, Running
<1>3. Running(w) /\ job[w].prog = p
  <2>1. w \notin Tasks /\ JobFits(w)
    BY DEF ControlAssumption, WorkersFit
  <2> QED BY <1>1, <1>2, <2>1, WorkingIsAlone DEF Alone, Goes, Running, JobFits
<1>4. p # ReadClock
  <2>1. Len(ReadClock) = 3 /\ Len(WriteClock) = 4 /\ Len(Titling("name")) = 4 /\ Len(Titling("dates")) = 4
    BY Shapes
  <2> QED BY <2>1
<1>5. \/ Asking(w) /\ job'[w].i = job[w].i
      \/ Asking(w) /\ job'[w].i = job[w].i + 1
      \/ ~Ended(w) /\ Step(w).try /\ job'[w].i = job[w].i + 1
      \/ ~Ended(w) /\ Step(w).do # "run" /\ job'[w].i = job[w].i + 1
  BY <1>2, <1>3, <1>4, Progress DEF Special, Onwards
<1>6. ~Ended(w) /\ job[w].i \in Nat
  BY <1>1, <1>5, AskingIs DEF Asking
<1>7. CASE job[w].i > (IF p = WriteClock THEN 1 ELSE 2)
  BY <1>2, <1>3, <1>7 DEF Locked
<1>8. CASE ~(job[w].i > (IF p = WriteClock THEN 1 ELSE 2))
  <2>1. job[w].i = IF p = WriteClock THEN 1 ELSE 2
    BY <1>2, <1>5, <1>6, <1>8
  <2>2. Step(w) = Do("lock")
    <3>1. CASE p = WriteClock
      BY <1>1, <1>3, <1>6, <2>1, <3>1, SpecialStep
    <3>2. ASSUME NEW f, p = Titling(f), p # WriteClock PROVE Step(w) = Do("lock")
      <4>1. \/ job[w].i = 1 \/ job[w].i = 3 \/ job[w].i = 4
            \/ job[w].i = 2 /\ Step(w) = Do("lock")
        BY <1>1, <1>3, <1>6, <3>2, SpecialStep
      <4> QED BY <2>1, <3>2, <4>1
    <3> QED BY <3>1, <3>2
  <2>3. Step(w).do = "lock"
    BY <2>2, Kinds
  <2> QED BY <1>6, <2>3, Taken
<1> QED BY <1>7, <1>8

\* A wish is for good, and who set a field by logging in is not forgotten.
LEMMA LoginStays ==
  ASSUME WorkersFit, ControlAssumption, NEW g, meant'[g] = meant[g], ByLogin(g),
         \A j \in Jobs : job'[j] = job[j] \/ job[j].st = "idle" \/ job'[j].wish = job[j].wish
  PROVE  ByLogin(g)'
<1>1. PICK j \in Jobs : meant[g] = j /\ job[j].wish.service = "login"
  BY DEF ByLogin
<1>2. job[j].st # "idle"
  <2>1. job[j].st = "idle" => job[j] = Idle
    BY DEF WorkersFit, Workers
  <2> QED BY <1>1, <2>1, IdlePlaced
<1>3. job'[j].wish = job[j].wish
  BY <1>2
<1> QED BY <1>1, <1>3 DEF ByLogin

LEMMA WritesOne ==
  ASSUME NEW w, NEW f, NEW g, Writes_(w, f), Writes_(w, g)
  PROVE  f = g
<1>1. \A x : Titling(x) # WriteClock
  <2>1. \A x : Titling(x)[1] = Try(<<Read("get_general")>>) /\ WriteClock[1] = Do("lock")
    BY Shapes
  <2> QED BY <2>1, Kinds
<1>2. Titling("name") # Titling("dates")
  <2>1. /\ Titling("name")[4] = Run(<<Ask("set_general", "name", "mine")>>)
        /\ Titling("dates")[4] = Run(<<Ask("set_general", "dates", "mine")>>)
    BY Shapes
  <2>2. Run(<<Ask("set_general", "name", "mine")>>).asks[1].field = "name"
    <3>1. Run(<<Ask("set_general", "name", "mine")>>).asks = <<Ask("set_general", "name", "mine")>>
      BY Kinds
    <3> QED BY <3>1 DEF Ask
  <2>3. Run(<<Ask("set_general", "dates", "mine")>>).asks[1].field = "dates"
    <3>1. Run(<<Ask("set_general", "dates", "mine")>>).asks = <<Ask("set_general", "dates", "mine")>>
      BY Kinds
    <3> QED BY <3>1 DEF Ask
  <2> QED BY <2>1, <2>2, <2>3
<1> QED BY <1>1, <1>2 DEF Writes_

\* A worker that comes to its write has just read the block, or was at it.
LEMMA WritesNext ==
  ASSUME WorkersFit, ControlAssumption, NEW w \in Jobs, NEW f, Working(w), Writes_(w, f)'
  PROVE  \/ Writes_(w, f) /\ job'[w].seen = job[w].seen
         \/ job'[w].seen = held.general /\ \A g : ~Writes_(w, g)
<1>1. w \in Workers
  BY DEF Workers
<1> DEFINE p == job'[w].prog
           n == IF f = "clock" THEN 3 ELSE 4
<1>2. /\ Running(w)' /\ job'[w].i = n /\ f \in Fields
      /\ p = IF f = "clock" THEN WriteClock ELSE Titling(f)
  BY DEF Writes_, Running, Fields
<1>3. Running(w) /\ job[w].prog = p
  <2>1. w \notin Tasks /\ JobFits(w)
    BY DEF ControlAssumption, WorkersFit
  <2> QED BY <1>1, <1>2, <2>1, WorkingIsAlone DEF Alone, Goes, Running, JobFits
<1>4. p \in Special /\ p # ReadClock
  <2>1. Len(ReadClock) = 3 /\ Len(WriteClock) = 4 /\ Len(Titling("name")) = 4 /\ Len(Titling("dates")) = 4
    BY Shapes
  <2> QED BY <1>2, <2>1 DEF Special, Fields
<1>5. \/ Asking(w) /\ job'[w].i = job[w].i /\ job'[w].seen = job[w].seen
      \/ Asking(w) /\ Heard(w) /\ job'[w].i = job[w].i + 1
      \/ ~Ended(w) /\ Step(w).try /\ job'[w].i = job[w].i + 1
      \/ ~Ended(w) /\ Step(w).do # "run" /\ job'[w].i = job[w].i + 1
  BY <1>2, <1>3, <1>4, Progress DEF Onwards
<1>6. ~Ended(w) /\ job[w].i \in Nat
  BY <1>1, <1>5, AskingIs DEF Asking
<1>7. CASE job'[w].i = job[w].i /\ job'[w].seen = job[w].seen
  BY <1>2, <1>3, <1>7 DEF Writes_, Fields
<1>8. CASE job'[w].i = job[w].i + 1
  <2>1. job[w].i = n - 1
    BY <1>2, <1>6, <1>8
  <2>2. Step(w) = Run(<<Read("get_general")>>)
    <3>1. CASE f = "clock"
      <4>1. job[w].prog = WriteClock /\ job[w].i = 2
        BY <1>2, <1>3, <2>1, <3>1
      <4> QED BY <1>1, <1>6, <4>1, SpecialStep
    <3>2. CASE f # "clock"
      <4>1. job[w].prog = Titling(f) /\ job[w].i = 3
        BY <1>2, <1>3, <2>1, <3>2
      <4>2. \/ job[w].i = 1 \/ job[w].i = 2
            \/ job[w].i = 3 /\ Step(w) = Run(<<Read("get_general")>>)
            \/ job[w].i = 4
        BY <1>1, <1>6, <4>1, SpecialStep
      <4> QED BY <4>1, <4>2
    <3> QED BY <3>1, <3>2
  <2>3. Heard(w)
    BY <1>5, <1>6, <1>8, <2>2, Kinds
  <2>4. Now(w).name = "get_general"
    <3>1. Now(w) = Read("get_general")
      BY <1>1, <1>6, <2>2, OneAsk
    <3> QED BY <3>1 DEF Read, Ask
  <2>5. job'[w].i <= Len(job[w].prog)
    <3>1. Len(p) = 4
      BY <1>2, Shapes
    <3>2. job'[w].i \in {3, 4} /\ Len(job[w].prog) = 4
      BY <1>2, <1>3, <3>1
    <3> QED BY <3>2
  <2>6. job'[w].seen = held.general
    BY <2>3, <2>4, <2>5, RequestsAre DEF Heard
  <2>7. \A g : ~Writes_(w, g)
    <3>1. \A g : Titling(g) # WriteClock
      <4>1. \A x : Titling(x)[1] = Try(<<Read("get_general")>>) /\ WriteClock[1] = Do("lock")
        BY Shapes
      <4> QED BY <4>1, Kinds
    <3> QED BY <1>2, <1>3, <2>1, <3>1 DEF Writes_
  <2> QED BY <2>6, <2>7
<1> QED BY <1>5, <1>7, <1>8

LEMMA GeneralWorking ==
  ASSUME WorkersFit, SlotsFit, BlocksFit, GeneralFits, FieldsKept, ControlAssumption, NEW w \in Workers, Working(w)
  PROVE  BlocksFit' /\ GeneralFits' /\ FieldsKept'
<1>1. \/ held'.general = held.general /\ meant' = meant
      \/ \E f \in Fields : /\ w \in Jobs /\ Writes_(w, f)
                           /\ held'.general = [job[w].seen EXCEPT ![f] = w] /\ meant' = [meant EXCEPT ![f] = w]
      \/ /\ w \in Jobs /\ job[w].wish.service = "login"
         /\ held'.general = [held.general EXCEPT !["clock"] = w] /\ meant' = [meant EXCEPT !["clock"] = w]
  BY GeneralMoves
<1>2. DOMAIN meant = Fields /\ DOMAIN held.general = Fields
  BY DEF BlocksFit
<1>3. ASSUME w \in Jobs, NEW f \in Fields, Writes_(w, f)
      PROVE  DOMAIN job[w].seen = Fields /\ \A g \in Fields \ {f} : job[w].seen[g] = held.general[g] \/ ByLogin(g)
  BY <1>3 DEF GeneralFits
<1>4. DOMAIN meant' = Fields /\ DOMAIN held'.general = Fields
  BY <1>1, <1>2, <1>3
<1>5. BlocksFit'
  <2>1. DOMAIN held' = DOMAIN held /\ DOMAIN held'.presets = {"home", "one", "two"}
    BY PresetsGrow
  <2> QED BY <1>4, <2>1 DEF BlocksFit
<1>6. (\A v \in Workers \ {w} : job'[v] = job[v]) /\ job'[w].wish = job[w].wish
  BY WorkingIsAlone DEF Alone, Goes
<1>7. ASSUME NEW g, meant'[g] = meant[g], ByLogin(g) PROVE ByLogin(g)'
  BY <1>6, <1>7, LoginStays DEF Workers
<1>8. ASSUME w \in Jobs, job[w].wish.service = "login", meant' = [meant EXCEPT !["clock"] = w] PROVE ByLogin("clock")'
  BY <1>2, <1>6, <1>8 DEF ByLogin, Fields
\* A field that is not written is as it was, unless by a login.
<1>9. ASSUME NEW v \in Jobs, NEW f \in Fields, Writes_(v, f), v # w \/ job'[v].seen = job[v].seen, NEW g \in Fields \ {f}
      PROVE  job[v].seen[g] = held'.general[g] \/ ByLogin(g)'
  <2>1. job[v].seen[g] = held.general[g] \/ ByLogin(g)
    BY <1>9 DEF GeneralFits
  <2>2. CASE held'.general = held.general /\ meant' = meant
    BY <1>7, <2>1, <2>2
  <2>3. ASSUME NEW h \in Fields, w \in Jobs, Writes_(w, h),
               held'.general = [job[w].seen EXCEPT ![h] = w], meant' = [meant EXCEPT ![h] = w]
        PROVE  job[v].seen[g] = held'.general[g] \/ ByLogin(g)'
    <3>1. Locked(w) /\ Locked(v)
      BY <1>9, <2>3 DEF Writes_, Locked
    <3>2. w = v
      BY <1>9, <2>3, <3>1 DEF GeneralFits
    <3>3. h = f
      BY <1>9, <2>3, <3>2, WritesOne
    <3> QED BY <1>3, <1>9, <2>3, <3>2, <3>3
  <2>4. CASE /\ w \in Jobs /\ job[w].wish.service = "login"
             /\ held'.general = [held.general EXCEPT !["clock"] = w] /\ meant' = [meant EXCEPT !["clock"] = w]
    BY <1>2, <1>7, <1>8, <2>1, <2>4
  <2> QED BY <1>1, <2>2, <2>3, <2>4
<1>10. ASSUME NEW j \in Jobs, Locked(j)' PROVE generalLock' = j
  <2>1. j # None /\ j \in Workers
    BY DEF ControlAssumption, None, Workers
  <2>2. Locked(j) \/ (j = w /\ TakeGeneralLock(w))
    <3>1. CASE j = w
      BY <1>10, <3>1, LockedBy
    <3>2. CASE j # w
      BY <1>6, <1>10, <2>1, <3>2 DEF Locked, Running
    <3> QED BY <3>1, <3>2
  <2>3. CASE Locked(j)
    <3>1. generalLock = j
      BY <2>3 DEF GeneralFits
    <3>2. Running(j)'
      BY <1>10 DEF Locked, Running
    <3> QED BY <2>1, <3>1, <3>2, LockMoves DEF TakeGeneralLock
  <2>4. CASE j = w /\ TakeGeneralLock(w)
    BY <2>4 DEF TakeGeneralLock
  <2> QED BY <2>2, <2>3, <2>4
<1>11. ASSUME NEW j \in Jobs, NEW f \in Fields, Writes_(j, f)'
       PROVE  /\ DOMAIN job'[j].seen = Fields
              /\ \A g \in Fields \ {f} : job'[j].seen[g] = held'.general[g] \/ ByLogin(g)'
  <2>1. CASE Writes_(j, f) /\ job'[j].seen = job[j].seen
    <3>1. DOMAIN job[j].seen = Fields
      BY <2>1 DEF GeneralFits
    <3> QED BY <1>9, <2>1, <3>1
  <2>2. CASE j = w /\ job'[j].seen = held.general /\ \A g : ~Writes_(j, g)
    BY <1>1, <1>2, <1>7, <1>8, <2>2
  <2>3. j # w => Writes_(j, f) /\ job'[j].seen = job[j].seen
    BY <1>6, <1>11 DEF Writes_, Running, Workers
  <2> QED BY <1>11, <2>1, <2>2, <2>3, WritesNext
<1>12. GeneralFits'
  BY <1>10, <1>11 DEF GeneralFits
<1>13. ASSUME NEW f \in Fields PROVE ByLogin(f)' \/ held'.general[f] = meant'[f]
  <2>1. ByLogin(f) \/ held.general[f] = meant[f]
    BY <1>2 DEF FieldsKept, ByLogin
  <2>2. CASE held'.general = held.general /\ meant' = meant
    BY <1>7, <2>1, <2>2
  <2>3. ASSUME NEW h \in Fields, w \in Jobs, Writes_(w, h),
               held'.general = [job[w].seen EXCEPT ![h] = w], meant' = [meant EXCEPT ![h] = w]
        PROVE  ByLogin(f)' \/ held'.general[f] = meant'[f]
    <3>1. CASE f = h
      BY <1>2, <1>3, <2>3, <3>1
    <3>2. CASE f # h
      <4>1. held'.general[f] = job[w].seen[f] /\ meant'[f] = meant[f]
        BY <1>2, <1>3, <2>3, <3>2
      <4> QED BY <1>3, <1>7, <2>1, <2>3, <3>2, <4>1
    <3> QED BY <3>1, <3>2
  <2>4. CASE /\ w \in Jobs /\ job[w].wish.service = "login"
             /\ held'.general = [held.general EXCEPT !["clock"] = w] /\ meant' = [meant EXCEPT !["clock"] = w]
    BY <1>2, <1>7, <1>8, <2>1, <2>4
  <2> QED BY <1>1, <2>2, <2>3, <2>4
<1>14. FieldsKept'
  BY <1>4, <1>13 DEF FieldsKept, ByLogin
<1> QED BY <1>5, <1>12, <1>14

LEMMA GeneralElsewhere ==
  ASSUME WorkersFit, BlocksFit, GeneralFits, FieldsKept, ControlAssumption, Elsewhere
  PROVE  BlocksFit' /\ GeneralFits' /\ FieldsKept'
<1>1. held' = held /\ meant' = meant /\ generalLock' = generalLock
  BY DEF Elsewhere, camera
<1>2. BlocksFit'
  BY <1>1 DEF BlocksFit
<1>3. \A j \in Jobs : job'[j] = job[j] \/ job[j].st = "idle" \/ job'[j].wish = job[j].wish
  BY DEF Elsewhere, Goes, Workers, ControlAssumption
<1>4. ASSUME NEW g, ByLogin(g) PROVE ByLogin(g)'
  BY <1>1, <1>3, <1>4, LoginStays
<1>5. ASSUME NEW j \in Jobs, Locked(j)' PROVE job'[j] = job[j]
  <2>1. job'[j].prog \in Special
    BY <1>5 DEF Locked, Special
  <2>2. job'[j].i > 1 \/ job'[j].i > 2
    BY <1>5 DEF Locked
  <2>3. job'[j].i # 1
    BY <2>2
  <2> QED BY <2>1, <2>3, ElsewhereSpecial
<1>6. ASSUME NEW j \in Jobs, Locked(j)' PROVE generalLock' = j
  <2>1. Locked(j)
    BY <1>5, <1>6 DEF Locked, Running
  <2> QED BY <1>1, <2>1 DEF GeneralFits
<1>7. ASSUME NEW j \in Jobs, NEW f \in Fields, Writes_(j, f)'
      PROVE  /\ DOMAIN job'[j].seen = Fields
             /\ \A g \in Fields \ {f} : job'[j].seen[g] = held'.general[g] \/ ByLogin(g)'
  <2>1. Locked(j)'
    BY <1>7 DEF Locked, Writes_, Running
  <2>2. job'[j] = job[j]
    BY <1>5, <2>1
  <2>3. Writes_(j, f)
    BY <1>7, <2>2 DEF Writes_, Running
  <2> QED BY <1>1, <1>4, <2>2, <2>3 DEF GeneralFits
<1>8. GeneralFits'
  BY <1>6, <1>7 DEF GeneralFits
<1>9. FieldsKept'
  <2>1. \A f \in DOMAIN meant : ByLogin(f) \/ held.general[f] = meant[f]
    BY DEF FieldsKept, ByLogin
  <2>2. \A f \in DOMAIN meant' : ByLogin(f)' \/ held'.general[f] = meant'[f]
    BY <1>1, <1>4, <2>1
  <2> QED BY <2>2 DEF FieldsKept, ByLogin
<1> QED BY <1>2, <1>8, <1>9

-----------------------------------------------------------------------------
(* What is kept of the clock *)

\* The cache is only handled by those who read or set the clock.
LEMMA ClockMoves ==
  ASSUME NEW w \in Workers, Working(w)
  PROVE  UNCHANGED clock \/ (w \in Jobs /\ (LookAtClock(w) \/ KeepClock(w) \/ ForgetClock(w)))
<1>1. CASE Serve(w)
  BY <1>1 DEF Serve, Refuse, Reply, NoReply, NoAnswer, Again, Finish
<1>2. CASE w \in Jobs /\ (TakeGeneralLock(w) \/ Allocate(w) \/ FindHome(w) \/ DropStop(w))
  BY <1>2 DEF TakeGeneralLock, Allocate, FindHome, DropStop
<1>3. CASE w \in Tasks /\ (ZoomOn(w) \/ Gone(w) \/ LastPoll(w))
  BY <1>3 DEF ZoomOn, Gone, LastPoll
<1> QED BY <1>1, <1>2, <1>3 DEF Working

LEMMA ClockStepIs ==
  ASSUME WorkersFit, ControlAssumption, NEW w \in Jobs
  PROVE  /\ KeepClock(w) => Reading(w, 3)
         /\ ForgetClock(w) => Running(w) /\ job[w].prog = WriteClock
<1>1. w \in Workers
  BY DEF Workers
<1>2. ASSUME KeepClock(w) PROVE Reading(w, 3)
  <2>1. Running(w) /\ ~Ended(w) /\ Step(w).do = "keep_clock"
    BY <1>2 DEF KeepClock, At
  <2>2. job[w].prog = ReadClock
    BY <1>1, <2>1, Whose DEF Running
  <2>3. job[w].i = 3
    BY <1>1, <2>1, <2>2, SpecialStep, Kinds
  <2> QED BY <2>1, <2>2, <2>3 DEF Reading
<1>3. ASSUME ForgetClock(w) PROVE Running(w) /\ job[w].prog = WriteClock
  <2>1. Running(w) /\ ~Ended(w) /\ Step(w).do = "forget_clock"
    BY <1>3 DEF ForgetClock, At
  <2> QED BY <1>1, <2>1, Whose DEF Running
<1> QED BY <1>2, <1>3

\* One that reads the clock has taken the cache's lock, and what it has seen it saw last.
LEMMA ReadingNext ==
  ASSUME WorkersFit, ControlAssumption, NEW w \in Jobs, Working(w)
  PROVE  /\ Reading(w, 2)' => (Reading(w, 2) /\ Asking(w)) \/ (LookAtClock(w) /\ clockLock' = w)
         /\ Reading(w, 3)' => Reading(w, 2) /\ Step(w).do = "run" /\ job'[w].seen \in {Nothing, held.general}
<1> SUFFICES ASSUME NEW n \in {2, 3}, Reading(w, n)'
             PROVE  /\ n = 2 => (Reading(w, 2) /\ Asking(w)) \/ (LookAtClock(w) /\ clockLock' = w)
                    /\ n = 3 => Reading(w, 2) /\ Step(w).do = "run" /\ job'[w].seen \in {Nothing, held.general}
  OBVIOUS
<1>1. w \in Workers
  BY DEF Workers
<1>2. Running(w)' /\ job'[w].prog = ReadClock /\ job'[w].i = n
  BY DEF Reading, Running
<1>3. Running(w) /\ job[w].prog = ReadClock
  <2>1. w \notin Tasks /\ JobFits(w)
    BY DEF ControlAssumption, WorkersFit
  <2> QED BY <1>1, <1>2, <2>1, WorkingIsAlone DEF Alone, Goes, Running, JobFits
<1>4. \/ Asking(w) /\ job'[w].i = job[w].i
      \/ Asking(w) /\ Heard(w) /\ job'[w].i = job[w].i + 1
      \/ ~Ended(w) /\ Step(w).try /\ job'[w].i = job[w].i + 1 /\ job'[w].seen = Nothing
      \/ ~Ended(w) /\ Step(w).do # "run" /\ job'[w].i = job[w].i + 1
  BY <1>2, <1>3, Progress DEF Special, Onwards
<1>5. ~Ended(w) /\ job[w].i \in Nat
  BY <1>1, <1>4, AskingIs DEF Asking
<1>6. \/ job[w].i = 1 /\ Step(w) = Do("look_at_clock")
      \/ job[w].i = 2 /\ Step(w) = Try(<<Read("get_general")>>)
      \/ job[w].i = 3 /\ Step(w) = Do("keep_clock")
  BY <1>1, <1>3, <1>5, SpecialStep
<1>7. CASE n = 2
  <2>1. (job[w].i = 2 /\ Asking(w)) \/ (job[w].i = 1 /\ Step(w).do = "look_at_clock")
    BY <1>2, <1>4, <1>5, <1>6, <1>7, Kinds DEF Asking
  <2>2. CASE job[w].i = 2 /\ Asking(w)
    BY <1>3, <1>7, <2>2 DEF Reading
  <2>3. CASE job[w].i = 1 /\ Step(w).do = "look_at_clock"
    <3>1. LookAtClock(w)
      BY <1>5, <2>3, Taken
    <3>2. job'[w].i # Len(job[w].prog) + 1
      <4>1. Len(ReadClock) = 3
        BY Shapes
      <4> QED BY <1>2, <1>3, <1>7, <4>1
    <3> QED BY <1>1, <1>7, <3>1, <3>2, LookIs
  <2> QED BY <2>1, <2>2, <2>3
<1>8. CASE n = 3
  <2>1. job[w].i = 2 /\ Step(w) = Try(<<Read("get_general")>>)
    BY <1>2, <1>4, <1>5, <1>6, <1>8, Kinds DEF Asking
  <2>2. Step(w).do = "run" /\ Now(w).name = "get_general"
    BY <1>1, <1>5, <2>1, OneAsk DEF Read, Ask
  <2>3. job'[w].seen \in {Nothing, held.general}
    <3>1. CASE Heard(w)
      <4>1. job'[w].i <= Len(job[w].prog)
        <5>1. Len(ReadClock) = 3
          BY Shapes
        <5> QED BY <1>2, <1>3, <1>8, <5>1
      <4> QED BY <2>2, <3>1, <4>1, RequestsAre DEF Heard
    <3>2. CASE job'[w].seen = Nothing
      BY <3>2
    <3>3. Heard(w) \/ job'[w].seen = Nothing
      <4>1. job'[w].i # job[w].i
        BY <1>2, <1>8, <2>1
      <4> QED BY <1>4, <2>2, <4>1
    <3> QED BY <3>1, <3>2, <3>3
  <2> QED BY <1>3, <1>8, <2>1, <2>2, <2>3 DEF Reading
<1> QED BY <1>7, <1>8

\* When the clock is set, one has set it and has not dropped what was kept of it.
LEMMA ClockSet ==
  ASSUME WorkersFit, SlotsFit, BlocksFit, GeneralFits, ClockFits, ControlAssumption, NEW w \in Workers, Working(w),
         held'.general.clock # held.general.clock
  PROVE  ~Fresh'
<1>1. \A j \in Jobs : job'[j].wish = job[j].wish
  BY WorkingIsAlone DEF Alone, Goes, Workers
<1>2. ASSUME NEW j \in Jobs, job[j].wrote PROVE job'[j].wrote
  <2>1. j # w => job'[j] = job[j]
    BY WorkingIsAlone DEF Alone, Workers
  <2> QED BY <1>2, <2>1, WroteIs
<1>3. ASSUME NEW j \in Jobs, job'[j].wrote, job[j].wish.service = "login" PROVE ~Fresh'
  BY <1>1, <1>3 DEF Fresh, Forgot
<1>4. ASSUME NEW f \in Fields, w \in Jobs, Writes_(w, f), Asking(w), f = "clock" => job'[w].wrote,
             held'.general = [job[w].seen EXCEPT ![f] = w]
      PROVE  ~Fresh'
  <2>1. CASE f = "clock"
    <3>1. Running(w) /\ job[w].prog = WriteClock /\ job[w].i = 3 /\ ~Ended(w)
      BY <1>4, <2>1 DEF Writes_, Asking, Fields
    <3>2. job'[w].st # "done"
      BY <1>4, WroteIs DEF Asking, Finish
    <3>3. ~(Running(w)' /\ job'[w].prog = WriteClock /\ job'[w].i = 5)
      <4>1. ASSUME Running(w)' PROVE job'[w].i \in {3, 4}
        <5>1. job[w].prog # ReadClock
          <6>1. Len(ReadClock) = 3 /\ Len(WriteClock) = 4
            BY Shapes
          <6> QED BY <3>1, <6>1
        <5>2. job'[w].i = job[w].i \/ job'[w].i = job[w].i + 1
          BY <1>4, <3>1, <4>1, <5>1, Progress DEF Special, Onwards
        <5> QED BY <3>1, <5>2
      <4> QED BY <4>1
    <3> QED BY <1>4, <2>1, <3>2, <3>3 DEF Fresh, Forgot, Running
  <2>2. CASE f # "clock"
    <3>1. "clock" \in Fields \ {f} /\ DOMAIN job[w].seen = Fields
      BY <1>4, <2>2 DEF GeneralFits, Fields
    <3>2. job[w].seen["clock"] = held.general["clock"] \/ ByLogin("clock")
      BY <1>4, <3>1 DEF GeneralFits
    <3>3. held'.general["clock"] = job[w].seen["clock"]
      BY <1>4, <3>1
    <3>4. PICK j \in Jobs : meant["clock"] = j /\ job[j].wish.service = "login"
      BY <3>2, <3>3 DEF ByLogin
    <3> QED BY <1>2, <1>3, <3>4 DEF ClockFits
  <2> QED BY <2>1, <2>2
<1> QED BY <1>3, <1>4, GeneralMoves

\* Who set the clock has dropped what was kept of it: by dropping it now, or before.
LEMMA FreshBefore ==
  ASSUME WorkersFit, ClockFits, ControlAssumption, NEW w \in Workers, Working(w), Fresh'
  PROVE  Fresh \/ (w \in Jobs /\ ForgetClock(w))
<1> SUFFICES ASSUME NEW j \in Jobs, job[j].wrote, ~Forgot(j)
             PROVE  w \in Jobs /\ ForgetClock(w)
  BY DEF Fresh
<1>1. j = w
  <2>1. j # w => job'[j] = job[j]
    BY WorkingIsAlone DEF Alone, Workers
  <2> QED BY <2>1 DEF Fresh, Forgot, Running
<1>2. w \in Jobs /\ w \notin Tasks /\ JobFits(w) /\ Placed(job[w])
  BY <1>1 DEF ControlAssumption, WorkersFit
<1>3. Running(w) /\ job'[w].wish = job[w].wish
  BY <1>2, WorkingIsAlone DEF Alone, Goes, JobFits, Running
<1>4. Forgot(w)'
  <2>1. job'[w].wrote
    BY <1>1, <1>2, WroteIs
  <2> QED BY <1>2, <2>1 DEF Fresh
<1>5. job[w].wish.service # "login" /\ job[w].prog = WriteClock
  BY <1>1, <1>2, <1>3, <1>4 DEF Forgot, ClockFits
<1>6. Len(job[w].prog) = 4 /\ job[w].i # 5 /\ job[w].i \in 1 .. 5
  <2>1. Len(WriteClock) = 4
    BY Shapes
  <2>2. job[w].i # 5
    BY <1>1, <1>3, <1>5 DEF Forgot
  <2> QED BY <1>2, <1>5, <2>1, <2>2 DEF Placed
<1>7. ~Ended(w)
  BY <1>6 DEF Ended
<1>8. Running(w)' /\ job'[w].i = 5
  <2>1. job'[w].st # "done"
    BY <1>2, <1>7, WroteIs DEF Finish
  <2> QED BY <1>4, <2>1 DEF Forgot, Running
<1>9. job[w].prog # ReadClock
  <2>1. Len(ReadClock) = 3
    BY Shapes
  <2> QED BY <1>6, <2>1
<1>10. \/ Asking(w) /\ job'[w].i = job[w].i
       \/ Asking(w) /\ job'[w].i = job[w].i + 1
       \/ Step(w).try /\ job'[w].i = job[w].i + 1
       \/ Step(w).do # "run" /\ job'[w].i = job[w].i + 1
  BY <1>2, <1>5, <1>8, <1>9, Progress DEF Special, Onwards
<1>11. job[w].i = 4
  BY <1>6, <1>8, <1>10
<1>12. Step(w) = Do("forget_clock")
  BY <1>5, <1>7, <1>11, SpecialStep
<1> QED BY <1>2, <1>7, <1>12, Kinds, Taken

LEMMA ClockWorking ==
  ASSUME WorkersFit, SlotsFit, BlocksFit, GeneralFits, ClockFits, ControlAssumption, NEW w \in Workers, Working(w)
  PROVE  ClockFits'
<1>1. \A v \in Jobs : (v # w => job'[v] = job[v]) /\ job'[v].wish = job[v].wish
  BY WorkingIsAlone DEF Alone, Goes, Workers
<1>2. \A j \in Jobs : j # None
  BY DEF ControlAssumption, None
<1>3. ASSUME NEW j \in Jobs, Reading(j, 2)' \/ Reading(j, 3)' PROVE clockLock' = j
  <2>1. clockLock = j \/ (j = w /\ LookAtClock(w) /\ clockLock' = w)
    <3>1. CASE j # w
      BY <1>1, <1>3, <3>1 DEF Reading, Running, ClockFits
    <3>2. CASE j = w
      BY <1>3, <3>2, ReadingNext DEF ClockFits
    <3> QED BY <3>1, <3>2
  <2>2. CASE clockLock = j
    <3>1. ~LookAtClock(w) /\ ~ForgetClock(w)
      BY <1>2, <2>2 DEF LookAtClock, ForgetClock
    <3>2. ~(w \in Jobs /\ KeepClock(w))
      <4>1. ASSUME w \in Jobs, KeepClock(w) PROVE FALSE
        <5>1. Reading(w, 3)
          BY <4>1, ClockStepIs
        <5>2. w = j
          BY <2>2, <4>1, <5>1 DEF ClockFits
        <5>3. Step(w).do = "keep_clock" /\ job[w].i # 2
          BY <4>1, <5>1 DEF KeepClock, At, Reading
        <5> QED BY <1>3, <3>1, <4>1, <5>2, <5>3, ReadingNext DEF Reading, Asking
      <4> QED BY <4>1
    <3> QED BY <2>2, <3>1, <3>2, ClockMoves DEF clock
  <2> QED BY <2>1, <2>2
<1>4. ASSUME NEW j \in Jobs, Running(j)', job'[j].wrote
      PROVE  job'[j].prog = WriteClock \/ job'[j].wish.service = "login"
  <2>1. CASE j # w
    BY <1>1, <1>4, <2>1 DEF ClockFits, Running
  <2>2. CASE j = w
    <3>1. Running(w) /\ job'[w].prog = job[w].prog
      <4>1. w \notin Tasks /\ JobFits(w)
        BY <2>2 DEF ControlAssumption, WorkersFit
      <4> QED BY <1>4, <2>2, <4>1, WorkingIsAlone DEF Alone, Goes, Running, JobFits
    <3>2. CASE job[w].wrote
      BY <1>1, <2>2, <3>1, <3>2 DEF ClockFits
    <3>3. CASE Asking(w) /\ WritesClock(w)
      <4>1. ~Ended(w) /\ Step(w).do = "run" /\ job[w].st \in {"run", "polled"}
        BY <3>3 DEF Asking, Running
      <4>2. \/ \E f \in Fields : Writes_(w, f) /\ Field(w) = f
            \/ job[w].wish.service = "login"
        BY <3>3, <4>1, WriterIs DEF WritesClock
      <4> QED BY <1>1, <2>2, <3>1, <3>3, <4>2 DEF Writes_, WritesClock
    <3> QED BY <1>4, <2>2, <3>2, <3>3, WroteIs
  <2> QED BY <2>1, <2>2
<1>5. ASSUME NEW j \in Jobs, job[j].wrote PROVE job'[j].wrote
  BY <1>1, <1>5, WroteIs
<1>6. ASSUME NEW j \in Jobs, meant'["clock"] = j
      PROVE  job'[j].st # "idle" /\ (job'[j].wish.service = "login" => job'[j].wrote)
  <2>1. CASE meant'["clock"] = meant["clock"]
    <3>1. job[j].st # "idle" /\ (job[j].wish.service = "login" => job[j].wrote)
      BY <1>6, <2>1 DEF ClockFits
    <3>2. job'[j].st # "idle"
      BY <1>1, <3>1, WorkingIsAlone DEF Alone, Goes
    <3> QED BY <1>1, <1>5, <3>1, <3>2
  <2>2. CASE meant'["clock"] # meant["clock"]
    <3>1. DOMAIN meant = Fields
      BY DEF BlocksFit
    <3>2. w \in Jobs /\ meant'["clock"] = w /\ job'[w].wrote
      <4>1. CASE w \in Jobs /\ job'[w].wrote /\ meant' = [meant EXCEPT !["clock"] = w]
        BY <3>1, <4>1 DEF Fields
      <4>2. ASSUME NEW f \in Fields, w \in Jobs, f = "clock" => job'[w].wrote, meant' = [meant EXCEPT ![f] = w]
            PROVE  w \in Jobs /\ meant'["clock"] = w /\ job'[w].wrote
        <5>1. f = "clock"
          BY <2>2, <3>1, <4>2 DEF Fields
        <5> QED BY <3>1, <4>2, <5>1
      <4> QED BY <2>2, <4>1, <4>2, GeneralMoves
    <3>3. job'[w].st # "idle"
      BY WorkingIsAlone DEF Alone, Goes
    <3> QED BY <1>6, <3>2, <3>3
  <2> QED BY <2>1, <2>2
<1>7. ASSUME Fresh'
      PROVE  /\ sample' \in {None, "failed", held'.general.clock}
             /\ lastGood' \in {None, held'.general.clock}
             /\ \A j \in Jobs : Reading(j, 3)' => job'[j].seen = Nothing \/ job'[j].seen.clock = held'.general.clock
  <2>1. held'.general.clock = held.general.clock
    BY <1>7, ClockSet
  <2>2. CASE w \in Jobs /\ ForgetClock(w)
    <3>1. ASSUME NEW j \in Jobs, Reading(j, 3)' PROVE FALSE
      <4>1. CASE j # w
        BY <1>1, <1>2, <2>2, <3>1, <4>1 DEF ForgetClock, ClockFits, Reading, Running
      <4>2. CASE j = w
        <5>1. Step(w).do = "run"
          BY <2>2, <3>1, <4>2, ReadingNext
        <5> QED BY <2>2, <5>1 DEF ForgetClock, At
      <4> QED BY <4>1, <4>2
    <3> QED BY <2>2, <3>1 DEF ForgetClock
  <2>3. CASE Fresh /\ ~(w \in Jobs /\ ForgetClock(w))
    <3>1. /\ sample \in {None, "failed", held.general.clock}
          /\ lastGood \in {None, held.general.clock}
          /\ \A j \in Jobs : Reading(j, 3) => job[j].seen = Nothing \/ job[j].seen.clock = held.general.clock
      BY <2>3 DEF ClockFits
    <3>2. ASSUME NEW j \in Jobs, Reading(j, 3)' PROVE job'[j].seen = Nothing \/ job'[j].seen.clock = held'.general.clock
      <4>1. CASE j # w
        BY <1>1, <2>1, <3>1, <3>2, <4>1 DEF Reading, Running
      <4>2. CASE j = w
        BY <2>1, <3>2, <4>2, ReadingNext
      <4> QED BY <4>1, <4>2
    <3>3. CASE UNCHANGED clock \/ LookAtClock(w)
      BY <2>1, <3>1, <3>2, <3>3 DEF clock, LookAtClock
    <3>4. CASE w \in Jobs /\ KeepClock(w)
      <4>1. job[w].seen = Nothing \/ job[w].seen.clock = held.general.clock
        BY <3>1, <3>4, ClockStepIs
      <4> QED BY <2>1, <3>1, <3>2, <3>4, <4>1 DEF KeepClock
    <3> QED BY <2>3, <3>3, <3>4, ClockMoves
  <2> QED BY <1>7, <2>2, <2>3, FreshBefore
<1> QED BY <1>3, <1>4, <1>6, <1>7 DEF ClockFits

LEMMA ClockElsewhere ==
  ASSUME WorkersFit, BlocksFit, ClockFits, ControlAssumption, Elsewhere
  PROVE  ClockFits'
<1>1. held' = held /\ meant' = meant /\ clockLock' = clockLock /\ lastGood' = lastGood /\ sample' \in {sample, None}
  BY DEF Elsewhere, camera
<1>2. ASSUME NEW j \in Jobs
      PROVE  \/ job'[j] = job[j]
             \/ job[j].wrote = FALSE /\ job'[j].wrote = FALSE /\ job[j].wish.service # "login" /\ job'[j].i = 1
             \/ /\ Running(j) /\ Running(j)' /\ job'[j].wish = job[j].wish /\ job'[j].prog = job[j].prog
                /\ job'[j].wrote = job[j].wrote /\ job[j].prog \notin Special
  <2>1. j \in Workers /\ j \notin Tasks /\ (job[j].st = "idle" => job[j] = Idle)
    BY DEF Workers, ControlAssumption, WorkersFit
  <2>2. CASE Starts(j, job'[j]) /\ job[j].st = "idle" /\ job'[j].wrote = FALSE /\ job'[j].i = 1
    BY <2>1, <2>2, IdlePlaced
  <2>3. CASE Goes(j, job'[j]) /\ Onwards(j) /\ Running(j) /\ ~Ended(j)
    <3>1. /\ Running(j)' /\ job'[j].wish = job[j].wish /\ job'[j].prog = job[j].prog /\ job'[j].wrote = job[j].wrote
          /\ job'[j].i = job[j].i + 1 /\ job[j].i \in Nat \ {0}
      BY <2>1, <2>3, AskingIs DEF Goes, Onwards, Running
    <3>2. job'[j].i # 1 /\ job'[j].i # job[j].i
      BY <3>1
    <3>3. job[j].prog \notin Special
      BY <3>1, <3>2, ElsewhereSpecial
    <3> QED BY <2>3, <3>1, <3>3
  <2> QED BY <2>1, <2>2, <2>3 DEF Elsewhere
<1>3. ASSUME NEW j \in Jobs, NEW n \in {2, 3}, Reading(j, n)' PROVE job'[j] = job[j]
  <2>1. job'[j].prog \in Special /\ job'[j].i # 1
    BY <1>3 DEF Reading, Special
  <2> QED BY <2>1, ElsewhereSpecial
<1>4. ASSUME NEW j \in Jobs, Reading(j, 2)' \/ Reading(j, 3)' PROVE clockLock' = j
  <2>1. Reading(j, 2) \/ Reading(j, 3)
    BY <1>3, <1>4 DEF Reading, Running
  <2> QED BY <1>1, <2>1 DEF ClockFits
<1>5. ASSUME NEW j \in Jobs, Running(j)', job'[j].wrote
      PROVE  job'[j].prog = WriteClock \/ job'[j].wish.service = "login"
  BY <1>2, <1>5 DEF ClockFits, Running
<1>6. ASSUME NEW j \in Jobs, meant'["clock"] = j
      PROVE  job'[j].st # "idle" /\ (job'[j].wish.service = "login" => job'[j].wrote)
  <2>1. job[j].st # "idle" /\ (job[j].wish.service = "login" => job[j].wrote)
    BY <1>1, <1>6 DEF ClockFits
  <2>2. job'[j].st = job[j].st /\ job'[j].wish = job[j].wish /\ job'[j].wrote = job[j].wrote
    BY <2>1 DEF Elsewhere, Workers, Goes, Onwards
  <2> QED BY <2>1, <2>2
<1>7. Fresh' => Fresh
  <2>1. ASSUME NEW j \in Jobs, job[j].wrote, ~Forgot(j) PROVE job'[j].wrote /\ ~Forgot(j)'
    <3>1. CASE job'[j] = job[j]
      BY <2>1, <3>1 DEF Forgot, Running
    <3>2. CASE /\ Running(j) /\ Running(j)' /\ job'[j].wish = job[j].wish /\ job'[j].prog = job[j].prog
               /\ job'[j].wrote = job[j].wrote /\ job[j].prog \notin Special
      BY <2>1, <3>2 DEF Forgot, Running, Special
    <3> QED BY <1>2, <2>1, <3>1, <3>2
  <2> QED BY <2>1 DEF Fresh
<1>8. ASSUME NEW j \in Jobs, Reading(j, 3)' PROVE Reading(j, 3) /\ job'[j] = job[j]
  BY <1>3, <1>8 DEF Reading, Running
<1> QED BY <1>1, <1>4, <1>5, <1>6, <1>7, <1>8 DEF ClockFits

-----------------------------------------------------------------------------
(* A Stop, and what comes after it *)

LEMMA TwoPrograms == TimedMove # ZoomLoop
<1>1. Len(TimedMove) = 2 /\ Len(ZoomLoop) = 4
  BY DEF TimedMove, ZoomLoop
<1> QED BY <1>1

\* Where a Stop is: it cancels the timed move, stops the motor and cancels the zoom.
LEMMA StopStep ==
  ASSUME WorkersFit, NEW j \in Jobs, Stopping(j)
  PROVE  /\ Ended(j) => job[j].i > 2
         /\ ~Ended(j) => \/ job[j].i = 1 /\ Step(j) = Do("abort_pt")
                         \/ job[j].i = 2 /\ Step(j) = Run(Stops)
                         \/ job[j].i = 3 /\ Step(j) = Do("abort_zoom")
<1> DEFINE p == Program(job[j].wish, caps)
<1>1. job[j].prog = p /\ Placed(job[j])
  BY DEF Stopping, Running, WorkersFit, JobFits, Workers
<1>2. Len(p) \in {2, 3} /\ p[1] = Do("abort_pt") /\ p[2] = Run(Stops) /\ (Len(p) = 3 => p[3] = Do("abort_zoom"))
  BY StopProgram DEF Stopping
<1> HIDE DEF p
<1>3. job[j].i \in 1 .. Len(p) + 1
  BY <1>1 DEF Placed
<1>4. \A n \in {2, 3} : \A i \in 1 .. n + 1 : i > n => i > 2
  OBVIOUS
<1>5. \A n \in {2, 3} : \A i \in 1 .. n + 1 : ~(i > n) => i = 1 \/ i = 2 \/ (i = 3 /\ n = 3)
  OBVIOUS
<1>6. Ended(j) => job[j].i > 2
  BY <1>1, <1>2, <1>3, <1>4 DEF Ended
<1>7. ASSUME ~Ended(j)
      PROVE  \/ job[j].i = 1 /\ Step(j) = Do("abort_pt")
             \/ job[j].i = 2 /\ Step(j) = Run(Stops)
             \/ job[j].i = 3 /\ Step(j) = Do("abort_zoom")
  BY <1>1, <1>2, <1>3, <1>5, <1>7 DEF Ended, Step
<1> QED BY <1>6, <1>7

\* A Stop that is served is over, no longer calm, or waits to hear that the motor stands.
LEMMA StopServed ==
  ASSUME WorkersFit, BlocksFit, ControlAssumption, DOMAIN held.motor = {"way"}, NEW j \in Jobs, Stopping(j), Working(j),
         calm' # "no"
  PROVE  \/ Finish(j) /\ job[j].i > 2
         \/ /\ Running(j)' /\ job'[j].wish = job[j].wish /\ job[j].i = 2
            /\ job'[j].i = 2 \/ (job'[j].i = 3 /\ held'.motor.way \in {"still", "stray"})
<1>1. j \in Workers /\ j \notin Tasks /\ Running(j) /\ job[j].wish.action = "Stop"
  BY DEF Workers, ControlAssumption, Stopping
<1>2. CASE Ended(j)
  <2>1. Finish(j)
    BY <1>1, <1>2 DEF Working, Serve, Refuse, Reply, NoReply, NoAnswer, Again, Asking, At, TakeGeneralLock, Allocate,
                      FindHome, DropStop, LookAtClock, KeepClock, ForgetClock
  <2> QED BY <1>2, <2>1, StopStep
<1>3. CASE ~Ended(j)
  <2>1. \/ job[j].i = 1 /\ Step(j).do = "abort_pt"
        \/ job[j].i = 2 /\ Step(j) = Run(Stops) /\ Step(j).do = "run"
        \/ job[j].i = 3 /\ Step(j).do = "abort_zoom"
    BY <1>3, StopStep, Kinds
  <2>2. Refuse(j) \/ Reply(j) \/ NoReply(j) \/ NoAnswer(j) \/ Again(j)
    BY <1>1, <1>3, <2>1 DEF Working, Serve, Finish, At, TakeGeneralLock, Allocate, FindHome, DropStop, LookAtClock,
                            KeepClock, ForgetClock
  <2>3. ~Refuse(j) /\ ~NoAnswer(j)
    BY <1>1 DEF Refuse, Fails, NoAnswer
  <2>4. Asking(j)
    BY <2>2, <2>3 DEF Reply, NoReply, Again
  <2>5. job[j].i = 2 /\ Step(j) = Run(<<Ask("send_ptz", "way", "still")>>) /\ Step(j).do = "run"
    BY <2>1, <2>4 DEF Asking, Stops
  <2>6. Now(j) = Ask("send_ptz", "way", "still") /\ Len(Step(j).asks) = 1 /\ job[j].k = 1
    BY <1>1, <1>3, <2>5, OneAsk
  <2>7. Now(j).name = "send_ptz" /\ Now(j).field = "way" /\ Now(j).value = "still"
    BY <2>6 DEF Ask
  <2>8. ~NoReply(j)
    BY <2>7, RequestsAre DEF NoReply
  <2>9. job'[j].wish = job[j].wish
    BY <1>1, WorkingIsAlone DEF Alone, Goes
  <2>10. CASE Reply(j)
    <3>1. Heard(j) /\ Carried(j)
      BY <1>1, <2>10, ReplyIs DEF Reply
    <3>2. Running(j)' /\ job'[j].i = 3
      BY <1>1, <2>5, <2>6, <3>1 DEF Heard, Running
    <3>3. held'.motor = [held.motor EXCEPT ![Field(j)] = Value(j)]
      <4>1. Placed(job[j]) /\ job[j].i <= Len(job[j].prog)
        BY <1>1, <1>3, AskingIs
      <4> QED BY <2>5, <2>7, <3>1, <4>1, CarriedIs
    <3>4. Field(j) = "way" /\ Value(j) = "still"
      BY <2>7 DEF Field, Value
    <3>5. held'.motor.way \in {"still", "stray"}
      BY <3>3, <3>4
    <3> QED BY <2>5, <2>9, <3>2, <3>5
  <2>11. CASE Again(j)
    <3>1. Running(j)' /\ job'[j].i = 2
      BY <1>1, <2>5, <2>11, AgainIs DEF Running
    <3> QED BY <2>5, <2>9, <3>1
  <2> QED BY <2>2, <2>3, <2>8, <2>10, <2>11
<1> QED BY <1>2, <1>3

\* A timed move asks for nothing but to move and to stop.
LEMMA TimedAsks ==
  ASSUME WorkersFit, ControlAssumption, NEW w \in Tasks, job[w].st \in {"run", "polled"}, job[w].prog = TimedMove, ~Ended(w)
  PROVE  Now(w).name = "send_ptz" /\ Now(w).field = "way" /\ Now(w).value \in {"moving", "still"}
<1>1. job[w].i \in 1 .. Len(job[w].prog) /\ Step(w) = job[w].prog[job[w].i]
  <2>1. job[w].i \in Nat \ {0} /\ job[w].i <= Len(job[w].prog) /\ Len(job[w].prog) \in Nat
    BY AskingIs DEF Workers
  <2> QED BY <2>1 DEF Step
<1>2. \A i \in 1 .. 2 : i = 1 \/ i = 2
  OBVIOUS
<1>3. Len(TimedMove) = 2 /\ TimedMove[1] = Run(Moves) /\ TimedMove[2] = Run(Stops)
  BY DEF TimedMove
<1>4. Step(w) \in {Run(<<Ask("send_ptz", "way", "moving")>>), Run(<<Ask("send_ptz", "way", "still")>>)}
  BY <1>1, <1>2, <1>3 DEF Moves, Stops
<1>5. Now(w) \in {Ask("send_ptz", "way", "moving"), Ask("send_ptz", "way", "still")}
  BY <1>4, OneAsk DEF Workers
<1> QED BY <1>5 DEF Ask

\* A task that does not run a timed move leaves the motor alone; one that was aborted and
\* is polled once more may still move it.
LEMMA MotorStays ==
  ASSUME WorkersFit, SlotsFit, BlocksFit, ControlAssumption, DOMAIN held.motor = {"way"}, NEW w \in Tasks, Working(w),
         Running(w) => job[w].prog = ZoomLoop
  PROVE  held'.motor = held.motor \/ held'.motor.way \in {"still", "stray"}
<1>1. w \in Workers /\ w \notin Jobs
  BY DEF Workers, ControlAssumption
<1>2. UNCHANGED camera \/ (Carried(w) /\ ~Ended(w) /\ Step(w).do = "run")
  BY <1>1, CameraMoves
<1>3. CASE UNCHANGED camera
  BY <1>3 DEF camera
<1>4. CASE Carried(w) /\ ~Ended(w) /\ Step(w).do = "run"
  <2>1. Placed(job[w]) /\ job[w].i <= Len(job[w].prog)
    BY <1>1, <1>4, AskingIs
  <2>2. job[w].st \in {"run", "polled"} /\ job[w].prog \in {TimedMove, ZoomLoop}
    <3>1. job[w].st \in {"run", "polled"}
      BY <1>1 DEF Working, Serve, Refuse, Reply, NoReply, NoAnswer, Again, Finish, Asking, At, ZoomOn, Gone, LastPoll, Running
    <3> QED BY <3>1 DEF WorkersFit, TaskFits
  <2>3. CASE job[w].prog = ZoomLoop
    <3>1. Now(w).name \in {"get_zoom", "start_zoom_focus"}
      BY <1>1, <1>4, <2>2, <2>3, ZoomAsks
    <3> QED BY <1>4, <2>1, <3>1, CarriedIs
  <2>4. CASE job[w].prog = TimedMove
    <3>1. job[w].st = "polled"
      BY <2>2, <2>4, TwoPrograms DEF Running
    <3>2. /\ Now(w).name = "send_ptz" /\ Now(w).field = "way"
          /\ Now(w).value \in {"moving", "still"}
      BY <1>4, <2>2, <2>4, TimedAsks
    <3>3. held'.motor = [held.motor EXCEPT ![Field(w)] = Value(w)]
      BY <1>4, <2>1, <3>2, CarriedIs
    <3>4. Field(w) = "way" /\ Value(w) \in {"still", "stray"}
      BY <3>1, <3>2 DEF Field, Value
    <3> QED BY <3>3, <3>4
  <2> QED BY <2>2, <2>3, <2>4
<1> QED BY <1>2, <1>3, <1>4

LEMMA MotorIs ==
  ASSUME WorkersFit, SlotsFit, BlocksFit, ControlAssumption, DOMAIN held.motor = {"way"}, NEW w \in Workers, Working(w)
  PROVE  DOMAIN held'.motor = {"way"}
<1>1. "motor" \in DOMAIN held
  BY DEF BlocksFit, Blocks
<1>2. CASE UNCHANGED camera
  BY <1>2 DEF camera
<1>3. CASE held' \in {held, [held EXCEPT !.motor.way = "still"]}
  BY <1>1, <1>3
<1>4. CASE Carried(w) /\ ~Ended(w) /\ Step(w).do = "run"
  <2>1. Placed(job[w]) /\ job[w].i <= Len(job[w].prog)
    BY <1>4, AskingIs
  <2>2. held'.motor = held.motor \/ held'.motor = [held.motor EXCEPT ![Field(w)] = Value(w)]
    BY <1>4, <2>1, CarriedIs
  <2> QED BY <2>2
<1> QED BY <1>2, <1>3, <1>4, CameraMoves

\* The calm is only answered by the end of a Stop.
LEMMA CalmMoves ==
  ASSUME NEW w \in Workers, Working(w)
  PROVE  \/ calm' \in {calm, "no"}
         \/ calm = "asked" /\ calm' = "answered" /\ Finish(w) /\ job[w].wish.action = "Stop"
<1>1. CASE Serve(w)
  BY <1>1 DEF Serve, Refuse, Fails, Reply, NoReply, NoAnswer, Again, Finish
<1>2. CASE w \in Jobs /\ (TakeGeneralLock(w) \/ Allocate(w) \/ FindHome(w) \/ DropStop(w) \/ LookAtClock(w) \/ KeepClock(w) \/ ForgetClock(w))
  BY <1>2 DEF TakeGeneralLock, Allocate, FindHome, Fails, DropStop, LookAtClock, KeepClock, ForgetClock
<1>3. CASE w \in Tasks /\ (ZoomOn(w) \/ Gone(w) \/ LastPoll(w))
  BY <1>3 DEF ZoomOn, Gone, LastPoll
<1> QED BY <1>1, <1>2, <1>3 DEF Working

LEMMA CalmWorking ==
  ASSUME WorkersFit, SlotsFit, BlocksFit, CalmFits, ControlAssumption, NEW w \in Workers, Working(w)
  PROVE  CalmFits'
<1>1. /\ \A v \in Workers \ {w} : job'[v] = job[v]
      /\ Goes(w, job'[w]) /\ caps' = caps
  BY WorkingIsAlone DEF Alone, asking
<1>2. DOMAIN held'.motor = {"way"} /\ DOMAIN held.motor = {"way"}
  BY MotorIs DEF CalmFits
<1>3. Jobs \cap Tasks = {} /\ Jobs \subseteq Workers /\ Tasks \subseteq Workers
  BY DEF ControlAssumption, Workers
<1>4. \A j \in Jobs : j = w => Running(w)
  BY <1>1 DEF Goes, Running, WorkersFit, JobFits
<1>5. \A t \in Tasks : Running(t)' => Running(t) /\ job'[t].prog = job[t].prog
  BY <1>1, <1>3 DEF Goes, Running
<1>6. \A t \in Tasks : Running(t) => job[t].prog \in {TimedMove, ZoomLoop} /\ job[t].wish.action # "Stop"
  BY DEF Running, WorkersFit, TaskFits
<1>7. CASE calm' = "no"
  BY <1>2, <1>7 DEF CalmFits
<1>8. CASE calm = "asked" /\ calm' = "asked"
  <2>1. PICK j \in Jobs : Stopping(j) /\ \A o \in Jobs \ {j} : ~Running(o)
    BY <1>8 DEF CalmFits
  <2>2. CASE w = j
    <3>1. ~Finish(j)
      BY <1>8, <2>1 DEF Finish, Stopping
    <3>2. /\ Running(j)' /\ job'[j].wish = job[j].wish /\ job[j].i = 2
          /\ job'[j].i = 2 \/ (job'[j].i = 3 /\ held'.motor.way \in {"still", "stray"})
      BY <1>2, <1>8, <2>1, <2>2, <3>1, StopServed
    <3>3. \A t \in Tasks : Running(t)' => job'[t].prog # TimedMove
      BY <1>5, <2>1, <3>2 DEF Stopping
    <3>4. Stopping(j)'
      BY <1>1, <2>1, <3>2, <3>3 DEF Stopping
    <3>5. \A o \in Jobs \ {j} : ~Running(o)'
      BY <1>1, <1>3, <2>1, <2>2 DEF Running
    <3> QED BY <1>2, <1>8, <3>4, <3>5 DEF CalmFits
  <2>3. CASE w # j
    <3>1. w \in Tasks
      BY <1>4, <2>1, <2>3 DEF Workers
    <3>2. job'[j] = job[j] /\ \A o \in Jobs \ {j} : job'[o] = job[o]
      BY <1>1, <1>3, <2>3, <3>1
    <3>3. job[j].i > 1 => \A t \in Tasks : Running(t)' => job'[t].prog # TimedMove
      BY <1>5, <2>1 DEF Stopping
    <3>4. ASSUME job[j].i > 2 PROVE held'.motor.way \in {"still", "stray"}
      <4>1. job[j].i > 1
        <5>1. job[j].i \in Nat
          BY <1>3 DEF WorkersFit, Placed
        <5> QED BY <3>4, <5>1
      <4>2. Running(w) => job[w].prog = ZoomLoop
        BY <1>6, <2>1, <3>1, <4>1 DEF Stopping
      <4>3. held'.motor = held.motor \/ held'.motor.way \in {"still", "stray"}
        BY <1>2, <3>1, <4>2, MotorStays
      <4> QED BY <2>1, <3>4, <4>3 DEF Stopping
    <3>5. Stopping(j)'
      BY <1>1, <2>1, <3>2, <3>3, <3>4 DEF Stopping, Running
    <3>6. \A o \in Jobs \ {j} : ~Running(o)'
      BY <2>1, <3>2 DEF Running
    <3> QED BY <1>2, <1>8, <3>5, <3>6 DEF CalmFits
  <2> QED BY <2>2, <2>3
<1>9. CASE calm = "answered" /\ calm' = "answered"
  <2>1. held.motor.way \in {"still", "stray"} /\ (\A j \in Jobs : ~Running(j)) /\ \A t \in Tasks : Running(t) => job[t].prog # TimedMove
    BY <1>9 DEF CalmFits
  <2>2. w \in Tasks
    BY <1>4, <2>1 DEF Workers
  <2>3. held'.motor = held.motor \/ held'.motor.way \in {"still", "stray"}
    BY <1>2, <1>6, <2>1, <2>2, MotorStays
  <2>4. \A j \in Jobs : ~Running(j)'
    BY <1>1, <1>3, <2>1, <2>2 DEF Running
  <2> QED BY <1>2, <1>5, <1>9, <2>1, <2>3, <2>4 DEF CalmFits
<1>10. CASE calm = "asked" /\ calm' = "answered" /\ Finish(w) /\ job[w].wish.action = "Stop"
  <2>1. PICK j \in Jobs : Stopping(j) /\ \A o \in Jobs \ {j} : ~Running(o)
    BY <1>10 DEF CalmFits
  <2>2. Running(w) /\ Ended(w)
    BY <1>10 DEF Finish
  <2>3. w = j
    BY <1>6, <1>10, <2>1, <2>2 DEF Workers
  <2>4. job[j].i > 2 /\ job[j].i > 1
    <3>1. job[j].i > 2
      BY <2>1, <2>2, <2>3, StopStep
    <3>2. job[j].i \in Nat
      BY <1>3 DEF WorkersFit, Placed
    <3> QED BY <3>1, <3>2
  <2>5. held'.motor = held.motor
    BY <1>10 DEF Finish, camera
  <2>6. ~Running(j)'
    BY <1>3, <1>10, <2>3, FinishIs DEF Running
  <2>7. \A o \in Jobs : ~Running(o)'
    BY <1>1, <1>3, <2>1, <2>3, <2>6 DEF Running
  <2>8. held.motor.way \in {"still", "stray"} /\ \A t \in Tasks : Running(t) => job[t].prog # TimedMove
    BY <2>1, <2>4 DEF Stopping
  <2> QED BY <1>2, <1>5, <1>10, <2>5, <2>7, <2>8 DEF CalmFits
<1> QED BY <1>7, <1>8, <1>9, <1>10, CalmMoves DEF CalmFits

\* Of the steps that are not of a worker alone, one comes and is a Stop, or it is the Stop
\* that ends a task; it spawns none.
LEMMA CalmElsewhere ==
  ASSUME WorkersFit, SlotsFit, CalmFits, ControlAssumption,
         \/ \E j \in Jobs, r \in desk : Arrive(j, r)
         \/ \E j \in Jobs : AbortTask(j)
         \/ \E j \in Jobs, t \in Tasks : Spawn(j, t)
         \/ Expire \/ Reload \/ UNCHANGED vars
  PROVE  CalmFits'
<1>1. Jobs \cap Tasks = {} /\ Jobs \subseteq Workers /\ Tasks \subseteq Workers
  BY DEF ControlAssumption, Workers
<1>2. ASSUME NEW j \in Jobs, NEW r \in desk, Arrive(j, r) PROVE CalmFits'
  <2>1. /\ \A w \in Workers \ {j} : job'[w] = job[w]
        /\ job'[j].wish = r /\ job'[j].i = 1 /\ job'[j].st = "run"
    BY <1>2, ArriveIs DEF Starts
  <2>2. held' = held /\ caps' = caps
    BY <1>2 DEF Arrive, camera, asking
  <2>3. CASE calm' = "asked"
    <3>1. /\ r.service = "ptz" /\ r.action = "Stop" /\ r.pan = "move" /\ "pan_tilt" \in caps
          /\ \A o \in Jobs \ {j} : job[o].st # "run"
      BY <1>2, <2>3 DEF Arrive
    <3>2. Stopping(j)'
      BY <2>1, <2>2, <3>1 DEF Stopping, Running
    <3>3. \A o \in Jobs \ {j} : ~Running(o)'
      BY <1>1, <2>1, <3>1 DEF Running
    <3> QED BY <2>2, <2>3, <3>2, <3>3 DEF CalmFits
  <2>4. CASE calm' = "no"
    BY <2>2, <2>4 DEF CalmFits
  <2> QED BY <1>2, <2>3, <2>4 DEF Arrive
<1>3. ASSUME NEW j \in Jobs, AbortTask(j) PROVE CalmFits'
  <2>1. /\ SlotsFit' /\ Goes(j, job'[j]) /\ Onwards(j)
        /\ \A w \in Workers \ {j} : job'[w] = job[w] \/ (w \in Tasks /\ Goes(w, job'[w]) /\ Ends(w))
        /\ Step(j).do = "abort_pt" => ptTask' = None
    BY <1>3, AbortTaskIs
  <2>2. /\ held' = held /\ caps' = caps /\ calm' = calm /\ Running(j) /\ ~Ended(j)
        /\ Step(j).do \in {"abort_pt", "abort_zoom"}
    BY <1>3 DEF AbortTask, At, camera, asking
  <2>3. \A t \in Tasks : Running(t)' => Running(t) /\ job'[t].prog = job[t].prog
    BY <1>1, <2>1 DEF Ends, Running
  <2>4. \A o \in Jobs \ {j} : job'[o] = job[o]
    BY <1>1, <2>1
  <2>5. CASE calm = "asked"
    <3>1. Stopping(j) /\ \A o \in Jobs \ {j} : ~Running(o)
      BY <2>2, <2>5 DEF CalmFits
    <3>2. \/ job[j].i = 1 /\ Step(j).do = "abort_pt"
          \/ job[j].i = 3 /\ Step(j).do = "abort_zoom"
      BY <2>2, <3>1, StopStep, Kinds
    <3>3. Running(j)' /\ job'[j].wish = job[j].wish /\ job'[j].i = job[j].i + 1
      BY <2>1, <2>2 DEF Goes, Onwards, Running
    <3>4. CASE job[j].i = 1 /\ Step(j).do = "abort_pt"
      <4>1. \A t \in Tasks : Running(t)' => job'[t].prog # TimedMove
        <5>1. ptTask' = None /\ None \notin Tasks
          BY <2>1, <3>4 DEF ControlAssumption, None
        <5>2. \A t \in Tasks : Running(t)' => job'[t].prog = ZoomLoop
          BY <2>1, <5>1 DEF SlotsFit
        <5> QED BY <5>2, TwoPrograms
      <4>2. job'[j].i = 2
        BY <3>3, <3>4
      <4>3. Stopping(j)'
        BY <2>2, <3>1, <3>3, <4>1, <4>2 DEF Stopping
      <4> QED BY <2>2, <2>4, <2>5, <3>1, <4>3 DEF CalmFits, Running
    <3>5. CASE job[j].i = 3 /\ Step(j).do = "abort_zoom"
      <4>1. held.motor.way \in {"still", "stray"} /\ \A t \in Tasks : Running(t) => job[t].prog # TimedMove
        BY <3>1, <3>5 DEF Stopping
      <4>2. Stopping(j)'
        BY <2>2, <2>3, <3>1, <3>3, <4>1 DEF Stopping
      <4> QED BY <2>2, <2>4, <2>5, <3>1, <4>2 DEF CalmFits, Running
    <3> QED BY <3>2, <3>4, <3>5
  <2>6. CASE calm # "asked"
    BY <2>2, <2>6 DEF CalmFits
  <2> QED BY <2>5, <2>6
<1>4. ASSUME NEW j \in Jobs, NEW t \in Tasks, Spawn(j, t) PROVE CalmFits'
  <2>1. held' = held /\ calm' = calm /\ Running(j) /\ job[j].wish.action # "Stop"
    BY <1>4, SpawnersMove DEF Spawn, At, camera
  <2>2. calm = "no"
    BY <2>1 DEF CalmFits, Stopping
  <2> QED BY <2>1, <2>2 DEF CalmFits
<1>5. CASE Expire \/ Reload \/ UNCHANGED vars
  <2>1. held' = held /\ job' = job /\ calm' = calm /\ caps' = caps
    BY <1>5 DEF Expire, Reload, vars, camera, asking
  <2>2. \A j \in Jobs : Stopping(j)' <=> Stopping(j)
    BY <2>1 DEF Stopping, Running
  <2> QED BY <2>1, <2>2 DEF CalmFits, Running
<1> QED BY <1>2, <1>3, <1>4, <1>5

-----------------------------------------------------------------------------
(* All of it *)

CameraFits == BlocksFit /\ PresetsFit /\ GeneralFits /\ FieldsKept /\ ClockFits /\ CalmFits

LEMMA CameraInit == ASSUME Init, ControlAssumption PROVE CameraFits
<1>1. /\ held = Blocks /\ meant = Blocks.general
  BY DEF Init
<1>2. \A w \in Workers : job[w] = Idle
  BY DEF Init
<1>3. Idle.st = "idle" /\ Idle.slot = "none"
  BY IdlePlaced
<1>4. /\ DOMAIN Blocks.general = Fields /\ DOMAIN Blocks.presets = {"home", "one", "two"}
  BY DEF Blocks, Fields
<1>5. \A w \in Workers : ~Running(w)
  BY <1>2, <1>3 DEF Running
<1>6. \A j \in Jobs : ~Locked(j) /\ \A f \in Fields : ~Writes_(j, f)
  BY <1>5 DEF Locked, Writes_, Workers
<1>7. BlocksFit
  BY <1>1, <1>4 DEF BlocksFit
<1>8. PresetsFit
  BY <1>2, <1>3, <1>5 DEF PresetsFit, At
<1>9. GeneralFits
  BY <1>6 DEF GeneralFits
<1>10. FieldsKept
  BY <1>1 DEF FieldsKept
<1>11. ClockFits
  <2>1. \A j \in Jobs : j \in Workers /\ j # "old"
    BY DEF ControlAssumption, Workers
  <2>2. meant["clock"] = "old"
    BY <1>1 DEF Blocks
  <2>3. sample = None /\ lastGood = None
    BY DEF Init
  <2> QED BY <1>5, <2>1, <2>2, <2>3 DEF ClockFits, Reading
<1>12. CalmFits
  <2>1. DOMAIN Blocks.motor = {"way"}
    BY DEF Blocks
  <2>2. calm = "no"
    BY DEF Init
  <2> QED BY <1>1, <2>1, <2>2 DEF CalmFits
<1> QED BY <1>7, <1>8, <1>9, <1>10, <1>11, <1>12 DEF CameraFits

LEMMA CameraNext ==
  ASSUME WorkersFit, SlotsFit, CameraFits, ControlAssumption, Next \/ Served \/ UNCHANGED vars
  PROVE  CameraFits'
<1>1. WorkersFit'
  BY WorkNext
<1>2. CASE \E w \in Workers : Working(w)
  BY <1>1, <1>2, PresetsWorking, GeneralWorking, ClockWorking, CalmWorking DEF CameraFits
<1>3. CASE \/ \E j \in Jobs, r \in desk : Arrive(j, r)
           \/ \E j \in Jobs : AbortTask(j)
           \/ \E j \in Jobs, t \in Tasks : Spawn(j, t)
           \/ Expire \/ Reload \/ UNCHANGED vars
  <2>1. Elsewhere
    BY <1>3, ElsewhereIs
  <2>2. CalmFits'
    BY <1>3, CalmElsewhere DEF CameraFits
  <2> QED BY <1>1, <2>1, <2>2, PresetsElsewhere, GeneralElsewhere, ClockElsewhere DEF CameraFits
<1> QED BY <1>2, <1>3, NextIs

LEMMA ControlInv == Spec => [](WorkersFit /\ SlotsFit /\ CameraFits)
<1>1. Init => WorkersFit /\ SlotsFit /\ CameraFits
  BY WorkInit, CameraInit, ControlAssumption
<1>2. WorkersFit /\ SlotsFit /\ CameraFits /\ [Next \/ Served]_vars => (WorkersFit /\ SlotsFit /\ CameraFits)'
  BY WorkNext, CameraNext, ControlAssumption
<1> QED BY <1>1, <1>2, PTL DEF Spec

\* No two of SetSystemDateAndTime and SetOSD, however they are interleaved, failed or
\* begun again on another connection, revert what the other set of the block that both
\* read, change and write back (general_lock, state.rs).
THEOREM IsKept == Spec => []FieldsKept
<1>1. WorkersFit /\ SlotsFit /\ CameraFits => FieldsKept
  BY DEF CameraFits
<1> QED BY <1>1, ControlInv, PTL

\* Once every SetSystemDateAndTime that wrote the clock has been answered, and no login wrote
\* it, neither the sample nor the last good reading is from before, one that was being taken
\* at that moment included (invalidate_clock_cache, state.rs; write_camera_clock, device.rs).
THEOREM IsFresh == Spec => []ClockIsFresh
<1>1. WorkersFit /\ SlotsFit /\ CameraFits => ClockIsFresh
  BY DEF CameraFits, ClockFits, Fresh, Forgot, ClockIsFresh
<1> QED BY <1>1, ControlInv, PTL

\* After a Stop that was answered with nothing else asked for since, nothing drives the motor
\* but a move that a task, aborted in the middle of a poll, was just sending
\* (abort_pt_task before stop_pt, ptz.rs).
THEOREM StopIsFinal == Spec => []StopCancels
<1>1. WorkersFit /\ SlotsFit /\ CameraFits => StopCancels
  BY DEF CameraFits, CalmFits, StopCancels
<1> QED BY <1>1, ControlInv, PTL

\* The home position is only given away, by a SetPreset that names no slot, when the
\* others are used, whoever else is storing presets (HOME_PRESET_ID, ptz.rs).
THEOREM StaysHome == Spec => HomeIsKept
<1> DEFINE Given_away == held'.presets.home # held.presets.home =>
          \/ \E j \in Workers : Asking(j) /\ Now(j).name = "set_ptz_preset" /\ Now(j).field = "home"
          \/ held.presets.one # "empty" /\ held.presets.two # "empty"
<1>1. ASSUME WorkersFit, SlotsFit, CameraFits, Next \/ Served \/ UNCHANGED vars
      PROVE  Given_away
  <2>1. CASE Elsewhere
    BY <2>1 DEF Elsewhere, camera
  <2>2. ASSUME NEW w \in Workers, Working(w), held'.presets.home # held.presets.home
        PROVE  \/ Asking(w) /\ Now(w).name = "set_ptz_preset" /\ Now(w).field = "home"
               \/ held.presets.one # "empty" /\ held.presets.two # "empty"
    <3>1. Asking(w) /\ Now(w).name = "set_ptz_preset" /\ Field(w) = "home"
      BY <1>1, <2>2, PresetsGrow, ControlAssumption DEF CameraFits
    <3>2. CASE Now(w).field = "none"
      <4>1. job[w].slot = "home"
        BY <3>1, <3>2 DEF Field
      <4> QED BY <1>1, <4>1 DEF CameraFits, PresetsFit
    <3>3. CASE Now(w).field # "none"
      BY <3>1, <3>3 DEF Field
    <3> QED BY <3>2, <3>3
  <2> QED BY <1>1, <2>1, <2>2, NextIs, ElsewhereIs, ControlAssumption
<1>2. WorkersFit /\ SlotsFit /\ CameraFits /\ [Next \/ Served]_vars => [Given_away]_vars
  BY <1>1
<1> QED BY <1>2, ControlInv, PTL DEF Spec, HomeIsKept
=============================================================================
