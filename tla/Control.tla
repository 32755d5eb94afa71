------------------------------- MODULE Control -------------------------------
(***************************************************************************)
(* One camera and those who control it: requests that are served at once, *)
(* each going through its program (ControlPrograms) a request to the      *)
(* camera at a time, and the tasks some of them leave behind.  Models the  *)
(* camera's entry of src/onvif/state.rs (CameraEntry: run, pt_task,        *)
(* zoom_task, general_lock, clock) with its replacement when the          *)
(* configuration is read again, and how src/onvif/services/ptz.rs starts,  *)
(* cancels and ends its background tasks.  A request may be refused by the *)
(* camera, lost, answered too late (CAMERA_READ_TIMEOUT) after it was done *)
(* or, when the connection is replaced, made again from the start of its   *)
(* task.  The camera itself is external: `held` is what it has been told.  *)
(***************************************************************************)
EXTENDS ControlPrograms, Naturals, FiniteSets

CONSTANTS Jobs,       \* the requests, each served once
          Tasks,      \* the background tasks there may ever be
          Desks,      \* sets of requests that are made together
          Caps,       \* sets of capabilities the camera may have
          Rights,     \* sets of abilities its user may have
          ZoomMax,    \* the lens goes from 0 to ZoomMax
          MaxFaults,  \* requests that fail
          MaxBreaks,  \* times the connection is replaced under a request
          MaxReloads  \* times the configuration is read again

\* A request is one of those there are; no name stands for none, for an empty slot or
\* for what a field was before.
ASSUME ControlAssumption ==
    /\ Jobs \cap Tasks = {} /\ {"none", "empty", "old"} \cap (Jobs \union Tasks) = {}
    /\ \A d \in Desks : \A w \in d : IsWish(w)
    /\ ZoomMax \in Nat
    /\ MaxFaults \in Nat /\ MaxBreaks \in Nat /\ MaxReloads \in Nat

VARIABLES desk, caps, rights, \* what this behaviour is about: chosen once
          held,               \* the camera's settings, a function for each block
          zoom,               \* where the lens is
          job,                \* the requests and the tasks
          ptTask, zoomTask,   \* pt_task, zoom_task: the task to cancel, or none
          generalLock,        \* who holds general_lock, or none
          clockLock, sample, lastGood, \* the clock's cache: its lock, what was read, what was read well
          entry,              \* which entry of the camera is in the map
          faults, breaks,
          meant,              \* who last set each field of the general block
          calm                \* a Stop was asked for, and has been answered, with nothing after it

asking == <<desk, caps, rights>>
camera == <<held, zoom, meant>>
slots == <<ptTask, zoomTask>>
clock == <<clockLock, sample, lastGood>>
budget == <<faults, breaks>>
vars == <<asking, camera, job, slots, generalLock, clock, entry, budget, calm>>

None == "none"
Workers == Jobs \union Tasks
Blocks ==
    [general |-> [clock |-> "old", name |-> "old", dates |-> "old"],
     led |-> [ir |-> "auto", status |-> "open"],
     motor |-> [way |-> "still"],
     presets |-> [home |-> "empty", one |-> "empty", two |-> "empty"],
     users |-> [guest |-> "away"],
     ports |-> [rtsp |-> "on", onvif |-> "on"],
     ai |-> [cry |-> "old"], alarm |-> [zone |-> "old"],
     pir |-> [on |-> "off"], tasks |-> [on |-> "off"], light |-> [on |-> "off"], email |-> [on |-> "off"],
     siren |-> [played |-> "no"], power |-> [asked |-> "no"], battery |-> [level |-> "full"],
     lens |-> [zoom |-> "none", focus |-> "none"]]

Nothing == <<>>
Idle == [st |-> "idle", wish |-> Asked("none", "none", "none", "none", "none"), prog |-> <<>>, i |-> 1, k |-> 1,
         seen |-> Nothing, at |-> 0, slot |-> "none", entry |-> 0, moved |-> FALSE, stopped |-> FALSE, wrote |-> FALSE]

Init ==
    /\ desk \in Desks /\ caps \in Caps /\ rights \in Rights
    /\ held = Blocks /\ zoom = 0 /\ meant = Blocks.general
    /\ job = [j \in Workers |-> Idle]
    /\ ptTask = None /\ zoomTask = None /\ generalLock = None
    /\ clockLock = None /\ sample = None /\ lastGood = None
    /\ entry = 0 /\ faults = 0 /\ breaks = 0 /\ calm = "no"

Running(j) == job[j].st = "run"
Step(j) == job[j].prog[job[j].i]
Ended(j) == job[j].i > Len(job[j].prog)

\* Over: what it read and where it was no longer matter.
Over(j, how) ==
    [job[j] EXCEPT !.st = how, !.prog = <<>>, !.i = 1, !.k = 1, !.seen = Nothing, !.at = 0, !.slot = "none"]

\* The next step of the program, or its end.
Onward(r) == [r EXCEPT !.i = @ + 1, !.k = 1]

-----------------------------------------------------------------------------
(* Requests come and go *)

Arrive(j, w) ==
    /\ job[j].st = "idle"
    /\ job' = [job EXCEPT ![j].st = "run", ![j].wish = w, ![j].prog = Program(w, caps), ![j].entry = entry]
    /\ calm' = IF w.service = "ptz" /\ w.action = "Stop" /\ w.pan = "move" /\ "pan_tilt" \in caps
                  /\ \A o \in Jobs \ {j} : job[o].st # "run"
               THEN "asked" ELSE "no"
    /\ UNCHANGED <<asking, camera, slots, generalLock, clock, entry, budget>>

Finish(j) ==
    /\ Running(j) /\ Ended(j)
    /\ job' = [job EXCEPT ![j] = Over(j, "done")]
    /\ calm' = IF calm = "asked" /\ job[j].wish.action = "Stop" THEN "answered" ELSE calm
    /\ generalLock' = IF generalLock = j THEN None ELSE generalLock
    /\ UNCHANGED <<asking, camera, slots, clock, entry, budget>>

\* A request that failed goes no further, unless its failure is passed over; a guard
\* on its stack is dropped all the same, and so are the locks it holds.
Failed(j) ==
    LET last == Len(job[j].prog)
    IN IF Step(j).try THEN [Onward(job[j]) EXCEPT !.seen = Nothing]
       ELSE IF job[j].prog[last].do = "drop_stop" /\ job[j].i < last THEN [job[j] EXCEPT !.i = last, !.k = 1]
       ELSE Over(j, "fault")

Fails(j) ==
    /\ job' = [job EXCEPT ![j] = Failed(j)]
    /\ generalLock' = IF generalLock = j /\ Failed(j).st = "fault" THEN None ELSE generalLock
    /\ calm' = IF job[j].wish.action = "Stop" THEN "no" ELSE calm

-----------------------------------------------------------------------------
(* One request to the camera *)

\* A task reaches the camera through the entry it was started on, which is there
\* while it is the one in the map or a request that came to it is served.
Alive(e) == e = entry \/ \E j \in Jobs : job[j].st = "run" /\ job[j].entry = e

Asking(j) == Running(j) /\ ~Ended(j) /\ Step(j).do = "run" /\ (j \in Tasks /\ job[j].k = 1 => Alive(job[j].entry))
Now(j) == Step(j).asks[job[j].k]
Field(j) == IF Now(j).field = "none" THEN job[j].slot ELSE Now(j).field

\* A move that a task sends after it was aborted is told from the others, though the
\* camera does not.
Value(j) ==
    IF Now(j).value = "mine" THEN j
    ELSE IF Now(j).value = "moving" /\ job[j].st = "polled" THEN "stray" ELSE Now(j).value

Place(j) ==
    CASE Now(j).value = "in" -> IF job[j].at < ZoomMax THEN job[j].at + 1 ELSE ZoomMax
      [] Now(j).value = "out" -> IF job[j].at > 0 THEN job[j].at - 1 ELSE 0
      [] Now(j).value = "there" -> job[j].at
      [] Now(j).value = "wide" -> 0
      [] OTHER -> ZoomMax

\* What the camera does when it is asked: a block that is written replaces all that
\* it held by what was read, but for the field that is changed.
Carried(j) ==
    LET rq == Requests[Now(j).name]
    IN CASE rq.does = "get" -> UNCHANGED camera
         [] rq.block = "lens" ->
              /\ zoom' = IF Field(j) = "zoom" THEN Place(j) ELSE zoom
              /\ UNCHANGED <<held, meant>>
         [] OTHER ->
              /\ held' = [held EXCEPT ![rq.block] =
                             [(IF rq.does = "put" THEN job[j].seen ELSE @) EXCEPT ![Field(j)] = Value(j)]]
              /\ meant' = IF rq.block = "general" THEN [meant EXCEPT ![Field(j)] = j] ELSE meant
              /\ UNCHANGED zoom

\* What it leaves with the one that asked.
Marked(j) ==
    [job[j] EXCEPT !.moved = @ \/ Now(j).value = "moving",
                   !.stopped = (@ \/ Now(j).value = "still") /\ Now(j).value # "moving",
                   !.wrote = @ \/ (Now(j).name \in {"set_general", "set_time"} /\ Field(j) = "clock")]

Answered(j) ==
    LET rq == Requests[Now(j).name]
        read == IF rq.does # "get" THEN Marked(j)
                ELSE IF rq.block = "lens" /\ Len(Step(j).asks) = 1 THEN [job[j] EXCEPT !.at = zoom]
                ELSE [job[j] EXCEPT !.seen = held[rq.block]]
    IN IF job[j].k = Len(Step(j).asks) \/ (rq.does = "get" /\ Settled(Now(j), held[rq.block]))
       THEN [Onward(read) EXCEPT !.seen = IF job[j].i < Len(job[j].prog) THEN @ ELSE Nothing]
       ELSE [read EXCEPT !.k = @ + 1]

Permitted(j) == Requests[Now(j).name].right \in rights \union {"any"}
Refused(j) ==
    \/ ~Permitted(j)
    \/ Requests[Now(j).name].does = "get" /\ Declined(Now(j), held[Requests[Now(j).name].block])

At(j, what) == Running(j) /\ ~Ended(j) /\ Step(j).do = what

\* has_ability, the answers that end a method at once, and the faults that a service
\* answers with before it asks the camera.
Refuse(j) ==
    /\ (Asking(j) /\ Refused(j)) \/ At(j, "fault")
    /\ Fails(j)
    /\ UNCHANGED <<asking, camera, slots, clock, entry, budget>>

Reply(j) ==
    /\ Asking(j) /\ ~Refused(j)
    /\ Carried(j)
    /\ job' = [job EXCEPT ![j] = Answered(j)]
    /\ UNCHANGED <<asking, slots, generalLock, clock, entry, budget, calm>>

\* Half a second without a reply is taken for success by those that allow for it.
NoReply(j) ==
    /\ Asking(j) /\ ~Refused(j) /\ Requests[Now(j).name].mute /\ faults < MaxFaults
    /\ job' = [job EXCEPT ![j] = Answered(j)]
    /\ faults' = faults + 1
    /\ UNCHANGED <<asking, camera, slots, generalLock, clock, entry, breaks, calm>>

\* An error, or five seconds: the camera may have done it.
NoAnswer(j) ==
    /\ Asking(j) /\ ~Refused(j) /\ faults < MaxFaults
    /\ \/ UNCHANGED camera /\ job' = [job EXCEPT ![j] = Failed(j)]
       \/ Carried(j)
          /\ job' = [job EXCEPT ![j] = [Failed(j) EXCEPT !.moved = Marked(j).moved, !.stopped = Marked(j).stopped,
                                                         !.wrote = Marked(j).wrote]]
    /\ generalLock' = IF generalLock = j /\ Failed(j).st = "fault" THEN None ELSE generalLock
    /\ calm' = IF job[j].wish.action = "Stop" THEN "no" ELSE calm
    /\ faults' = faults + 1
    /\ UNCHANGED <<asking, slots, clock, entry, breaks>>

\* run_task starts the whole task again on the camera that comes next.
Again(j) ==
    /\ Asking(j) /\ ~Refused(j) /\ breaks < MaxBreaks
    /\ \/ UNCHANGED camera /\ job' = [job EXCEPT ![j].k = 1]
       \/ Carried(j) /\ job' = [job EXCEPT ![j] = [Marked(j) EXCEPT !.k = 1]]
    /\ breaks' = breaks + 1
    /\ UNCHANGED <<asking, slots, generalLock, clock, entry, faults, calm>>

-----------------------------------------------------------------------------
(* What a step does to the entry *)

\* An aborted task is dropped where it waits; one that is just being polled goes on
\* to where it waits next, and what it sends until then is sent.
Aborted(t) == IF t # None /\ Running(t) THEN {Over(t, "aborted"), [job[t] EXCEPT !.st = "polled"]} ELSE {}
Cancelled(t, others) ==
    IF Aborted(t) = {} THEN job' = others
    ELSE \E gone \in Aborted(t) : job' = [others EXCEPT ![t] = gone]

AbortTask(j) ==
    /\ \/ At(j, "abort_pt") /\ Cancelled(ptTask, [job EXCEPT ![j] = Onward(@)]) /\ ptTask' = None /\ UNCHANGED zoomTask
       \/ At(j, "abort_zoom") /\ Cancelled(zoomTask, [job EXCEPT ![j] = Onward(@)]) /\ zoomTask' = None /\ UNCHANGED ptTask
    /\ UNCHANGED <<asking, camera, generalLock, clock, entry, budget, calm>>

\* The last thing that an aborted task does, however long after the abort: what it was
\* about to ask the camera for is asked for.
LastPoll(t) ==
    /\ job[t].st = "polled"
    /\ \/ UNCHANGED camera
       \/ ~Ended(t) /\ Step(t).do = "run" /\ ~Refused(t) /\ Carried(t)
    /\ job' = [job EXCEPT ![t] = Over(t, "aborted")]
    /\ UNCHANGED <<asking, slots, generalLock, clock, entry, budget, calm>>

\* spawn_pt_task and spawn_zoom_task: the slot is locked while the task that is in it
\* is aborted, the next is spawned and put there.
Started(t, j, prog) ==
    [Idle EXCEPT !.st = "run", !.wish = job[j].wish, !.prog = prog, !.entry = job[j].entry]

Spawn(j, t) ==
    /\ job[t].st = "idle" /\ t = CHOOSE u \in Tasks : job[u].st = "idle"
    /\ \/ At(j, "spawn_pt")
          /\ Cancelled(ptTask, [job EXCEPT ![j] = Onward(@), ![t] = Started(t, j, TimedMove)])
          /\ ptTask' = t /\ UNCHANGED zoomTask
       \/ At(j, "spawn_zoom")
          /\ Cancelled(zoomTask, [job EXCEPT ![j] = Onward(@), ![t] = Started(t, j, ZoomLoop)])
          /\ zoomTask' = t /\ UNCHANGED ptTask
    /\ UNCHANGED <<asking, camera, generalLock, clock, entry, budget, calm>>

\* run_zoom_loop: a step further, until the lens is at the end it goes to.
ZoomOn(t) ==
    /\ At(t, "zoom_on")
    /\ LET next == IF job[t].wish.zoom = "in" THEN job[t].at + 1 ELSE job[t].at - 1
       IN job' = [job EXCEPT ![t] = IF next \in 0..ZoomMax THEN [@ EXCEPT !.i = 3, !.k = 1, !.at = next]
                                    ELSE [@ EXCEPT !.i = Len(job[t].prog) + 1]]
    /\ UNCHANGED <<asking, camera, slots, generalLock, clock, entry, budget, calm>>

\* The entry a task was started on is no longer there: it returns.
Gone(t) ==
    /\ Running(t) /\ ~Ended(t) /\ Step(t).do = "run" /\ job[t].k = 1 /\ ~Alive(job[t].entry)
    /\ job' = [job EXCEPT ![t] = Over(t, "done")]
    /\ UNCHANGED <<asking, camera, slots, generalLock, clock, entry, budget, calm>>

TakeGeneralLock(j) ==
    /\ At(j, "lock") /\ generalLock = None
    /\ generalLock' = j
    /\ job' = [job EXCEPT ![j] = Onward(@)]
    /\ UNCHANGED <<asking, camera, slots, clock, entry, budget, calm>>

\* pick_free_preset_id: the home position is the last that is given.
Free(seen) == {s \in DOMAIN seen : seen[s] = "empty"}

\* A mutant: any slot that is free.
AllocateAny(j) ==
    /\ At(j, "allocate")
    /\ IF Free(job[j].seen) = {} THEN Fails(j)
       ELSE \E s \in Free(job[j].seen) :
               job' = [job EXCEPT ![j] = [Onward(@) EXCEPT !.slot = s]] /\ UNCHANGED <<generalLock, calm>>
    /\ UNCHANGED <<asking, camera, slots, clock, entry, budget>>

Allocate(j) ==
    /\ At(j, "allocate")
    /\ LET free == Free(job[j].seen)
           first == IF "one" \in free THEN "one" ELSE IF "two" \in free THEN "two" ELSE "home"
       IN IF free = {} THEN Fails(j)
          ELSE job' = [job EXCEPT ![j] = [Onward(@) EXCEPT !.slot = first]] /\ UNCHANGED <<generalLock, calm>>
    /\ UNCHANGED <<asking, camera, slots, clock, entry, budget>>

\* GotoHomePosition asks for a home position that was stored.
FindHome(j) ==
    /\ At(j, "find_home")
    /\ IF job[j].seen["home"] = "empty" THEN Fails(j)
       ELSE job' = [job EXCEPT ![j] = Onward(@)] /\ UNCHANGED <<generalLock, calm>>
    /\ UNCHANGED <<asking, camera, slots, clock, entry, budget>>

\* The clock: a recent sample answers, even one that says the camera did not; else
\* the camera is asked, and what it says is kept, with the lock held all along.
LookAtClock(j) ==
    /\ At(j, "look_at_clock") /\ clockLock = None
    /\ IF sample # None
       THEN job' = [job EXCEPT ![j].i = Len(job[j].prog) + 1] /\ UNCHANGED clockLock
       ELSE job' = [job EXCEPT ![j] = Onward(@)] /\ clockLock' = j
    /\ UNCHANGED <<asking, camera, slots, generalLock, sample, lastGood, entry, budget, calm>>

KeepClock(j) ==
    /\ At(j, "keep_clock")
    /\ clockLock' = None
    /\ sample' = IF job[j].seen = Nothing THEN "failed" ELSE job[j].seen.clock
    /\ lastGood' = IF job[j].seen = Nothing THEN lastGood ELSE job[j].seen.clock
    /\ job' = [job EXCEPT ![j] = Onward(@)]
    /\ UNCHANGED <<asking, camera, slots, generalLock, entry, budget, calm>>

\* invalidate_clock_cache
ForgetClock(j) ==
    /\ At(j, "forget_clock") /\ clockLock = None
    /\ sample' = None /\ lastGood' = None
    /\ job' = [job EXCEPT ![j] = Onward(@)]
    /\ UNCHANGED <<asking, camera, slots, generalLock, clockLock, entry, budget, calm>>

\* CLOCK_CACHE_TTL: the sample is too old.
Expire ==
    /\ sample # None /\ clockLock = None
    /\ sample' = None
    /\ UNCHANGED <<asking, camera, job, slots, generalLock, clockLock, lastGood, entry, budget, calm>>

\* DropRunTask: the stop is tried for a tenth of a second.
DropStop(j) ==
    /\ At(j, "drop_stop")
    /\ held' \in {held, [held EXCEPT !.motor.way = "still"]}
    /\ job' = [job EXCEPT ![j] = [Onward(@) EXCEPT !.stopped = TRUE]]
    /\ UNCHANGED <<asking, zoom, meant, slots, generalLock, clock, entry, budget, calm>>

\* A mutant: the new entry starts with nothing in its slots.
ReloadAfresh ==
    /\ entry < MaxReloads
    /\ entry' = entry + 1 /\ ptTask' = None /\ zoomTask' = None
    /\ UNCHANGED <<asking, camera, job, generalLock, clock, budget, calm>>

\* sync_with_config: another entry is made for the camera, with what the old one
\* kept: its tasks' slots, its lock and its clock.
Reload ==
    /\ entry < MaxReloads
    /\ entry' = entry + 1
    /\ UNCHANGED <<asking, camera, job, slots, generalLock, clock, budget, calm>>

Serve(j) ==
    \/ Refuse(j) \/ Reply(j) \/ NoReply(j) \/ NoAnswer(j) \/ Again(j)
    \/ Finish(j)

Next ==
    \/ \E j \in Jobs : \E w \in desk : Arrive(j, w)
    \/ \E j \in Workers : Serve(j)
    \/ \E j \in Jobs : AbortTask(j) \/ TakeGeneralLock(j) \/ Allocate(j) \/ FindHome(j) \/ DropStop(j)
    \/ \E j \in Jobs : LookAtClock(j) \/ KeepClock(j) \/ ForgetClock(j)
    \/ \E j \in Jobs, t \in Tasks : Spawn(j, t)
    \/ \E t \in Tasks : ZoomOn(t) \/ Gone(t) \/ LastPoll(t)
    \/ Expire \/ Reload

\* All that was asked for is over.
Served ==
    /\ \A j \in Jobs : job[j].st \in {"done", "fault"}
    /\ \A t \in Tasks : job[t].st \in {"idle", "done", "fault", "aborted"}
    /\ UNCHANGED vars

Spec == Init /\ [][Next \/ Served]_vars

-----------------------------------------------------------------------------
(* What holds of all this *)

\* SetSystemDateAndTime and SetOSD read a block that carries the clock, the name and
\* the date format, change one of them and write it all back: no two of them, however
\* they are interleaved, failed or begun again on another connection, revert what the
\* other set (general_lock, state.rs).  The clock that a new login sets is not
\* written under the lock, and is left out.
FieldsKept ==
    \A f \in DOMAIN meant :
        (\E j \in Jobs : meant[f] = j /\ job[j].wish.service = "login") \/ held.general[f] = meant[f]

\* Once a SetSystemDateAndTime has been answered, no sample of the clock from before
\* it is left to answer GetSystemDateAndTime with, one that was being taken at that
\* moment included; while one is under way, or after one that failed or a login, the
\* sample may be behind for as long as it is kept.
ClockIsFresh ==
    (\A j \in Jobs : job[j].wrote => job[j].st = "done" /\ job[j].wish.service # "login")
        => /\ sample \in {None, "failed", held.general.clock}
           /\ lastGood \in {None, held.general.clock}

\* The home position is only given away by a SetPreset that names no slot when all
\* the others are used (HOME_PRESET_ID, ptz.rs): saving the current view as a new
\* preset does not move the home position, whoever else is storing presets.
HomeIsKept ==
    [][held'.presets.home # held.presets.home =>
          \/ \E j \in Workers : Asking(j) /\ Now(j).name = "set_ptz_preset" /\ Now(j).field = "home"
          \/ held.presets.one # "empty" /\ held.presets.two # "empty"]_vars

\* ptz.rs:502 "Cancel first: otherwise the timed move keeps driving the motor and re-stops
\* it later, so the explicit Stop appears to have been ignored": after a Stop that was
\* answered with nothing else asked for since, the motor stands.
StopHolds == calm = "answered" => held.motor.way = "still"

\* What is true of it: after such a Stop nothing drives the motor but a move that a task,
\* aborted in the middle of a poll, was just sending; no task that runs, none that was
\* aborted where it waits, and no request made again on another connection
\* (abort_pt_task before stop_pt, ptz.rs).
StopCancels == calm = "answered" => held.motor.way \in {"still", "stray"}

\* A task that was not told to end is the one in its slot, where the next request
\* finds it: two of a kind never drive the camera together, and reading the
\* configuration again does not lose one (spawn_pt_task, spawn_zoom_task, ptz.rs;
\* sync_with_config, state.rs).
TasksAreHeld == \A t \in Tasks : Running(t) => t \in {ptTask, zoomTask}

\* A move that was asked for over MQTT is followed by a stop, whatever became of it
\* (the DropRunTask of control/ptz, mqtt/mod.rs).
MqttMoveStops ==
    \A j \in Jobs : job[j].wish.service = "mqtt" /\ job[j].st \in {"done", "fault"} /\ job[j].moved => job[j].stopped

\* "Run a timed pan/tilt move in the background: start the motor, wait, stop."
\* (spawn_pt_task, ptz.rs): a timed move that was not cancelled and has started the
\* motor has stopped it when it is over.
TimedMoveStops ==
    \A t \in Tasks : job[t].wish.action = "RelativeMove" /\ job[t].st = "done" /\ job[t].moved => job[t].stopped
=============================================================================
