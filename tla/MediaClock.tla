----------------------------- MODULE MediaClock -----------------------------
(***************************************************************************)
(* When a client of the RTSP server is shown each frame, and which video   *)
(* frames it is shown at all: src/common/timestamps.rs (TimestampTracker)  *)
(* and GopLimiter of src/rtsp/factory.rs, one of each for every client.    *)
(* A step is one frame that goes through send_to_sources.  The camera's    *)
(* clock, and the length of an audio frame, may be anything.               *)
(***************************************************************************)
EXTENDS Naturals

CONSTANTS
    Clients,
    Wrap,               \* 2^32: the camera's clock counts modulo this
    Backward,           \* BACKWARD_THRESHOLD
    MaxForwardJump,     \* MAX_FORWARD_JUMP_US
    RestartAdvance,     \* RESTART_ADVANCE_US
    RestartDetectCount, \* RESTART_DETECT_COUNT
    Ceiling,            \* 2^64 - 1, where saturating_add stays
    BurstCap,           \* BURST_CAP_US
    Intervals           \* what a forwarded frame may cost; 0 is no limit at all

ASSUME MediaClockAssumption ==
    /\ Wrap \in Nat \ {0} /\ Backward \in 1..Wrap
    /\ MaxForwardJump \in Nat /\ RestartAdvance \in Nat \ {0} /\ RestartDetectCount \in Nat
    /\ Ceiling \in Nat /\ BurstCap \in Nat /\ Intervals \subseteq Nat

VARIABLES
    tracker,  \* the TimestampTracker of each client
    limiter,  \* its GopLimiter
    given     \* how many frames went through, and how many of them were P-frames that were forwarded

clock_vars == <<tracker, limiter, given>>

CameraTimes == 0..(Wrap - 1)

NewTracker == [started |-> FALSE, camera |-> 0, video |-> 0, audio |-> 0, anchored |-> FALSE, backward |-> 0]
NewLimiter(interval) == [interval |-> interval, seen |-> FALSE, last |-> 0, credit |-> 0, intact |-> FALSE]
NewGiven == [video |-> 0, audio |-> 0, deltas |-> 0]

ClockInit ==
    /\ tracker = [c \in Clients |-> NewTracker]
    /\ \E i \in Intervals : limiter = [c \in Clients |-> NewLimiter(i)]
    /\ given = [c \in Clients |-> NewGiven]

\* saturating_add, saturating_sub
Plus(a, b) == IF a + b > Ceiling THEN Ceiling ELSE a + b
Minus(a, b) == IF a > b THEN a - b ELSE 0
AtMost(a, b) == IF a > b THEN b ELSE a

\* How far the camera's clock went since the last good frame, modulo Wrap.
Forward(t, us) == IF us >= t.camera THEN us - t.camera ELSE us + Wrap - t.camera

\* The camera's clock stands a while before that of the last good frame.
Back(t, us) == Forward(t, us) >= Backward

\* A frame that repeats the last one's time, or is late: its own time is not kept.
Stray(t, us) == Forward(t, us) = 0 \/ (Back(t, us) /\ t.backward + 1 < RestartDetectCount)

\* A mutant: a frame that repeats the clock is given the same time.
GainOrTie(t, us) ==
    IF Forward(t, us) = 0 THEN 0
    ELSE IF Stray(t, us) THEN 1
    ELSE IF Back(t, us) \/ Forward(t, us) > MaxForwardJump THEN RestartAdvance ELSE Forward(t, us)

\* How far the client's clock goes: as far as the camera's while that goes forward by a
\* little, and by a microsecond for a stray frame; a clock that stays back, or leaps, is
\* a new one, and a fixed while is taken to have passed.
Gain(t, us) ==
    IF Stray(t, us) THEN 1
    ELSE IF Back(t, us) \/ Forward(t, us) > MaxForwardJump THEN RestartAdvance ELSE Forward(t, us)

next_video_us(t, us) ==
    IF ~t.started THEN [t EXCEPT !.started = TRUE, !.camera = us]
    ELSE [t EXCEPT !.video = Plus(@, Gain(t, us)),
                   !.camera = IF Stray(t, us) THEN @ ELSE us,
                   !.backward = IF Forward(t, us) = 0 THEN @ ELSE IF Stray(t, us) THEN @ + 1 ELSE 0]

\* The first audio frame starts where the video is; from then on it is its own clock.
next_audio_us(t, duration) ==
    LET from == IF t.anchored THEN t.audio ELSE t.video
    IN [t EXCEPT !.anchored = TRUE, !.audio = Plus(from, IF duration > 1 THEN duration ELSE 1)]

\* The allowance for the time that passed: what a long silence saves is bounded.
Banked(l, pts) ==
    [l EXCEPT !.credit = IF l.seen THEN AtMost(@ + Minus(pts, l.last), BurstCap) ELSE @,
              !.seen = TRUE, !.last = pts]

\* A mutant: a P-frame is forwarded on any allowance that is left.
SpentUnchecked(l, pts, key) ==
    LET b == Banked(l, pts)
    IN IF key THEN [b EXCEPT !.intact = TRUE, !.credit = Minus(@, l.interval)]
       ELSE IF l.intact /\ b.credit > 0 THEN [b EXCEPT !.credit = Minus(@, l.interval)]
       ELSE [b EXCEPT !.intact = FALSE]

\* A keyframe always passes and mends the chain; a P-frame passes while nothing of its
\* group was withheld and there is allowance for it.
Spent(l, pts, key) ==
    LET b == Banked(l, pts)
    IN IF key THEN [b EXCEPT !.intact = TRUE, !.credit = Minus(@, l.interval)]
       ELSE IF l.intact /\ b.credit >= l.interval THEN [b EXCEPT !.credit = @ - l.interval]
       ELSE [b EXCEPT !.intact = FALSE]

Limited(l) == l.interval # 0

\* GopLimiter::admit
admit(l, pts, key) == IF Limited(l) THEN Spent(l, pts, key) ELSE l
Admits(l, pts, key) == key \/ ~Limited(l) \/ Spent(l, pts, key).intact

\* send_to_sources: the tracker and the limiter see every video frame, those that are
\* withheld included.
VideoFrame(c, us, key) ==
    LET t == next_video_us(tracker[c], us)
        sent == Admits(limiter[c], t.video, key)
    IN /\ tracker' = [tracker EXCEPT ![c] = t]
       /\ limiter' = [limiter EXCEPT ![c] = admit(@, t.video, key)]
       /\ given' = [given EXCEPT ![c].video = @ + 1, ![c].deltas = IF sent /\ ~key THEN @ + 1 ELSE @]

AudioFrame(c, duration) ==
    /\ tracker' = [tracker EXCEPT ![c] = next_audio_us(@, duration)]
    /\ given' = [given EXCEPT ![c].audio = @ + 1]
    /\ UNCHANGED limiter

\* The client's pump ends, and its clock and limiter with it.
ClockDropped(c) ==
    /\ tracker' = [tracker EXCEPT ![c] = NewTracker]
    /\ limiter' = [limiter EXCEPT ![c] = NewLimiter(@.interval)]
    /\ given' = [given EXCEPT ![c] = NewGiven]

ClockNext ==
    \E c \in Clients :
        \/ ClockDropped(c)
        \/ \E us \in CameraTimes, key \in BOOLEAN : VideoFrame(c, us, key)
        \/ \E duration \in Nat : AudioFrame(c, duration)

ClockSpec == ClockInit /\ [][ClockNext]_clock_vars

-----------------------------------------------------------------------------
\* Whatever the camera's clock does, no two video frames of a client are given the same
\* time and none an earlier one, until the clock is at its end (TimestampTracker); nor
\* are two audio frames.
TimeGrows ==
    [][\A c \in Clients :
          /\ given'[c].video > given[c].video /\ given[c].video > 0
                => tracker'[c].video > tracker[c].video \/ tracker'[c].video = Ceiling
          /\ given'[c].audio > given[c].audio /\ given[c].audio > 0
                => tracker'[c].audio > tracker[c].audio \/ tracker'[c].audio = Ceiling]_clock_vars

\* The P-frames that a client with a limit was ever given are paid for by the time
\* that has passed on its own clock: no stall, leap of the camera's clock or group of
\* pictures lets it have more (max_fps, BURST_CAP_US; GopLimiter, factory.rs).
RateKept ==
    \A c \in Clients :
        limiter[c].interval * given[c].deltas + limiter[c].credit <= tracker[c].video
=============================================================================
