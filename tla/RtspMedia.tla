------------------------------ MODULE RtspMedia ------------------------------
(***************************************************************************)
(* What happens to a client that DESCRIBEs a stream of the RTSP server:    *)
(* make_factory of src/rtsp/factory.rs.  The factory's callback waits for  *)
(* a task that subscribes to the camera, learns from its first frames      *)
(* which codecs it sends, or takes that from the profile an earlier client *)
(* learned, decides which audio tracks to offer by trying them, builds the *)
(* pipeline and hands it over; a thread then pumps frames into it until    *)
(* the client is found to have left.  The clients of a stream share its    *)
(* profile and nothing else.  GStreamer is external: it builds and drops.  *)
(***************************************************************************)
EXTENDS PausedStream

CONSTANTS
    Works,  \* the payloads that negotiate with each kind of audio the camera may send
    Formats \* audio_format, or what a client asks for with ?audio=

Payloads == {"generic", "latm"}

\* AAC frames with an MPEG-4 header, and frames without one that can be passed on.
Aac == {"aac", "raw"}

VARIABLES
    client,  \* what has become of each client
    buffer,  \* the frames its task learned from
    profile, \* the ProfileCache
    encoder  \* the audio that the camera sends, and all that it has sent (history)

media_vars == <<client, buffer, profile, encoder>>
vars == <<media_vars, feed_vars, clock_vars>>

NewClient ==
    [st |-> "out", here |-> FALSE, format |-> "pcm", video |-> FALSE, audio |-> "none",
     samples |-> {}, todo |-> {}, tracks |-> {}, media |-> "none", pump |-> "none"]

MediaInit ==
    /\ client = [c \in Clients |-> NewClient] /\ buffer = [c \in Clients |-> <<>>]
    /\ profile = [video |-> FALSE, audio |-> "none", samples |-> {}, fresh |-> FALSE, verdicts |-> <<>>]
    /\ encoder \in {[audio |-> a, past |-> {a}] : a \in DOMAIN Works}

KeepFeed == UNCHANGED <<feed_vars, clock_vars>>
At(c, st) == client[c].st = st

-----------------------------------------------------------------------------
(* The callback and its task                                               *)

\* decide_audio_tracks: the formats that have to be tried; L16 is always possible.
ToTry(audio, format) ==
    IF audio \in Aac THEN Payloads \cap (IF format = "all" THEN Payloads ELSE {format}) ELSE {}

\* Nothing is left of it: a client may come, or come again.
Outside(c) == At(c, "out") /\ feed[c] = "none"

\* create_element: the client's thread waits in the callback, and the task starts the
\* stream; with a profile that is not too old it has nothing to learn.
Describe(c, format) ==
    LET asked == [NewClient EXCEPT !.here = TRUE, !.format = format]
    IN /\ Outside(c)
       /\ client' = [client EXCEPT ![c] =
              IF profile.fresh
              THEN [asked EXCEPT !.st = "tracks", !.video = profile.video, !.audio = profile.audio,
                                 !.samples = profile.samples, !.todo = ToTry(profile.audio, format)]
              ELSE [asked EXCEPT !.st = "learning"]]
       /\ Subscribe(c)
       /\ UNCHANGED <<buffer, profile, encoder, clock_vars>>

\* An error in the task drops the callback's answer: the client gets the placeholder
\* instead.  The camera was removed from the configuration before it could subscribe, or
\* an element of GStreamer is missing.
Failing(c) == client' = [client EXCEPT ![c] = NewClient] /\ UNCHANGED <<profile, encoder, clock_vars>>

TaskRefused(c) == Outside(c) /\ Failing(c) /\ UNCHANGED <<buffer, feed_vars>>

TaskFails(c) ==
    /\ At(c, "learning") \/ (At(c, "tracks") /\ client[c].todo = {})
    /\ Failing(c) /\ buffer' = [buffer EXCEPT ![c] = <<>>] /\ GiveUp(c)

\* update_from_media, until both are known.
Learn(c) ==
    /\ At(c, "learning") /\ queue[c] # <<>> /\ (~client[c].video \/ client[c].audio = "none")
    /\ LET frame == Head(queue[c])
       IN /\ buffer' = [buffer EXCEPT ![c] = Append(@, frame)]
          /\ client' = IF frame.kind \in Pictures THEN [client EXCEPT ![c].video = TRUE]
                       ELSE [client EXCEPT ![c].audio = frame.kind, ![c].samples = @ \union {frame.kind}]
    /\ queue' = [queue EXCEPT ![c] = Tail(@)]
    /\ UNCHANGED <<feed, permits, seen, motion, alerted, on_motion, ticks, events, profile, encoder, clock_vars>>

\* Both are known, or ten seconds or twelve frames are over.  A profile without video
\* is not stored; the verdicts that were recorded in an older one are kept.
Learned(c) ==
    /\ At(c, "learning")
    /\ client' = [client EXCEPT ![c].st = "tracks", ![c].todo = ToTry(client[c].audio, client[c].format)]
    /\ profile' = IF client[c].video
                  THEN [profile EXCEPT !.video = TRUE, !.audio = client[c].audio,
                                       !.samples = client[c].samples, !.fresh = TRUE]
                  ELSE profile
    /\ KeepFeed /\ UNCHANGED <<buffer, encoder>>

\* A mutant: the verdict on any format is taken for this one's.
VerdictOfAny(payload) == IF profile.fresh THEN {profile.verdicts[q] : q \in DOMAIN profile.verdicts} ELSE {}

\* cached_verdict
Verdict(payload) ==
    IF profile.fresh /\ payload \in DOMAIN profile.verdicts THEN {profile.verdicts[payload]} ELSE {}

\* passthrough_negotiates: a pipeline of its own, and the frames that were learned from.
Negotiates(payload, audio) == payload \in Works[audio]

\* ProfileCache::record_passthrough
record_passthrough(verdicts, payload, verdict) ==
    [p \in DOMAIN verdicts \union {payload} |-> IF p = payload THEN verdict ELSE verdicts[p]]

\* can_pass_through, for one format after another: what another client found, or else a
\* trial, unless the frames have no header.  Frames of two kinds may pass for either.
Decide(c, payload) ==
    /\ At(c, "tracks") /\ payload \in client[c].todo
    /\ "generic" \in client[c].todo => payload = "generic"
    /\ \E sample \in client[c].samples :
       LET known == Verdict(payload)
           blocked == client[c].audio # "aac"
           verdict == IF known # {} THEN TRUE \in known ELSE ~blocked /\ Negotiates(payload, sample)
       IN /\ client' = [client EXCEPT ![c].todo = @ \ {payload},
                                      ![c].tracks = IF verdict THEN @ \union {payload} ELSE @]
          /\ profile' = IF known = {} /\ ~blocked /\ profile.video
                        THEN [profile EXCEPT !.verdicts = record_passthrough(@, payload, verdict)]
                        ELSE profile
    /\ KeepFeed /\ UNCHANGED <<buffer, encoder>>

\* The sources of its pipeline; without pictures the splash is shown instead.
VideoSource(c) == IF client[c].video THEN {"video"} ELSE {}
AudioSource(c) == IF client[c].audio = "none" THEN {} ELSE {"audio"}
Sources(c) == VideoSource(c) \union AudioSource(c)

\* The pipeline is built and handed over, and the pump starts with a clock and a limiter
\* of its own: for a client that has left in the meantime too.  The frames that were
\* learned from are the first it goes through.
HandOver(c) ==
    /\ At(c, "tracks") /\ client[c].todo = {}
    /\ client' = [client EXCEPT ![c].st = "over", ![c].media = "up", ![c].pump = "run"]
    /\ KeepFeed /\ UNCHANGED <<buffer, profile, encoder>>

TaskNext(c) == Learn(c) \/ Learned(c) \/ HandOver(c) \/ \E payload \in Payloads : Decide(c, payload)

-----------------------------------------------------------------------------
(* The pump                                                                *)

PumpEnds(c) ==
    /\ client' = [client EXCEPT ![c] = [NewClient EXCEPT !.st = "over", !.pump = "ended"]]
    /\ buffer' = [buffer EXCEPT ![c] = <<>>] /\ ClockDropped(c)
    /\ UNCHANGED <<profile, encoder>>

\* send_to_sources: a frame with a source is pushed into a pipeline that is still there;
\* AAC without a header has no length, and ends the pump.  What the limiter withholds is
\* not pushed.
Shown(c, frame) ==
    IF frame.kind \in Pictures
    THEN Admits(limiter[c], next_video_us(tracker[c], frame.us).video, frame.kind = "I")
    ELSE TRUE
Source(frame) == IF frame.kind \in Pictures THEN "video" ELSE "audio"
Sent(c, frame) ==
    frame.kind # "raw" /\ (Shown(c, frame) /\ Source(frame) \in Sources(c) => client[c].media = "up")

Clocked(c, frame) ==
    IF frame.kind \in Pictures THEN VideoFrame(c, frame.us, frame.kind = "I")
    ELSE \E duration \in {0, 2} : AudioFrame(c, duration)

\* The frames that were learned from come first.
PumpFrame(c) ==
    /\ client[c].pump = "run"
    /\ LET waiting == buffer[c] \o queue[c]
       IN /\ waiting # <<>>
          /\ IF ~Sent(c, Head(waiting)) THEN PumpEnds(c) /\ UNCHANGED feed_vars
             ELSE /\ Clocked(c, Head(waiting)) /\ UNCHANGED <<client, profile, encoder>>
                  /\ IF buffer[c] # <<>>
                     THEN buffer' = [buffer EXCEPT ![c] = Tail(@)] /\ UNCHANGED feed_vars
                     ELSE /\ queue' = [queue EXCEPT ![c] = Tail(@)]
                          /\ UNCHANGED <<buffer, feed, permits, seen, motion, alerted, on_motion, ticks, events>>

\* No frame will come any more.
PumpCloses(c) ==
    /\ client[c].pump = "run" /\ buffer[c] \o queue[c] = <<>> /\ feed[c] = "ended"
    /\ PumpEnds(c) /\ UNCHANGED feed_vars

\* A mutant: nothing is looked at while no frame comes.
PumpLooksNever(c) == FALSE /\ client[c].pump = "run" /\ UNCHANGED vars

\* Two seconds without a frame: a source that is no longer in a pipeline ends the pump.
PumpLooks(c) ==
    /\ client[c].pump = "run" /\ buffer[c] \o queue[c] = <<>>
    /\ Sources(c) # {} /\ client[c].media = "down"
    /\ PumpEnds(c) /\ UNCHANGED feed_vars

PumpDone(c) == client[c].pump = "ended"

\* The receiver is dropped with the pump, and the stream finds that out.
StreamGivenUp(c) ==
    /\ PumpDone(c) /\ GiveUp(c)
    /\ client' = [client EXCEPT ![c] = NewClient] /\ UNCHANGED <<buffer, profile, encoder, clock_vars>>

PumpNext(c) == PumpFrame(c) \/ PumpCloses(c) \/ PumpLooks(c) \/ StreamGivenUp(c)

-----------------------------------------------------------------------------
(* The clients and the camera                                              *)

Leaves(c) ==
    /\ client[c].here /\ Happens
    /\ client' = [client EXCEPT ![c].here = FALSE]
    /\ UNCHANGED <<stream_vars, buffer, profile, encoder, clock_vars>>

\* The media of a client that left goes with it, at once or when its session is over.
TearDown(c) ==
    /\ client[c].media = "up" /\ ~client[c].here
    /\ client' = [client EXCEPT ![c].media = "down"]
    /\ KeepFeed /\ UNCHANGED <<buffer, profile, encoder>>

\* PROFILE_TTL
ProfileAges ==
    /\ profile.fresh /\ Happens
    /\ profile' = [profile EXCEPT !.fresh = FALSE]
    /\ UNCHANGED <<stream_vars, client, buffer, encoder, clock_vars>>

\* The owner sets the encoder, or its firmware does.
EncoderChanges ==
    /\ Happens
    /\ \E audio \in DOMAIN Works \ {encoder.audio} :
          encoder' = [audio |-> audio, past |-> encoder.past \union {audio}]
    /\ UNCHANGED <<stream_vars, client, buffer, profile, clock_vars>>

Init == ClockInit /\ FeedInit /\ MediaInit

ClientNext(c) ==
    \/ \E format \in Formats : Describe(c, format)
    \/ TaskNext(c) \/ TaskRefused(c) \/ TaskFails(c) \/ PumpNext(c) \/ Leaves(c) \/ TearDown(c)
    \/ FeedNext(c, Pictures \union ({encoder.audio} \ {"none"})) /\ UNCHANGED <<media_vars, clock_vars>>

Next ==
    \/ \E c \in Clients : ClientNext(c)
    \/ ProfileAges \/ EncoderChanges
    \/ (Motion \/ Push) /\ UNCHANGED <<media_vars, clock_vars>>

\* The tasks, the threads and the timers run on; clients and frames need not come.
Runs(c) ==
    \/ TaskNext(c) \/ PumpNext(c) \/ TearDown(c)
    \/ FeedRuns(c) /\ UNCHANGED <<media_vars, clock_vars>>

Spec == Init /\ [][Next]_vars /\ \A c \in Clients : WF_vars(Runs(c))

-----------------------------------------------------------------------------
\* A track that a client is handed negotiated with audio that this camera has sent,
\* whoever tried it, for which client and which request, and however often the profile
\* was learned anew: while the encoder stays what it was, no DESCRIBE takes the video
\* down with the audio (can_pass_through, factory.rs).
TracksWereTried ==
    \A c \in Clients : \A payload \in client[c].tracks :
        \E audio \in encoder.past : Negotiates(payload, audio)

\* ... and with the audio that the client was told of, also after a change of the
\* encoder: a profile lives "short enough that changing the camera's encoder settings
\* takes effect without restarting neolink" (PROFILE_TTL, factory.rs).
TracksNegotiate ==
    \A c \in Clients : \A payload \in client[c].tracks : Negotiates(payload, client[c].audio)

\* A client that has left leaves nothing behind: its pump ends and the camera's stream
\* is given up, also while the camera sends nothing (make_factory's two seconds), if it
\* had been given a source; a stream that pauses, with motion, waits for a frame.
LeavesNothing ==
    \A c \in Clients :
        client[c].pump = "run" /\ ~client[c].here /\ Sources(c) # {}
            ~> feed[c] \in {"ended", "none"} \/ (on_motion /\ feed[c] = "live")

\* "wake periodically so we notice the client disconnecting even when the camera has
\* stopped sending frames ... Without this bound the thread parks on recv() forever
\* after the client leaves" (make_factory, factory.rs).
LeftIsNoticed == \A c \in Clients : client[c].pump = "run" /\ ~client[c].here ~> PumpDone(c)
=============================================================================
