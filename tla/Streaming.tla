----------------------------- MODULE Streaming -----------------------------
(***************************************************************************)
(* The two commands that feed a Fanout from a camera: `pipe`               *)
(* (src/pipe/mod.rs: run_source, stream_once), which keeps the camera      *)
(* connected while somebody reads and serves any number of readers, and    *)
(* `stream` (src/stream/mod.rs: main), which serves one and then ends.     *)
(*                                                                         *)
(* The camera is external: it sends frames, or stops.                      *)
(***************************************************************************)
EXTENDS Fanout

VARIABLES
    command,   \* "pipe" or "stream"
    source,    \* where the producer's task stands
    replay,    \* frames of the learned backlog still to be pushed
    writing    \* readers whose writer is in write_all or flush

vars == <<fanout_vars, command, source, replay, writing>>

Init ==
    /\ FanoutInit
    /\ command \in {"pipe", "stream"}
    /\ source = IF command = "pipe" THEN "idle" ELSE "connect"
    /\ replay = 0 /\ writing = {}

Keep == UNCHANGED <<command, replay, writing>>

-----------------------------------------------------------------------------
(* run_source and stream_once.                                             *)

WaitForConsumer ==
    /\ command = "pipe" /\ source = "idle"
    /\ \/ (WaitRegister \/ WaitPoll) /\ UNCHANGED source
       \/ WaitCount /\ source' = IF consumers # {} THEN "connect" ELSE source
    /\ Keep

\* The session is set up and learn has seen a keyframe: n frames are kept, from
\* the newest keyframe on.  For stream the output is opened only now, attached
\* before the backlog is pushed.
Learn(n) ==
    /\ source = "connect"
    /\ source' = "replay" /\ replay' = n
    /\ IF command = "stream" THEN \E r \in Readers : Attach(r) ELSE UNCHANGED fanout_vars
    /\ UNCHANGED <<command, writing>>

\* Faulty: a session opens with whatever frame the camera is at.
ReplayFirstAny(n) ==
    /\ source = "replay" /\ replay = n
    /\ Room /\ Push([FirstFrame EXCEPT !.resync = FALSE])
    /\ source' = "replaying" /\ replay' = n - 1
    /\ UNCHANGED <<command, writing>>

ReplayFirst(n) ==
    /\ source = "replay" /\ replay = n
    /\ Room /\ Push(FirstFrame)
    /\ source' = "replaying" /\ replay' = n - 1
    /\ UNCHANGED <<command, writing>>

ReplayNext ==
    /\ source = "replaying" /\ replay > 0
    /\ Room /\ Push(NextFrame(FALSE))
    /\ replay' = replay - 1
    /\ UNCHANGED <<command, source, writing>>

ReplayDone ==
    /\ source = "replaying" /\ replay = 0
    /\ source' = "live"
    /\ UNCHANGED fanout_vars /\ Keep

Frame(resync) ==
    /\ source = "live"
    /\ Room /\ Push(NextFrame(resync))
    /\ source' = IF command = "pipe" THEN "count" ELSE "live"
    /\ Keep

\* Between the push and this count a reader may have come or gone.
CountReaders ==
    /\ source = "count"
    /\ source' = IF consumers = {} THEN "idle" ELSE "live"
    /\ UNCHANGED fanout_vars /\ Keep

\* The camera stops, before or after it sent a usable frame: the session is
\* retried after RETRY_DELAY, or the stream command closes and ends.
CameraStops ==
    /\ source \in {"connect", "live"}
    /\ IF command = "pipe" THEN source' = "retry" /\ UNCHANGED fanout_vars
       ELSE IF source = "live" THEN source' = "ended" /\ Close
       ELSE source' = "ended" /\ UNCHANGED fanout_vars
    /\ Keep

RetryDelay ==
    /\ source = "retry" /\ source' = "idle"
    /\ UNCHANGED fanout_vars /\ Keep

\* stream: its writer ended, so the command does.
WriterDone ==
    /\ command = "stream" /\ source = "live" /\ consumers = {}
    /\ source' = "ended" /\ Close
    /\ Keep

-----------------------------------------------------------------------------
(* Readers.                                                                *)

\* A reader opens the FIFO or connects to the socket.
ReaderOpens(r) ==
    /\ command = "pipe" /\ Attach(r)
    /\ UNCHANGED source /\ Keep


\* write_consumer: it waits for a chunk, and writes it.
ReaderStep(r) ==
    /\ r \notin writing
    /\ \/ NextChunk(r) /\ writing' = writing \union {r}
       \/ (NextNone(r) \/ Wake(r)) /\ UNCHANGED writing
    /\ UNCHANGED <<command, source, replay>>

\* The reader has taken the chunk; one that stalls never does.
Written(r) ==
    /\ r \in writing
    /\ writing' = writing \ {r}
    /\ UNCHANGED <<fanout_vars, command, source, replay>>

\* The writer learns that its reader has gone only by writing to it, and ends when
\* the fanout is closed and drained.
ReaderDone(r) ==
    /\ r \in writing \/ reading[r] = "ended"
    /\ Detach(r)
    /\ writing' = writing \ {r}
    /\ UNCHANGED <<command, source, replay>>

Finished == source = "ended" /\ UNCHANGED vars

\* Bound: the frames of the learned backlog.
MaxReplay == 2

Next ==
    \/ WaitForConsumer
    \/ \E n \in 1 .. MaxReplay : Learn(n) \/ ReplayFirst(n)
    \/ ReplayNext \/ ReplayDone
    \/ \E resync \in BOOLEAN : Frame(resync)
    \/ CountReaders \/ CameraStops \/ RetryDelay \/ WriterDone
    \/ \E r \in Readers : ReaderOpens(r) \/ ReaderStep(r) \/ Written(r) \/ ReaderDone(r)
    \/ Finished

Spec == Init /\ [][Next]_vars

\* Every task that can run is polled; a session goes on or ends by itself, but
\* readers come, go and stall as they like: nothing makes a write end.
FairSpec ==
    /\ Spec
    /\ WF_vars(WaitForConsumer) /\ WF_vars(RetryDelay) /\ WF_vars(CountReaders)
    /\ \A r \in Readers : WF_vars(ReaderStep(r))

-----------------------------------------------------------------------------
TypeOK ==
    /\ FanoutTypeOK
    /\ command \in {"pipe", "stream"}
    /\ source \in {"idle", "connect", "replay", "replaying", "live", "count", "retry", "ended"}
    /\ replay \in 0 .. MaxReplay
    /\ writing \subseteq consumers

\* The producer keeps the fanout's contract: every session opens with a resync
\* point and readers come and go under it in any order.
ProducerContract == FanoutSpec

\* A reader that turns up while the camera is released gets it connected, even
\* when it turns up just as the producer goes to sleep (pipe/mod.rs:150-158).
ReaderGetsCamera ==
    source = "idle" /\ consumers # {} ~> source # "idle" \/ consumers = {}


-----------------------------------------------------------------------------
(* What the documentation says and the code does not do.                   *)

\* "Where possible that is the GOP already in progress" (fanout.rs:175): what a
\* reader is handed as it attaches is of the session that is running.
AttachSeesNow ==
    [][\A r \in Readers :
          r \in consumers' \ consumers /\ queue'[r].chunks # <<>>
              => source \in {"replaying", "live", "count"}]_vars

\* "each consumer gets a bounded queue measured in stream time" (fanout.rs:11):
\* past the seeded burst, as many frames as Limit holds, in every session.
StallIsBounded == \A r \in consumers : Bounded(queue[r])
=============================================================================
