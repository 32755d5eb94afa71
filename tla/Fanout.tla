------------------------------- MODULE Fanout -------------------------------
(***************************************************************************)
(* One camera's muxed output shared out to its readers:                    *)
(* src/stream/fanout.rs.                                                   *)
(*                                                                         *)
(* A chunk is its place in the order of pushes, its presentation time and  *)
(* whether a decoder can start at it.  Every operation of the code runs    *)
(* under the state lock (and the reader's own), so each is one action.     *)
(***************************************************************************)
EXTENDS Integers, Sequences, FiniteSets

CONSTANTS
    Readers,
    Limit,      \* stream time a reader may have queued: limit_us, or for None more
                \* than the stream lasts
    GopLimit,   \* chunks the cached GOP may hold: GOP_CACHE_LIMIT, in chunks
    MaxChunks   \* bound: chunks pushed in all

ASSUME FanoutAssumption ==
    Limit \in Nat /\ GopLimit \in Nat /\ MaxChunks \in Nat

VARIABLES
    consumers,  \* readers whose Consumer is alive
    queue,      \* each reader's Queue
    gop,        \* the GOP in progress
    waiter,     \* where wait_for_consumer stands
    notified,   \* its Notified future on `attached` has completed
    reading,    \* where each reader stands in Consumer::next
    wake,       \* each reader's `wake` holds a permit
    last,       \* the last chunk each reader was given
    newest      \* the last chunk pushed

fanout_vars == <<consumers, queue, gop, waiter, notified, reading, wake, last, newest>>

Chunks == [seq : Nat, pts : Nat, resync : BOOLEAN]
NoChunk == [seq |-> 0, pts |-> 0, resync |-> FALSE]

EmptyQueue == [chunks |-> <<>>, awaiting_resync |-> TRUE, seeded |-> 0,
               closed |-> FALSE, overruns |-> 0]

-----------------------------------------------------------------------------
\* Faulty: the newest chunk slips in between reading the cache and joining.
SeededBehind ==
    LET seed == IF gop.whole THEN SubSeq(gop.chunks, 1, Len(gop.chunks) - 1) ELSE <<>>
    IN  [chunks |-> seed, awaiting_resync |-> seed = <<>>, seeded |-> Len(seed),
         closed |-> FALSE, overruns |-> 0]

\* The queue attach() gives a new reader: the GOP in progress, if it is whole.
Seeded ==
    LET seed == IF gop.whole THEN gop.chunks ELSE <<>>
    IN  [chunks |-> seed, awaiting_resync |-> seed = <<>>, seeded |-> Len(seed),
         closed |-> FALSE, overruns |-> 0]

\* Faulty: only a producer already asleep hears of the reader.
AttachLateNotify(r) ==
    /\ r \notin consumers
    /\ consumers' = consumers \union {r}
    /\ queue' = [queue EXCEPT ![r] = Seeded]
    /\ notified' = (waiter = "await")
    /\ reading' = [reading EXCEPT ![r] = "look"]
    /\ wake' = [wake EXCEPT ![r] = FALSE]
    /\ last' = [last EXCEPT ![r] = NoChunk]
    /\ UNCHANGED <<gop, waiter, newest>>

Attach(r) ==
    /\ r \notin consumers
    /\ consumers' = consumers \union {r}
    /\ queue' = [queue EXCEPT ![r] = Seeded]
    /\ notified' = (waiter # "idle")
    /\ reading' = [reading EXCEPT ![r] = "look"]
    /\ wake' = [wake EXCEPT ![r] = FALSE]
    /\ last' = [last EXCEPT ![r] = NoChunk]
    /\ UNCHANGED <<gop, waiter, newest>>

\* The reader goes away; its Consumer is dropped.
Detach(r) ==
    /\ r \in consumers
    /\ consumers' = consumers \ {r}
    /\ reading' = [reading EXCEPT ![r] = "gone"]
    /\ queue' = [queue EXCEPT ![r] = EmptyQueue]
    /\ UNCHANGED <<gop, waiter, notified, wake, last, newest>>

\* Faulty: counts the seeded burst below zero.
NextChunkUnderflow(r) ==
    /\ reading[r] = "look" /\ queue[r].chunks # <<>>
    /\ last' = [last EXCEPT ![r] = Head(queue[r].chunks)]
    /\ queue' = [queue EXCEPT ![r].chunks = Tail(@), ![r].seeded = @ - 1]
    /\ UNCHANGED <<consumers, gop, waiter, notified, reading, wake, newest>>

\* Consumer::next finds a chunk.
NextChunk(r) ==
    /\ reading[r] = "look" /\ queue[r].chunks # <<>>
    /\ last' = [last EXCEPT ![r] = Head(queue[r].chunks)]
    /\ queue' = [queue EXCEPT ![r].chunks = Tail(@),
                              ![r].seeded = IF @ > 0 THEN @ - 1 ELSE 0]
    /\ UNCHANGED <<consumers, gop, waiter, notified, reading, wake, newest>>

\* Consumer::next finds nothing, and waits or returns None.
NextNone(r) ==
    /\ reading[r] = "look" /\ queue[r].chunks = <<>>
    /\ reading' = [reading EXCEPT ![r] = IF queue[r].closed THEN "ended" ELSE "wait"]
    /\ UNCHANGED <<consumers, queue, gop, waiter, notified, wake, last, newest>>

\* The Notified future completes, taking the permit.
Wake(r) ==
    /\ reading[r] = "wait" /\ wake[r]
    /\ reading' = [reading EXCEPT ![r] = "look"]
    /\ wake' = [wake EXCEPT ![r] = FALSE]
    /\ UNCHANGED <<consumers, queue, gop, waiter, notified, last, newest>>

\* Faulty: trims the oldest chunk instead of giving the GOP up.
CacheGopTrimmed(c) ==
    LET chunks == Append(IF c.resync THEN <<>> ELSE gop.chunks, c)
    IN  IF ~(c.resync \/ gop.whole) THEN gop
        ELSE [chunks |-> IF Len(chunks) > GopLimit THEN Tail(chunks) ELSE chunks,
              whole |-> TRUE]

\* The cached GOP after a chunk.
CacheGop(c) ==
    LET chunks == Append(IF c.resync THEN <<>> ELSE gop.chunks, c)
    IN  IF ~(c.resync \/ gop.whole) THEN gop
        ELSE IF Len(chunks) > GopLimit THEN [chunks |-> <<>>, whole |-> FALSE]
        ELSE [chunks |-> chunks, whole |-> TRUE]

\* Faulty: measures from the newest chunk queued.
BehindNewest(q, c) ==
    IF Len(q.chunks) > q.seeded /\ c.pts > q.chunks[Len(q.chunks)].pts
    THEN c.pts - q.chunks[Len(q.chunks)].pts
    ELSE 0

\* How far behind the reader of queue q is when c is pushed: the seeded burst
\* does not count.
Behind(q, c) ==
    IF Len(q.chunks) > q.seeded /\ c.pts > q.chunks[q.seeded + 1].pts
    THEN c.pts - q.chunks[q.seeded + 1].pts
    ELSE 0

Overrun(q, c) == Behind(q, c) > Limit

\* Faulty: resumes in the middle of a GOP.
DroppedNoResync(q, c) ==
    [q EXCEPT !.chunks = <<c>>, !.seeded = 0, !.overruns = @ + 1]

\* Faulty: the loss is not counted.
DroppedUncounted(q, c) ==
    [q EXCEPT !.chunks = IF c.resync THEN <<c>> ELSE <<>>, !.seeded = 0,
              !.awaiting_resync = ~c.resync]

Dropped(q, c) ==
    [q EXCEPT !.chunks = IF c.resync THEN <<c>> ELSE <<>>, !.seeded = 0,
              !.overruns = @ + 1, !.awaiting_resync = ~c.resync]

\* One reader's queue after push(c), and whether the reader is woken.
Skips(q, c) == q.awaiting_resync /\ ~c.resync
QueueAfter(q, c) ==
    IF Skips(q, c) THEN q
    ELSE IF Overrun(q, c) THEN Dropped(q, c)
    ELSE [q EXCEPT !.chunks = Append(@, c), !.awaiting_resync = FALSE]
Wakes(q, c) == ~Skips(q, c) /\ (Overrun(q, c) => c.resync)

Push(c) ==
    /\ gop' = CacheGop(c)
    /\ queue' = [r \in Readers |-> IF r \in consumers THEN QueueAfter(queue[r], c)
                                                      ELSE queue[r]]
    /\ wake' = [r \in Readers |-> wake[r] \/ (r \in consumers /\ Wakes(queue[r], c))]
    /\ newest' = c
    /\ UNCHANGED <<consumers, waiter, notified, reading, last>>

\* wait_for_consumer makes the future first, then counts the readers, then
\* waits.
WaitRegister ==
    /\ waiter = "idle" \/ (waiter = "await" /\ notified)
    /\ waiter' = "count" /\ notified' = FALSE
    /\ UNCHANGED <<consumers, queue, gop, reading, wake, last, newest>>

WaitCount ==
    /\ waiter = "count"
    /\ waiter' = IF consumers # {} THEN "idle" ELSE "none"
    /\ UNCHANGED <<consumers, queue, gop, notified, reading, wake, last, newest>>

WaitPoll ==
    /\ waiter = "none"
    /\ waiter' = "await"
    /\ UNCHANGED <<consumers, queue, gop, notified, reading, wake, last, newest>>

\* Faulty: closes without waking.
CloseQuietly ==
    /\ queue' = [r \in Readers |-> IF r \in consumers THEN [queue[r] EXCEPT !.closed = TRUE]
                                                      ELSE queue[r]]
    /\ UNCHANGED <<consumers, gop, waiter, notified, reading, wake, last, newest>>

Close ==
    /\ queue' = [r \in Readers |-> IF r \in consumers THEN [queue[r] EXCEPT !.closed = TRUE]
                                                      ELSE queue[r]]
    /\ wake' = [r \in Readers |-> wake[r] \/ r \in consumers]
    /\ UNCHANGED <<consumers, gop, waiter, notified, reading, last, newest>>

-----------------------------------------------------------------------------
(* Any producer: each session opens with a resync point (learn keeps the   *)
(* frames from the newest keyframe on) and restarts its clock (Packer::new *)
(* makes a new TimestampTracker).                                          *)

FanoutInit ==
    /\ consumers = {}
    /\ queue = [r \in Readers |-> EmptyQueue]
    /\ gop = [chunks |-> <<>>, whole |-> FALSE]
    /\ waiter = "idle" /\ notified = FALSE
    /\ reading = [r \in Readers |-> "gone"]
    /\ wake = [r \in Readers |-> FALSE]
    /\ last = [r \in Readers |-> NoChunk]
    /\ newest = NoChunk

\* The chunk of the next frame, and of the first frame of a new session.
NextFrame(resync) == [seq |-> newest.seq + 1, pts |-> newest.pts + 1, resync |-> resync]
FirstFrame == [seq |-> newest.seq + 1, pts |-> 0, resync |-> TRUE]

Room == newest.seq < MaxChunks

ReaderNext ==
    \E r \in Readers :
        Attach(r) \/ Detach(r) \/ NextChunk(r) \/ NextNone(r) \/ Wake(r)

ProducerNext ==
    \/ Room /\ Push(FirstFrame)
    \/ \E resync \in BOOLEAN : Room /\ newest.seq > 0 /\ Push(NextFrame(resync))
    \/ WaitRegister \/ WaitCount \/ WaitPoll
    \/ Close

FanoutNext == ReaderNext \/ ProducerNext

FanoutSpec == FanoutInit /\ [][FanoutNext]_fanout_vars

-----------------------------------------------------------------------------
Queues ==
    [chunks : Seq(Chunks), awaiting_resync : BOOLEAN, seeded : Nat,
     closed : BOOLEAN, overruns : Nat]

\* The type of the fanout's state.
FanoutTypeOK ==
    /\ consumers \subseteq Readers
    /\ queue \in [Readers -> Queues]
    /\ gop \in [chunks : Seq(Chunks), whole : BOOLEAN]
    /\ waiter \in {"idle", "count", "none", "await"} /\ notified \in BOOLEAN
    /\ reading \in [Readers -> {"gone", "look", "wait", "ended"}]
    /\ wake \in [Readers -> BOOLEAN]
    /\ last \in [Readers -> Chunks]
    /\ newest \in Chunks

\* The chunk before the i-th queued one, as the reader sees it.
Before(r, i) == IF i = 1 THEN last[r] ELSE queue[r].chunks[i - 1]

\* A decoder that has been given a can go on with b.
Follows(a, b) == b.resync \/ (a # NoChunk /\ b.seq = a.seq + 1)

\* No reader is ever handed a chunk whose references it has not been given: what
\* it gets starts at a resync point, at attach and after every backlog that was
\* dropped, and is unbroken from there (fanout.rs:11-16, 174-177).
NoGap ==
    \A r \in consumers : \A i \in DOMAIN queue[r].chunks :
        Follows(Before(r, i), queue[r].chunks[i])

\* A reader that was never overrun has missed nothing since its first chunk:
\* every loss shows in `overruns`, which report_overruns tells the operator.
LossIsCounted ==
    \A r \in consumers : queue[r].overruns = 0 =>
        \A i \in DOMAIN queue[r].chunks :
            Before(r, i) # NoChunk => queue[r].chunks[i].seq = Before(r, i).seq + 1

\* Attaching and pushing are one step each: a reader that is not waiting for a
\* keyframe has been given, or has queued, the newest chunk (fanout.rs:139-145).
UpToDate ==
    \A r \in consumers :
        ~queue[r].awaiting_resync =>
            newest = IF queue[r].chunks = <<>> THEN last[r]
                     ELSE queue[r].chunks[Len(queue[r].chunks)]

\* A reader waiting for a keyframe has nothing queued.
AwaitingIsEmpty ==
    \A r \in consumers : queue[r].awaiting_resync => queue[r].chunks = <<>>

\* The cached GOP is whole when it says so: it starts at a keyframe, is unbroken
\* and reaches the newest chunk.
GopIsWhole ==
    gop.whole =>
        /\ gop.chunks # <<>> /\ gop.chunks[1].resync
        /\ \A i \in 2 .. Len(gop.chunks) : gop.chunks[i].seq = gop.chunks[i - 1].seq + 1
        /\ gop.chunks[Len(gop.chunks)] = newest

\* One frame is one unit of stream time here.
Bounded(q) == Len(q.chunks) - q.seeded <= Limit + 1

\* Past the seeded burst a reader's queue holds at most Limit of stream time
\* (fanout.rs:11), as long as the producer's clock has not restarted.
BacklogBounded ==
    newest.seq = newest.pts + 1 => \A r \in consumers : Bounded(queue[r])

\* Nobody sleeps on a queue with something in it, or on a closed one.
NoLostWakeup ==
    \A r \in consumers :
        reading[r] = "wait" /\ (queue[r].chunks # <<>> \/ queue[r].closed) => wake[r]
=============================================================================
