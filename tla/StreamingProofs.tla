--------------------------- MODULE StreamingProofs ---------------------------
(***************************************************************************)
(* What holds of a fanout whatever its readers and its producer do:        *)
(* FanoutSpec keeps NoGap, LossIsCounted and NoLostWakeup for every set of *)
(* readers and every limit.  The pipe and stream commands keep the fanout' *)
(* contract, so it holds of theirs too.                                    *)
(*                                                                         *)
(* NoGap is not inductive: that the next chunk follows what a reader has   *)
(* needs UpToDate, that its burst follows nothing needs GopIsWhole, and    *)
(* that a dropped backlog is taken up at a keyframe needs AwaitingIsEmpty. *)
(* A frame of the commands that is not a session's first may be pushed onl *)
(* once something has been: Opened, from `replaying` on.                   *)
(***************************************************************************)
EXTENDS Streaming, SequenceTheorems, TLAPS

-----------------------------------------------------------------------------
(* The chunks a producer pushes.                                           *)

\* c may be pushed now: it is the first of a session, or follows the newest.
Pushable(c) ==
    /\ c \in Chunks /\ c.seq = newest.seq + 1
    /\ c.resync \/ newest.seq > 0

\* Every chunk the producer of FanoutSpec makes may be pushed.
LEMMA FramesArePushable ==
    ASSUME FanoutTypeOK
    PROVE  /\ Pushable(FirstFrame)
           /\ \A resync \in BOOLEAN : newest.seq > 0 => Pushable(NextFrame(resync))
  BY DEF FanoutTypeOK, Chunks, Pushable, FirstFrame, NextFrame

\* NoChunk is a chunk, the only one that may have place 0, and no keyframe.
LEMMA NoChunkType == NoChunk \in Chunks /\ NoChunk.seq = 0 /\ ~NoChunk.resync
  BY DEF NoChunk, Chunks

-----------------------------------------------------------------------------
(* Type correctness.                                                       *)

\* The queue of a reader that has just attached has the type of a queue.
LEMMA SeededType ==
    ASSUME FanoutTypeOK
    PROVE  Seeded \in Queues /\ EmptyQueue \in Queues
<1> DEFINE seed == IF gop.whole THEN gop.chunks ELSE <<>>
<1>1. EmptyQueue \in Queues
  <2>1. <<>> \in Seq(Chunks) /\ 0 \in Nat
    OBVIOUS
  <2> QED BY <2>1 DEF EmptyQueue, Queues
<1>2. seed \in Seq(Chunks) /\ Len(seed) \in Nat
  BY DEF FanoutTypeOK
<1>3. Seeded = [chunks |-> seed, awaiting_resync |-> (seed = <<>>), seeded |-> Len(seed),
                closed |-> FALSE, overruns |-> 0]
  BY DEF Seeded
<1>4. (seed = <<>>) \in BOOLEAN
  OBVIOUS
<1> HIDE DEF seed
<1> QED BY <1>1, <1>2, <1>3, <1>4 DEF Queues

\* A push leaves a queue a queue.
LEMMA QueueAfterType ==
    ASSUME NEW q \in Queues, NEW c \in Chunks
    PROVE  QueueAfter(q, c) \in Queues
<1>1. CASE Skips(q, c)
  BY <1>1 DEF QueueAfter
<1>2. CASE ~Skips(q, c) /\ Overrun(q, c)
  <2>1. (IF c.resync THEN <<c>> ELSE <<>>) \in Seq(Chunks)
    OBVIOUS
  <2>2. (~c.resync) \in BOOLEAN
    OBVIOUS
  <2>3. q.overruns + 1 \in Nat
    BY DEF Queues
  <2> QED BY <1>2, <2>1, <2>2, <2>3 DEF QueueAfter, Dropped, Queues
<1>3. CASE ~Skips(q, c) /\ ~Overrun(q, c)
  <2>1. Append(q.chunks, c) \in Seq(Chunks)
    BY DEF Queues
  <2> QED BY <1>3, <2>1 DEF QueueAfter, Queues
<1> QED BY <1>1, <1>2, <1>3

\* A push leaves the cached GOP a sequence of chunks.
LEMMA CacheGopType ==
    ASSUME FanoutTypeOK, NEW c \in Chunks
    PROVE  CacheGop(c) \in [chunks : Seq(Chunks), whole : BOOLEAN]
  BY DEF FanoutTypeOK, CacheGop

\* The type is kept by every step of the fanout.
LEMMA FanoutTypeStep ==
    ASSUME FanoutTypeOK, [FanoutNext]_fanout_vars
    PROVE  FanoutTypeOK'
<1> USE DEF FanoutTypeOK
<1>1. ASSUME NEW r \in Readers, Attach(r) PROVE FanoutTypeOK'
  BY <1>1, SeededType, NoChunkType DEF Attach
<1>2. ASSUME NEW r \in Readers, Detach(r) PROVE FanoutTypeOK'
  BY <1>2, SeededType DEF Detach
<1>3. ASSUME NEW r \in Readers, NextChunk(r) PROVE FanoutTypeOK'
  <2>1. queue[r] \in Queues /\ queue[r].chunks # <<>>
    BY <1>3 DEF NextChunk
  <2> DEFINE q == [queue[r] EXCEPT !.chunks = Tail(@), !.seeded = IF @ > 0 THEN @ - 1 ELSE 0]
  <2>2. q \in Queues
    <3>1. Tail(queue[r].chunks) \in Seq(Chunks)
      BY <2>1 DEF Queues
    <3>2. (IF queue[r].seeded > 0 THEN queue[r].seeded - 1 ELSE 0) \in Nat
      BY <2>1 DEF Queues
    <3> QED BY <2>1, <3>1, <3>2 DEF Queues
  <2>3. queue' = [queue EXCEPT ![r] = q]
    BY <1>3 DEF NextChunk
  <2>4. Head(queue[r].chunks) \in Chunks
    BY <2>1 DEF Queues
  <2> HIDE DEF q
  <2> QED BY <1>3, <2>2, <2>3, <2>4 DEF NextChunk
<1>4. ASSUME NEW r \in Readers, NextNone(r) PROVE FanoutTypeOK'
  BY <1>4 DEF NextNone
<1>5. ASSUME NEW r \in Readers, Wake(r) PROVE FanoutTypeOK'
  BY <1>5 DEF Wake
<1>6. ASSUME NEW c \in Chunks, Push(c) PROVE FanoutTypeOK'
  <2>1. gop' \in [chunks : Seq(Chunks), whole : BOOLEAN]
    BY <1>6, CacheGopType DEF Push
  <2>2. queue' \in [Readers -> Queues]
    BY <1>6, QueueAfterType DEF Push
  <2>3. wake' \in [Readers -> BOOLEAN]
    BY <1>6 DEF Push, Wakes, Skips
  <2> QED BY <1>6, <2>1, <2>2, <2>3 DEF Push
<1>7. CASE WaitRegister \/ WaitCount \/ WaitPoll
  BY <1>7 DEF WaitRegister, WaitCount, WaitPoll
<1>8. CASE Close
  BY <1>8 DEF Close, Queues
<1>9. CASE UNCHANGED fanout_vars
  BY <1>9 DEF fanout_vars
<1>10. FirstFrame \in Chunks /\ \A resync \in BOOLEAN : NextFrame(resync) \in Chunks
  BY DEF FirstFrame, NextFrame, Chunks
<1> QED
  BY <1>1, <1>2, <1>3, <1>4, <1>5, <1>6, <1>7, <1>8, <1>9, <1>10
     DEF FanoutNext, ReaderNext, ProducerNext

-----------------------------------------------------------------------------
(* The inductive invariant: what it says of one reader, given its queue q, *)
(* the last chunk l it was given and the newest chunk n.                   *)

Prev(q, l, i) == IF i = 1 THEN l ELSE q.chunks[i - 1]

ReaderOK(q, l, n) ==
    /\ q.awaiting_resync => q.chunks = <<>>
    /\ ~q.awaiting_resync => n = IF q.chunks = <<>> THEN l ELSE q.chunks[Len(q.chunks)]
    /\ \A i \in DOMAIN q.chunks : Follows(Prev(q, l, i), q.chunks[i])
    /\ q.overruns = 0 =>
          /\ q.awaiting_resync => l = NoChunk
          /\ \A i \in DOMAIN q.chunks :
                Prev(q, l, i) # NoChunk => q.chunks[i].seq = Prev(q, l, i).seq + 1

FanoutInv ==
    /\ FanoutTypeOK
    /\ GopIsWhole
    /\ \A r \in consumers : ReaderOK(queue[r], last[r], newest)

\* The invariant is what NoGap, LossIsCounted and UpToDate rest on.
LEMMA FanoutInvImplies ==
    ASSUME FanoutInv
    PROVE  NoGap /\ LossIsCounted /\ UpToDate
<1>1. \A r \in consumers : ReaderOK(queue[r], last[r], newest)
  BY DEF FanoutInv
<1>2. NoGap
  BY <1>1 DEF NoGap, Before, ReaderOK, Prev
<1>3. LossIsCounted
  BY <1>1 DEF LossIsCounted, Before, ReaderOK, Prev
<1>4. UpToDate
  BY <1>1 DEF UpToDate, ReaderOK
<1> QED BY <1>2, <1>3, <1>4

\* A reader that attaches starts with a burst a decoder can start on, which ends
\* with the newest chunk, or waits for a keyframe.
LEMMA AttachKeepsReaderOK ==
    ASSUME FanoutTypeOK, GopIsWhole
    PROVE  ReaderOK(Seeded, NoChunk, newest)
<1>1. CASE ~gop.whole
  <2>1. Seeded = [chunks |-> <<>>, awaiting_resync |-> TRUE, seeded |-> 0,
                  closed |-> FALSE, overruns |-> 0]
    BY <1>1 DEF Seeded
  <2> QED BY <2>1 DEF ReaderOK
<1>2. CASE gop.whole
  <2> DEFINE g == gop.chunks
  <2>1. g \in Seq(Chunks) /\ g # <<>>
    BY <1>2 DEF FanoutTypeOK, GopIsWhole
  <2>2. Seeded.chunks = g /\ ~Seeded.awaiting_resync /\ Seeded.overruns = 0
    BY <1>2, <2>1 DEF Seeded
  <2>3. g[1].resync /\ g[Len(g)] = newest
    BY <1>2 DEF GopIsWhole
  <2>4. ASSUME NEW i \in DOMAIN g, i # 1
        PROVE  g[i - 1] # NoChunk /\ g[i].seq = g[i - 1].seq + 1
    <3>1. i \in 2 .. Len(g) /\ i - 1 \in DOMAIN g
      BY <2>1, <2>4
    <3>2. g[i].seq = g[i - 1].seq + 1
      BY <1>2, <3>1 DEF GopIsWhole
    <3>3. CASE i - 1 = 1
      BY <2>3, <3>2, <3>3, NoChunkType
    <3>4. CASE i - 1 # 1
      <4>1. i - 1 \in 2 .. Len(g) /\ (i - 1) - 1 \in DOMAIN g
        BY <2>1, <3>1, <3>4
      <4>2. g[i - 1].seq = g[(i - 1) - 1].seq + 1
        BY <1>2, <4>1 DEF GopIsWhole
      <4>3. g[(i - 1) - 1] \in Chunks
        BY <2>1, <4>1
      <4>4. g[(i - 1) - 1].seq \in Nat
        BY <4>3 DEF Chunks
      <4> QED BY <3>2, <4>2, <4>4, NoChunkType
    <3> QED BY <3>3, <3>4
  <2> QED
    BY <2>1, <2>2, <2>3, <2>4 DEF ReaderOK, Prev, Follows
<1> QED BY <1>1, <1>2

\* Pushing what may be pushed keeps a reader's queue unbroken, whether the chunk
\* is queued, skipped or takes the place of the backlog.
LEMMA PushKeepsReaderOK ==
    ASSUME FanoutTypeOK, NEW q \in Queues, NEW l \in Chunks, NEW c,
           Pushable(c), ReaderOK(q, l, newest)
    PROVE  ReaderOK(QueueAfter(q, c), l, c)
<1> DEFINE after == QueueAfter(q, c)
<1>1. CASE Skips(q, c)
  BY <1>1 DEF QueueAfter, ReaderOK, Skips
<1>2. CASE ~Skips(q, c) /\ Overrun(q, c)
  <2>1. after = Dropped(q, c) /\ q.overruns + 1 # 0
    BY <1>2 DEF QueueAfter, Queues
  <2> SUFFICES ReaderOK(after, l, c)
    OBVIOUS
  <2> HIDE DEF after
  <2>2. CASE c.resync
    <3>1. after = [q EXCEPT !.chunks = <<c>>, !.seeded = 0,
                            !.overruns = q.overruns + 1, !.awaiting_resync = FALSE]
      <4>1. (~c.resync) = FALSE /\ (IF c.resync THEN <<c>> ELSE <<>>) = <<c>>
        BY <2>2
      <4> QED BY <2>1, <4>1, Zenon DEF Dropped
    <3>2. /\ after.chunks = <<c>> /\ ~after.awaiting_resync
          /\ after.overruns = q.overruns + 1
      BY <3>1 DEF Queues
    <3>3. DOMAIN <<c>> = {1} /\ <<c>>[1] = c /\ Len(<<c>>) = 1 /\ <<c>> # <<>>
      OBVIOUS
    <3> QED BY <2>1, <2>2, <3>2, <3>3 DEF ReaderOK, Follows
  <2>3. CASE ~c.resync
    <3>1. after = [q EXCEPT !.chunks = <<>>, !.seeded = 0,
                            !.overruns = q.overruns + 1, !.awaiting_resync = TRUE]
      <4>1. (~c.resync) = TRUE /\ (IF c.resync THEN <<c>> ELSE <<>>) = <<>>
        BY <2>3
      <4> QED BY <2>1, <4>1, Zenon DEF Dropped
    <3>2. /\ after.chunks = <<>> /\ after.awaiting_resync
          /\ after.overruns = q.overruns + 1
      BY <3>1 DEF Queues
    <3> QED BY <2>1, <3>2 DEF ReaderOK
  <2> QED BY <2>2, <2>3
<1>3. CASE ~Skips(q, c) /\ ~Overrun(q, c)
  <2> DEFINE k == Len(q.chunks)
  <2>1. /\ after.chunks = Append(q.chunks, c)
        /\ ~after.awaiting_resync
        /\ after.overruns = q.overruns
    BY <1>3 DEF QueueAfter, Queues
  <2>2. q.chunks \in Seq(Chunks) /\ k \in Nat /\ c \in Chunks
    BY DEF Queues, Pushable
  <2>3. /\ DOMAIN after.chunks = 1 .. k + 1
        /\ after.chunks[k + 1] = c /\ after.chunks[Len(after.chunks)] = c
        /\ after.chunks # <<>>
        /\ \A i \in 1 .. k : after.chunks[i] = q.chunks[i]
        /\ DOMAIN q.chunks = 1 .. k
    BY <2>1, <2>2
  <2>4. \A i \in 1 .. k : Prev(after, l, i) = Prev(q, l, i)
    BY <2>3, <2>2 DEF Prev
  <2>5. Prev(after, l, k + 1) = IF k = 0 THEN l ELSE q.chunks[k]
    BY <2>3, <2>2 DEF Prev
  <2>6. CASE q.awaiting_resync
    <3>1. k = 0 /\ c.resync
      BY <1>3, <2>2, <2>6 DEF ReaderOK, Skips
    <3>2. DOMAIN after.chunks = {1} /\ Prev(after, l, 1) = l /\ after.chunks[1] = c
      BY <2>3, <2>5, <3>1
    <3>3. q.overruns = 0 => l = NoChunk
      BY <2>6 DEF ReaderOK
    <3> QED BY <2>1, <2>3, <3>1, <3>2, <3>3 DEF ReaderOK, Follows
  <2>7. CASE ~q.awaiting_resync
    <3>1. Prev(after, l, k + 1) = newest
      BY <2>2, <2>5, <2>7 DEF ReaderOK
    <3>2. c.seq = newest.seq + 1 /\ (c.resync \/ newest # NoChunk)
      BY NoChunkType DEF Pushable, FanoutTypeOK, Chunks
    <3>3. \A i \in DOMAIN after.chunks : Follows(Prev(after, l, i), after.chunks[i])
      BY <2>2, <2>3, <2>4, <3>1, <3>2 DEF ReaderOK, Follows
    <3>4. q.overruns = 0 =>
             \A i \in DOMAIN after.chunks :
                Prev(after, l, i) # NoChunk => after.chunks[i].seq = Prev(after, l, i).seq + 1
      <4> SUFFICES ASSUME q.overruns = 0, NEW i \in 1 .. k + 1, Prev(after, l, i) # NoChunk
                   PROVE  after.chunks[i].seq = Prev(after, l, i).seq + 1
        BY <2>3
      <4>1. CASE i = k + 1
        BY <2>3, <3>1, <3>2, <4>1
      <4>2. CASE i # k + 1
        <5>1. i \in 1 .. k
          BY <2>2, <4>2
        <5>2. after.chunks[i] = q.chunks[i] /\ Prev(after, l, i) = Prev(q, l, i)
          BY <2>3, <2>4, <5>1
        <5>3. q.chunks[i].seq = Prev(q, l, i).seq + 1
          BY <2>3, <5>1, <5>2 DEF ReaderOK
        <5> QED BY <5>2, <5>3
      <4> QED BY <4>1, <4>2
    <3> QED BY <2>1, <2>3, <3>3, <3>4 DEF ReaderOK
  <2> QED BY <2>6, <2>7
<1> QED BY <1>1, <1>2, <1>3

\* A reader that takes its next chunk has that one to go on from.
LEMMA NextKeepsReaderOK ==
    ASSUME NEW q \in Queues, NEW l \in Chunks, NEW n, ReaderOK(q, l, n),
           q.chunks # <<>>, NEW p \in Queues,
           p.chunks = Tail(q.chunks), p.awaiting_resync = q.awaiting_resync,
           p.overruns = q.overruns
    PROVE  ReaderOK(p, Head(q.chunks), n)
<1> DEFINE k == Len(q.chunks)
<1>1. q.chunks \in Seq(Chunks) /\ k \in Nat /\ k > 0 /\ ~q.awaiting_resync
  BY DEF Queues, ReaderOK
<1>2. /\ DOMAIN q.chunks = 1 .. k /\ DOMAIN p.chunks = 1 .. k - 1
      /\ Len(p.chunks) = k - 1
      /\ \A i \in 1 .. k - 1 : p.chunks[i] = q.chunks[i + 1]
      /\ Head(q.chunks) = q.chunks[1]
      /\ (p.chunks = <<>>) <=> (k = 1)
  <2>1. p.chunks \in Seq(Chunks) /\ Len(p.chunks) = k - 1
    BY <1>1
  <2>2. (p.chunks = <<>>) <=> (k = 1)
    <3>1. \A s \in Seq(Chunks) : s # <<>> => Len(s) # 0
      BY EmptySeq
    <3>2. Len(<<>>) = 0
      BY EmptySeq
    <3>3. (p.chunks = <<>>) <=> (Len(p.chunks) = 0)
      BY <2>1, <3>1, <3>2, Zenon
    <3> QED BY <1>1, <2>1, <3>3
  <2>3. \A i \in 1 .. k - 1 : p.chunks[i] = q.chunks[i + 1]
    BY <1>1
  <2> QED BY <1>1, <2>1, <2>2, <2>3
<1>3. \A i \in 1 .. k - 1 : /\ Prev(p, Head(q.chunks), i) = Prev(q, l, i + 1)
                            /\ i + 1 \in DOMAIN q.chunks
  BY <1>1, <1>2 DEF Prev
<1>4. \A i \in DOMAIN p.chunks : Follows(Prev(p, Head(q.chunks), i), p.chunks[i])
  BY <1>2, <1>3 DEF ReaderOK
<1>5. n = IF p.chunks = <<>> THEN Head(q.chunks) ELSE p.chunks[Len(p.chunks)]
  BY <1>1, <1>2 DEF ReaderOK
<1>6. p.overruns = 0 =>
        \A i \in DOMAIN p.chunks :
           Prev(p, Head(q.chunks), i) # NoChunk
              => p.chunks[i].seq = Prev(p, Head(q.chunks), i).seq + 1
  BY <1>2, <1>3 DEF ReaderOK
<1> QED BY <1>1, <1>4, <1>5, <1>6 DEF ReaderOK

\* The cache is whole after every push that leaves it saying so.
LEMMA CacheGopIsWhole ==
    ASSUME FanoutTypeOK, GopIsWhole, NEW c, Push(c), Pushable(c)
    PROVE  GopIsWhole'
<1> DEFINE chunks == Append(IF c.resync THEN <<>> ELSE gop.chunks, c)
<1> SUFFICES ASSUME gop'.whole
             PROVE  /\ gop'.chunks # <<>> /\ gop'.chunks[1].resync
                    /\ \A i \in 2 .. Len(gop'.chunks) :
                          gop'.chunks[i].seq = gop'.chunks[i - 1].seq + 1
                    /\ gop'.chunks[Len(gop'.chunks)] = newest'
  BY DEF GopIsWhole
<1>1. gop' = CacheGop(c) /\ newest' = c /\ c \in Chunks
  BY DEF Push, Pushable
<1>2. CASE ~(c.resync \/ gop.whole)
  BY <1>1, <1>2 DEF CacheGop, FanoutTypeOK
<1>3. CASE c.resync \/ gop.whole
  <2>1. gop'.chunks = chunks
    BY <1>1, <1>3 DEF CacheGop
  <2>2. CASE c.resync
    <3>1. chunks = <<c>>
      BY <2>2
    <3> QED BY <1>1, <2>1, <2>2, <3>1
  <2>3. CASE ~c.resync
    <3> DEFINE k == Len(gop.chunks)
    <3>1. /\ gop.chunks \in Seq(Chunks) /\ k \in Nat /\ k > 0
          /\ gop.chunks[1].resync /\ gop.chunks[k] = newest
          /\ \A i \in 2 .. k : gop.chunks[i].seq = gop.chunks[i - 1].seq + 1
      BY <1>3, <2>3 DEF FanoutTypeOK, GopIsWhole
    <3>2. /\ chunks # <<>> /\ Len(chunks) = k + 1 /\ chunks[k + 1] = c
          /\ \A i \in 1 .. k : chunks[i] = gop.chunks[i]
      BY <1>1, <2>3, <3>1
    <3>3. c.seq = newest.seq + 1
      BY DEF Pushable
    <3> HIDE DEF chunks
    <3>4. \A i \in 2 .. k + 1 : chunks[i].seq = chunks[i - 1].seq + 1
      <4> SUFFICES ASSUME NEW i \in 2 .. k + 1
                   PROVE  chunks[i].seq = chunks[i - 1].seq + 1
        OBVIOUS
      <4>1. chunks[i - 1] = gop.chunks[i - 1]
        BY <3>1, <3>2
      <4>2. CASE i = k + 1
        BY <3>1, <3>2, <3>3, <4>1, <4>2
      <4>3. CASE i # k + 1
        BY <3>1, <3>2, <4>1, <4>3
      <4> QED BY <4>2, <4>3
    <3> QED BY <1>1, <2>1, <3>1, <3>2, <3>4
  <2> QED BY <2>2, <2>3
<1> QED BY <1>2, <1>3

-----------------------------------------------------------------------------
(* The invariant holds at first and is kept by every step.                 *)

\* An empty fanout satisfies the invariant: nobody reads, nothing is cached.
LEMMA FanoutInvInit ==
    ASSUME FanoutInit
    PROVE  FanoutInv
<1>1. FanoutTypeOK
  <2>1. EmptyQueue \in Queues
    <3>1. <<>> \in Seq(Chunks) /\ 0 \in Nat
      OBVIOUS
    <3> QED BY <3>1 DEF EmptyQueue, Queues
  <2>2. gop \in [chunks : Seq(Chunks), whole : BOOLEAN]
    <3>1. <<>> \in Seq(Chunks)
      OBVIOUS
    <3> QED BY <3>1 DEF FanoutInit
  <2> QED BY <2>1, <2>2, NoChunkType DEF FanoutInit, FanoutTypeOK
<1>2. GopIsWhole
  BY DEF FanoutInit, GopIsWhole
<1> QED BY <1>1, <1>2 DEF FanoutInit, FanoutInv

\* Every step of a fanout keeps the invariant.
LEMMA FanoutInvStep ==
    ASSUME FanoutInv, [FanoutNext]_fanout_vars
    PROVE  FanoutInv'
<1> USE DEF FanoutInv
<1>1. FanoutTypeOK'
  BY FanoutTypeStep
<1>2. ASSUME NEW r \in Readers, Attach(r) PROVE FanoutInv'
  <2>1. GopIsWhole'
    BY <1>2 DEF Attach, GopIsWhole
  <2>2. ASSUME NEW o \in consumers' PROVE ReaderOK(queue[o], last[o], newest)'
    <3>1. CASE o = r
      <4>1. queue'[o] = Seeded /\ last'[o] = NoChunk /\ newest' = newest
        BY <1>2, <3>1 DEF Attach, FanoutTypeOK
      <4> QED BY <4>1, AttachKeepsReaderOK
    <3>2. CASE o # r
      <4>1. o \in consumers /\ queue'[o] = queue[o] /\ last'[o] = last[o] /\ newest' = newest
        BY <1>2, <2>2, <3>2 DEF Attach, FanoutTypeOK
      <4> QED BY <4>1
    <3> QED BY <3>1, <3>2
  <2> QED BY <1>1, <2>1, <2>2
<1>3. ASSUME NEW r \in Readers, Detach(r) PROVE FanoutInv'
  <2>1. GopIsWhole'
    BY <1>3 DEF Detach, GopIsWhole
  <2>2. ASSUME NEW o \in consumers' PROVE ReaderOK(queue[o], last[o], newest)'
    <3>1. o \in consumers /\ queue'[o] = queue[o] /\ last' = last /\ newest' = newest
      BY <1>3, <2>2 DEF Detach, FanoutTypeOK
    <3> QED BY <3>1
  <2> QED BY <1>1, <2>1, <2>2
<1>4. ASSUME NEW r \in Readers, NextChunk(r) PROVE FanoutInv'
  <2>1. GopIsWhole'
    BY <1>4 DEF NextChunk, GopIsWhole
  <2>2. ASSUME NEW o \in consumers' PROVE ReaderOK(queue[o], last[o], newest)'
    <3>1. o \in consumers /\ newest' = newest /\ ReaderOK(queue[o], last[o], newest)
      BY <1>4, <2>2 DEF NextChunk
    <3>2. queue[o] \in Queues /\ last[o] \in Chunks /\ queue'[o] \in Queues
      BY <1>1, <3>1 DEF FanoutTypeOK
    <3>3. CASE o = r
      <4> DEFINE q == [queue[r] EXCEPT !.chunks = Tail(@), !.seeded = IF @ > 0 THEN @ - 1 ELSE 0]
      <4>1. queue'[o] = q /\ last'[o] = Head(queue[o].chunks) /\ queue[o].chunks # <<>>
        BY <1>4, <3>3 DEF NextChunk, FanoutTypeOK
      <4>2. /\ q.chunks = Tail(queue[o].chunks)
            /\ q.awaiting_resync = queue[o].awaiting_resync
            /\ q.overruns = queue[o].overruns
        BY <3>2, <3>3 DEF Queues
      <4> HIDE DEF q
      <4>3. ReaderOK(queue'[o], Head(queue[o].chunks), newest)
        BY <3>1, <3>2, <4>1, <4>2, NextKeepsReaderOK
      <4> QED BY <3>1, <4>1, <4>3
    <3>4. CASE o # r
      <4>1. queue'[o] = queue[o] /\ last'[o] = last[o]
        BY <1>4, <3>4 DEF NextChunk, FanoutTypeOK
      <4> QED BY <3>1, <4>1
    <3> QED BY <3>3, <3>4
  <2> QED BY <1>1, <2>1, <2>2
<1>5. ASSUME NEW c, Pushable(c), Push(c) PROVE FanoutInv'
  <2>1. GopIsWhole'
    BY <1>5, CacheGopIsWhole
  <2>2. ASSUME NEW o \in consumers' PROVE ReaderOK(queue[o], last[o], newest)'
    <3>1. /\ o \in consumers /\ o \in Readers
          /\ newest' = c /\ last'[o] = last[o] /\ queue'[o] = QueueAfter(queue[o], c)
      BY <1>5, <2>2 DEF Push, FanoutTypeOK
    <3>2. queue[o] \in Queues /\ last[o] \in Chunks
      BY <3>1 DEF FanoutTypeOK
    <3>3. ReaderOK(QueueAfter(queue[o], c), last[o], c)
      BY <1>5, <3>1, <3>2, PushKeepsReaderOK
    <3> QED BY <3>1, <3>3
  <2> QED BY <1>1, <2>1, <2>2
<1>6. CASE Close
  <2>1. GopIsWhole'
    BY <1>6 DEF Close, GopIsWhole
  <2>2. ASSUME NEW o \in consumers' PROVE ReaderOK(queue[o], last[o], newest)'
    <3>1. /\ o \in consumers /\ o \in Readers /\ newest' = newest /\ last' = last
          /\ queue'[o] = [queue[o] EXCEPT !.closed = TRUE]
      BY <1>6, <2>2 DEF Close, FanoutTypeOK
    <3>2. /\ queue'[o].chunks = queue[o].chunks
          /\ queue'[o].awaiting_resync = queue[o].awaiting_resync
          /\ queue'[o].overruns = queue[o].overruns
      BY <3>1 DEF FanoutTypeOK, Queues
    <3>3. ReaderOK(queue[o], last[o], newest)
      BY <3>1
    <3> QED BY <3>1, <3>2, <3>3 DEF ReaderOK, Prev
  <2> QED BY <1>1, <2>1, <2>2
<1>7. CASE UNCHANGED <<consumers, queue, gop, last, newest>>
  BY <1>1, <1>7 DEF GopIsWhole, ReaderOK, Prev
<1>8. ASSUME NEW r \in Readers, NextNone(r) \/ Wake(r)
      PROVE  UNCHANGED <<consumers, queue, gop, last, newest>>
  BY <1>8 DEF NextNone, Wake
<1>9. ASSUME WaitRegister \/ WaitCount \/ WaitPoll \/ UNCHANGED fanout_vars
      PROVE  UNCHANGED <<consumers, queue, gop, last, newest>>
  BY <1>9 DEF WaitRegister, WaitCount, WaitPoll, fanout_vars
<1> QED
  BY <1>2, <1>3, <1>4, <1>5, <1>6, <1>7, <1>8, <1>9, FramesArePushable
     DEF FanoutNext, ReaderNext, ProducerNext

\* Whatever the readers do, and whenever a session starts, a fanout hands each
\* reader a stream it can decode, counts every loss, and keeps a reader that is
\* not waiting for a keyframe up to the newest chunk.
THEOREM FanoutSafe == FanoutSpec => [](NoGap /\ LossIsCounted /\ UpToDate)
<1>1. FanoutInit => FanoutInv
  BY FanoutInvInit
<1>2. FanoutInv /\ [FanoutNext]_fanout_vars => FanoutInv'
  BY FanoutInvStep
<1>3. FanoutInv => NoGap /\ LossIsCounted /\ UpToDate
  BY FanoutInvImplies
<1> QED BY <1>1, <1>2, <1>3, PTL DEF FanoutSpec

\* Every variable of a fanout keeps its type.
THEOREM FanoutTypeCorrect == FanoutSpec => []FanoutTypeOK
<1>1. FanoutInit => FanoutTypeOK
  BY FanoutInvInit DEF FanoutInv
<1>2. FanoutTypeOK /\ [FanoutNext]_fanout_vars => FanoutTypeOK'
  BY FanoutTypeStep
<1> QED BY <1>1, <1>2, PTL DEF FanoutSpec

-----------------------------------------------------------------------------
(* Nobody sleeps on a queue with something in it.                          *)

\* A push that leaves something more in a queue wakes its reader.
LEMMA PushWakes ==
    ASSUME NEW q \in Queues, NEW c, ~Wakes(q, c)
    PROVE  \/ QueueAfter(q, c) = q
           \/ QueueAfter(q, c).chunks = <<>> /\ QueueAfter(q, c).closed = q.closed
<1>1. CASE Skips(q, c)
  BY <1>1 DEF QueueAfter
<1>2. CASE ~Skips(q, c)
  <2>1. Overrun(q, c) /\ ~c.resync
    BY <1>2 DEF Wakes
  <2>2. QueueAfter(q, c) = Dropped(q, c)
    BY <1>2, <2>1 DEF QueueAfter
  <2>3. Dropped(q, c).chunks = <<>> /\ Dropped(q, c).closed = q.closed
    BY <2>1 DEF Dropped, Queues
  <2> QED BY <2>2, <2>3
<1> QED BY <1>1, <1>2

\* A reader that sleeps on a queue with something in it, or on a closed one, has
\* a permit waiting: pushes, closes and the reader's own check never miss each
\* other.
THEOREM FanoutWakes == FanoutSpec => []NoLostWakeup
<1> DEFINE WInv == FanoutTypeOK /\ NoLostWakeup
<1>1. FanoutInit => WInv
  <2> SUFFICES ASSUME FanoutInit PROVE NoLostWakeup
    BY FanoutInvInit DEF FanoutInv
  <2> QED BY DEF FanoutInit, NoLostWakeup
<1>2. ASSUME WInv, [FanoutNext]_fanout_vars PROVE WInv'
  <2>1. FanoutTypeOK'
    BY <1>2, FanoutTypeStep
  <2>2. ASSUME NEW r \in Readers,
               Attach(r) \/ Detach(r) \/ NextChunk(r) \/ NextNone(r) \/ Wake(r)
        PROVE  NoLostWakeup'
    <3> SUFFICES ASSUME NEW o \in consumers', reading'[o] = "wait",
                        queue'[o].chunks # <<>> \/ queue'[o].closed
                 PROVE  wake'[o]
      BY DEF NoLostWakeup
    <3>1. o \in Readers
      BY <2>1 DEF FanoutTypeOK
    <3>2. CASE o # r
      <4>1. /\ o \in consumers /\ reading[o] = "wait" /\ queue'[o] = queue[o]
            /\ wake'[o] = wake[o]
        BY <1>2, <2>2, <3>1, <3>2
           DEF Attach, Detach, NextChunk, NextNone, Wake, FanoutTypeOK
      <4> QED BY <1>2, <4>1 DEF NoLostWakeup
    <3>3. CASE o = r
      <4>1. NextNone(r)
        BY <1>2, <2>2, <3>1, <3>3
           DEF Attach, Detach, NextChunk, Wake, FanoutTypeOK
      <4>2. queue' = queue /\ queue[r].chunks = <<>> /\ ~queue[r].closed
        BY <1>2, <3>3, <4>1 DEF NextNone, FanoutTypeOK
      <4> QED BY <3>3, <4>2
    <3> QED BY <3>2, <3>3
  <2>3. ASSUME NEW c, Push(c) PROVE NoLostWakeup'
    <3> SUFFICES ASSUME NEW o \in consumers', reading'[o] = "wait",
                        queue'[o].chunks # <<>> \/ queue'[o].closed, ~wake'[o]
                 PROVE  FALSE
      BY DEF NoLostWakeup
    <3>1. o \in consumers /\ o \in Readers /\ reading[o] = "wait"
      BY <1>2, <2>3 DEF Push, FanoutTypeOK
    <3>2. ~wake[o] /\ ~Wakes(queue[o], c) /\ queue'[o] = QueueAfter(queue[o], c)
      BY <2>3, <3>1 DEF Push
    <3>3. queue[o].chunks = <<>> /\ ~queue[o].closed
      BY <1>2, <3>1, <3>2 DEF NoLostWakeup
    <3>4. queue'[o].chunks = <<>> /\ queue'[o].closed = queue[o].closed
      BY <1>2, <3>1, <3>2, <3>3, PushWakes DEF FanoutTypeOK
    <3> QED BY <3>3, <3>4
  <2>4. ASSUME Close PROVE NoLostWakeup'
    <3>1. ASSUME NEW o \in consumers' PROVE wake'[o]
      <4>1. o \in consumers /\ o \in Readers
        BY <1>2, <2>4 DEF Close, FanoutTypeOK
      <4>2. wake'[o] = (wake[o] \/ o \in consumers)
        BY <2>4, <4>1 DEF Close
      <4> QED BY <4>1, <4>2
    <3> QED BY <3>1 DEF NoLostWakeup
  <2>5. ASSUME WaitRegister \/ WaitCount \/ WaitPoll \/ UNCHANGED fanout_vars
        PROVE  NoLostWakeup'
    <3>1. UNCHANGED <<consumers, reading, queue, wake>>
      BY <2>5 DEF WaitRegister, WaitCount, WaitPoll, fanout_vars
    <3>2. NoLostWakeup
      BY <1>2
    <3> QED BY <3>1, <3>2 DEF NoLostWakeup
  <2> QED BY <1>2, <2>1, <2>2, <2>3, <2>4, <2>5 DEF FanoutNext, ReaderNext, ProducerNext
<1>3. WInv => NoLostWakeup
  OBVIOUS
<1> HIDE DEF WInv
<1> QED BY <1>1, <1>2, <1>3, PTL DEF FanoutSpec

-----------------------------------------------------------------------------
(* The two commands.                                                       *)

Opened == newest.seq \in Nat /\ (source \in {"replaying", "live", "count"} => newest.seq > 0)

\* The fanout's part of a step of the producer other than a push.
LEMMA QuietSteps ==
    ASSUME WaitForConsumer \/ ReplayDone \/ CountReaders \/ CameraStops \/ RetryDelay
              \/ WriterDone \/ Finished
    PROVE  WaitRegister \/ WaitCount \/ WaitPoll \/ Close \/ UNCHANGED fanout_vars
  BY DEF WaitForConsumer, ReplayDone, CountReaders, CameraStops, RetryDelay,
         WriterDone, Finished, vars

\* Those steps leave the newest chunk, and come nowhere they were not allowed to.
LEMMA QuietStepsKeepOpened ==
    ASSUME Opened,
           WaitForConsumer \/ ReplayDone \/ CountReaders \/ CameraStops \/ RetryDelay
              \/ WriterDone \/ Finished
    PROVE  Opened'
<1>1. newest' = newest
  BY QuietSteps DEF WaitRegister, WaitCount, WaitPoll, Close, fanout_vars
<1>2. source' \in {"replaying", "live", "count"} => source \in {"replaying", "live", "count"}
  BY DEF WaitForConsumer, ReplayDone, CountReaders, CameraStops, RetryDelay,
         WriterDone, Finished, vars
<1> QED BY <1>1, <1>2 DEF Opened

\* Every step of the commands is a step of a fanout, or leaves it alone, and
\* keeps Opened.
LEMMA StreamingStep ==
    ASSUME Opened, [Next]_vars
    PROVE  Opened' /\ [FanoutNext]_fanout_vars
<1>1. ASSUME WaitForConsumer \/ ReplayDone \/ CountReaders \/ CameraStops \/ RetryDelay
                \/ WriterDone \/ Finished
      PROVE  Opened' /\ [FanoutNext]_fanout_vars
  BY <1>1, QuietSteps, QuietStepsKeepOpened DEF FanoutNext, ProducerNext
<1>2. ASSUME NEW n, Learn(n) PROVE Opened' /\ [FanoutNext]_fanout_vars
  <2>1. (\E r \in Readers : Attach(r)) \/ UNCHANGED fanout_vars
    BY <1>2 DEF Learn
  <2>2. newest' = newest /\ source' = "replay"
    BY <1>2, <2>1 DEF Learn, Attach, fanout_vars
  <2> QED BY <2>1, <2>2 DEF Opened, FanoutNext, ReaderNext
<1>3. ASSUME NEW n, ReplayFirst(n) PROVE Opened' /\ [FanoutNext]_fanout_vars
  <2>1. Room /\ Push(FirstFrame)
    BY <1>3 DEF ReplayFirst
  <2>2. newest'.seq = newest.seq + 1
    BY <2>1 DEF Push, FirstFrame
  <2> QED BY <2>1, <2>2 DEF Opened, FanoutNext, ProducerNext
<1>4. ASSUME NEW resync \in BOOLEAN, Room /\ Push(NextFrame(resync)),
             source \in {"replaying", "live"}
      PROVE  Opened' /\ [FanoutNext]_fanout_vars
  <2>1. newest.seq > 0
    BY <1>4 DEF Opened
  <2>2. newest'.seq = newest.seq + 1
    BY <1>4 DEF Push, NextFrame
  <2> QED BY <1>4, <2>1, <2>2 DEF Opened, FanoutNext, ProducerNext
<1>5. CASE ReplayNext
  BY <1>4, <1>5 DEF ReplayNext
<1>6. ASSUME NEW resync \in BOOLEAN, Frame(resync)
      PROVE  Opened' /\ [FanoutNext]_fanout_vars
  BY <1>4, <1>6 DEF Frame
<1>7. ASSUME NEW r \in Readers, ReaderOpens(r) \/ ReaderStep(r) \/ ReaderDone(r) \/ Written(r)
      PROVE  Opened' /\ [FanoutNext]_fanout_vars
  <2>1. Attach(r) \/ Detach(r) \/ NextChunk(r) \/ NextNone(r) \/ Wake(r) \/ UNCHANGED fanout_vars
    BY <1>7 DEF ReaderOpens, ReaderStep, ReaderDone, Written
  <2>2. newest' = newest
    BY <2>1 DEF Attach, Detach, NextChunk, NextNone, Wake, fanout_vars
  <2>3. source' = source
    BY <1>7 DEF ReaderOpens, ReaderStep, ReaderDone, Written
  <2> QED BY <2>1, <2>2, <2>3 DEF Opened, FanoutNext, ReaderNext
<1>8. CASE UNCHANGED vars
  BY <1>8 DEF vars, fanout_vars, Opened
<1> QED
  BY <1>1, <1>2, <1>3, <1>5, <1>6, <1>7, <1>8 DEF Next

\* The commands start with an empty fanout.
LEMMA StreamingInit ==
    ASSUME Init
    PROVE  Opened /\ FanoutInit
  BY DEF Init, FanoutInit, Opened, NoChunk

\* The pipe and stream commands implement the fanout's contract, for any readers
\* and any limits: each session opens at a keyframe, attach, push, wait and close
\* come in any order, and nothing else touches the fanout.
THEOREM CommandsKeepContract == Spec => ProducerContract
<1>1. Init => Opened /\ FanoutInit
  BY StreamingInit
<1>2. Opened /\ [Next]_vars => Opened' /\ [FanoutNext]_fanout_vars
  BY StreamingStep
<1> QED BY <1>1, <1>2, PTL DEF Spec, ProducerContract, FanoutSpec

\* No reader of a camera is ever handed a chunk whose references it was not
\* given, misses one without the loss being counted, or falls behind unnoticed.
THEOREM ReadersCanDecode == Spec => [](NoGap /\ LossIsCounted /\ UpToDate)
  BY CommandsKeepContract, FanoutSafe DEF ProducerContract

\* No reader of a camera sleeps on data, or on the end of the stream.
THEOREM ReadersAreWoken == Spec => []NoLostWakeup
  BY CommandsKeepContract, FanoutWakes DEF ProducerContract
=============================================================================
