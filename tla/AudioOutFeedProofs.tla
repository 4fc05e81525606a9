------------------------- MODULE AudioOutFeedProofs -------------------------
(***************************************************************************)
(* More proofs about AudioOut for every value of its constants: the feed   *)
(* cursor under the shifts of the completion loop, the position over pause *)
(* and resume, and the completion latch of an external stream.             *)
(***************************************************************************)
EXTENDS AudioOutProofs

-----------------------------------------------------------------------------
(* The feed cursor.  CursorSplitsQueue as an operator on a queue q, a      *)
(* cursor f and the belief d that everything is fed.                       *)

Split(q, f, d) ==
  /\ f <= Len(q)
  /\ \A i \in 1..Len(q) : /\ i <= f => q[i].rem = 0
                          /\ i > f + 1 => q[i].rem = q[i].dur
  /\ d => f = Len(q) \/ q = <<>>

LEMMA CursorIsSplit == CursorSplitsQueue <=> Split(queue, feedIdx, allFed)
BY DEF CursorSplitsQueue, Split

\* An empty queue with no clip started is split.
LEMMA DroppedSplit ==
  ASSUME queue' = <<>>, feedIdx' = -1
  PROVE  CursorSplitsQueue'
<1>1. Len(queue') = 0
  BY EmptySeq
<1> QED BY <1>1 DEF CursorSplitsQueue

\* A step that leaves the queue, the cursor and the belief alone.
LEMMA UntouchedSplit ==
  ASSUME CursorSplitsQueue, UNCHANGED <<queue, feedIdx, allFed>>
  PROVE  CursorSplitsQueue'
BY DEF CursorSplitsQueue

\* queue_clip puts an untouched clip past the cursor and takes the belief back.
LEMMA QueueClipSplit ==
  ASSUME NEW q \in Seq(Clip), NEW f \in Int, NEW d \in BOOLEAN, Split(q, f, d),
         NEW from \in Nat, NEW dur \in Durations, NEW gap \in Gaps,
         accepted \in Nat, queue_clip(q, from, dur, gap), feedIdx' = f
  PROVE  CursorSplitsQueue'
<1> DEFINE c == [id |-> accepted, dur |-> dur, rem |-> dur, gap |-> gap,
                  start |-> from, end |-> from + dur + gap]
<1>1. dur \in Nat /\ gap \in Nat
  BY Inputs
<1>2. c \in Clip /\ c.rem = c.dur
  BY <1>1 DEF Clip
<1>3. queue' = Append(q, c) /\ allFed' = FALSE
  BY DEF queue_clip
<1> HIDE DEF c
<1>4. /\ Len(queue') = Len(q) + 1 /\ Len(q) \in Nat /\ queue'[Len(q) + 1] = c
      /\ \A i \in 1..Len(q) : queue'[i] = q[i]
  BY <1>2, <1>3, AppendProperties, LenProperties
<1>5. f <= Len(q)
  BY DEF Split
<1>6. ASSUME NEW i \in 1..Len(queue')
      PROVE  /\ i <= f => queue'[i].rem = 0
             /\ i > f + 1 => queue'[i].rem = queue'[i].dur
  <2>1. CASE i \in 1..Len(q)
    BY <1>4, <2>1 DEF Split
  <2>2. CASE i = Len(q) + 1
    BY <1>2, <1>4, <1>5, <2>2
  <2> QED BY <1>4, <2>1, <2>2
<1> QED BY <1>3, <1>4, <1>5, <1>6 DEF CursorSplitsQueue

\* Writing audio changes the clip under the cursor only.
LEMMA FeedClipSplit ==
  ASSUME TypeOK, CursorSplitsQueue, FeedClip
  PROVE  CursorSplitsQueue'
<1> DEFINE k == feedIdx + 1
           clip == queue[k]
           w    == Fits(Min2(clip.rem, budget))
<1>1. k \in 1..Len(queue) /\ clip \in Clip /\ queue \in Seq(Clip) /\ feedIdx \in Int
  BY ElementOfSeq, LenProperties DEF TypeOK, TypeClips, FeedClip
<1>2. Min2(clip.rem, budget) \in Nat /\ Min2(clip.rem, budget) <= clip.rem
  <2>1. clip.rem \in Nat
    BY <1>1 DEF Clip
  <2>2. budget \in Nat
    BY DEF TypeOK, TypeLoop
  <2> HIDE DEF clip
  <2> QED BY <2>1, <2>2 DEF Min2
<1>3. w \in 0..clip.rem
  <2>1. clip.rem \in Nat
    BY <1>1 DEF Clip
  <2>2. w \in 0..Min2(clip.rem, budget)
    BY <1>2, FitsBounds DEF TypeOK
  <2> QED BY <1>2, <2>1, <2>2
<1>4. queue' = [queue EXCEPT ![k] = Taken(clip, w)]
  BY DEF FeedClip
<1> HIDE DEF w
<1>5. Taken(clip, w) \in Clip
  <2>1. clip.rem - w \in Nat
    BY <1>1, <1>3 DEF Clip
  <2> QED BY <1>1, <2>1 DEF Taken, Clip
<1>6. Len(queue') = Len(queue) /\ \A j \in 1..Len(queue) : j # k => queue'[j] = queue[j]
  BY <1>1, <1>4, <1>5, ExceptSeq
<1>7. UNCHANGED <<feedIdx, allFed>> /\ queue # <<>> /\ feedIdx < Len(queue)
  BY <1>1, EmptySeq DEF FeedClip
<1>8. ~allFed
  BY <1>7 DEF CursorSplitsQueue, FeedClip, TypeOK, TypeClips
<1>9. ASSUME NEW i \in 1..Len(queue')
      PROVE  /\ i <= feedIdx => queue'[i].rem = 0
             /\ i > feedIdx + 1 => queue'[i].rem = queue'[i].dur
  BY <1>1, <1>6 DEF CursorSplitsQueue
<1> QED BY <1>6, <1>7, <1>8, <1>9 DEF CursorSplitsQueue

\* The end of a clip whose audio could be read moves the cursor past it.
LEMMA FeedClipEndSplit ==
  ASSUME "read" \notin Faults, TypeOK, CursorSplitsQueue, FeedClipEnd
  PROVE  CursorSplitsQueue'
<1>1. /\ queue' = queue /\ feedIdx' = feedIdx + 1 /\ allFed' = allFed
      /\ feedIdx < Len(queue) /\ queue[feedIdx + 1].rem = 0
  BY DEF FeedClipEnd
<1>2. feedIdx \in Int /\ 0 <= feedIdx /\ Len(queue) \in Nat
  BY LenProperties DEF FeedClipEnd, TypeOK, TypeClips
<1>3. queue # <<>>
  BY <1>1, <1>2, EmptySeq
<1>4. ~allFed
  BY <1>1, <1>2, <1>3 DEF CursorSplitsQueue
<1>5. ASSUME NEW i \in 1..Len(queue)
      PROVE  /\ i <= feedIdx + 1 => queue[i].rem = 0
             /\ i > feedIdx + 2 => queue[i].rem = queue[i].dur
  BY <1>1, <1>2 DEF CursorSplitsQueue
<1> QED BY <1>1, <1>2, <1>4, <1>5 DEF CursorSplitsQueue

\* The completion loop shifts the queue and the cursor by the same count.
LEMMA BookkeepSplit ==
  ASSUME TypeOK, CursorSplitsQueue, Bookkeep
  PROVE  CursorSplitsQueue'
<1>1. PICK k \in 0..Len(queue) :
        /\ queue' = SubSeq(queue, k + 1, Len(queue))
        /\ feedIdx' = IF feedIdx > 0 THEN Max2(feedIdx - k, 0) ELSE feedIdx
  BY DEF Bookkeep, complete_clips
<1>2. /\ queue \in Seq(Clip) /\ Len(queue) \in Nat
      /\ feedIdx \in Int /\ -1 <= feedIdx
  BY LenProperties DEF TypeOK, TypeClips
<1>3. allFed' = allFed
  BY DEF Bookkeep
<1>4. \A j \in k + 1 .. Len(queue) : queue[j] \in Clip
  BY <1>2, ElementOfSeq
<1>5. /\ Len(queue') = IF k + 1 <= Len(queue) THEN Len(queue) - (k + 1) + 1 ELSE 0
      /\ \A j \in 1 .. Len(queue) - (k + 1) + 1 : queue'[j] = queue[(k + 1) + j - 1]
  BY <1>1, <1>2, <1>4, SubSeqProperties
<1>6. /\ Len(queue') = Len(queue) - k
      /\ \A j \in 1..Len(queue') : k + j \in 1..Len(queue) /\ queue'[j] = queue[k + j]
  <2>1. Len(queue') = Len(queue) - k
    BY <1>2, <1>5
  <2>2. ASSUME NEW j \in 1..Len(queue')
        PROVE  k + j \in 1..Len(queue) /\ queue'[j] = queue[k + j]
    <3>1. j \in 1 .. Len(queue) - (k + 1) + 1 /\ (k + 1) + j - 1 = k + j
      BY <1>2, <2>1, <2>2
    <3>2. queue'[j] = queue[(k + 1) + j - 1]
      BY <1>5, <3>1
    <3>3. k + j \in 1..Len(queue)
      BY <1>2, <2>1, <2>2
    <3> QED BY <3>1, <3>2, <3>3
  <2> QED BY <2>1, <2>2
<1>7. feedIdx <= Len(queue)
  BY DEF CursorSplitsQueue
<1>8. feedIdx' <= Len(queue')
  BY <1>1, <1>2, <1>6, <1>7 DEF Max2
<1>9. ASSUME NEW i \in 1..Len(queue')
      PROVE  /\ i <= feedIdx' => queue'[i].rem = 0
             /\ i > feedIdx' + 1 => queue'[i].rem = queue'[i].dur
  <2>1. k + i \in 1..Len(queue) /\ queue'[i] = queue[k + i]
    BY <1>6
  <2>2. i <= feedIdx' => k + i <= feedIdx
    BY <1>1, <1>2, <1>9 DEF Max2
  <2>3. i > feedIdx' + 1 => k + i > feedIdx + 1
    BY <1>1, <1>2, <1>9 DEF Max2
  <2> QED BY <2>1, <2>2, <2>3 DEF CursorSplitsQueue
<1>10. ASSUME allFed
       PROVE  feedIdx' = Len(queue') \/ queue' = <<>>
  <2>1. CASE queue = <<>>
    <3>1. Len(queue) = 0
      BY <2>1, EmptySeq
    <3>2. k + 1 \in Int /\ Len(queue) \in Int /\ Len(queue) < k + 1
      BY <3>1
    <3> QED BY <1>1, <3>2, SubSeqEmpty
  <2>2. CASE queue # <<>>
    <3>1. feedIdx = Len(queue) /\ Len(queue) > 0
      BY <1>2, <1>10, <2>2, EmptySeq DEF CursorSplitsQueue
    <3> QED BY <1>1, <1>2, <1>6, <3>1 DEF Max2
  <2> QED BY <2>1, <2>2
<1> QED BY <1>3, <1>8, <1>9, <1>10 DEF CursorSplitsQueue

\* A play keeps the split.
LEMMA PlaySplit ==
  ASSUME TypeOK, CursorSplitsQueue, NEW dur \in Durations, NEW gap \in Gaps,
         NEW rate \in Rates,
         \/ PlayAppend(dur, gap, rate)
         \/ \E built \in BuildResults, opened \in BOOLEAN :
              \/ PlayLazyBuild(dur, gap, rate, built, opened)
              \/ PlayRebuild(dur, gap, rate, built, opened)
  PROVE  CursorSplitsQueue'
<1>1. /\ queue \in Seq(Clip) /\ feedIdx \in Int /\ accepted \in Nat /\ fedEnd \in Nat
      /\ Split(queue, feedIdx, allFed)
  BY CursorIsSplit DEF TypeOK, TypeClips
<1>2. allFed \in BOOLEAN
  BY DEF TypeOK, TypeFlags
<1>3. NextStart \in Nat
  BY AudibleIsNat DEF NextStart, Max2, TypeOK, TypeClips
<1>4. <<>> \in Seq(Clip) /\ Len(<<>>) = 0
  BY EmptySeq
<1>5. CASE PlayAppend(dur, gap, rate)
  <2>1. queue_clip(queue, NextStart, dur, gap) /\ feedIdx' = feedIdx
    BY <1>5 DEF PlayAppend
  <2> QED BY <1>1, <1>2, <1>3, <2>1, QueueClipSplit
<1>6. ASSUME NEW built \in BuildResults, NEW opened \in BOOLEAN,
             PlayLazyBuild(dur, gap, rate, built, opened)
      PROVE  CursorSplitsQueue'
  <2>1. CASE built = "up" /\ opened
    <3>1. queue_clip(queue, fedEnd, dur, gap) /\ feedIdx' = feedIdx
      BY <1>6, <2>1 DEF PlayLazyBuild
    <3> QED BY <1>1, <1>2, <3>1, QueueClipSplit
  <2>2. CASE ~(built = "up" /\ opened)
    <3>1. UNCHANGED <<queue, feedIdx, allFed>>
      BY <1>6, <2>2 DEF PlayLazyBuild
    <3> QED BY <3>1, UntouchedSplit
  <2> QED BY <2>1, <2>2
<1>7. ASSUME NEW built \in BuildResults, NEW opened \in BOOLEAN,
             PlayRebuild(dur, gap, rate, built, opened)
      PROVE  CursorSplitsQueue'
  <2>1. CASE built = "up" /\ opened
    <3>1. queue_clip(<<>>, 0, dur, gap) /\ feedIdx' = -1
      BY <1>7, <2>1 DEF PlayRebuild
    <3>2. Split(<<>>, -1, TRUE) /\ -1 \in Int /\ 0 \in Nat /\ TRUE \in BOOLEAN
      BY <1>4 DEF Split
    <3> QED BY <1>1, <1>4, <3>1, <3>2, QueueClipSplit
  <2>2. CASE ~(built = "up" /\ opened)
    <3>1. queue' = <<>> /\ feedIdx' = -1
      BY <1>7, <2>2 DEF PlayRebuild
    <3> QED BY <3>1, DroppedSplit
  <2> QED BY <2>1, <2>2
<1> QED BY <1>5, <1>6, <1>7

\* A pass of the feed loop keeps the split.
LEMMA FeedSplit ==
  ASSUME "read" \notin Faults, TypeOK, CursorSplitsQueue, Feed
  PROVE  CursorSplitsQueue'
<1>1. feedIdx \in Int /\ -1 <= feedIdx /\ Len(queue) \in Nat
  BY LenProperties DEF TypeOK, TypeClips
<1>2. CASE FeedClip
  BY <1>2, FeedClipSplit
<1>3. CASE FeedClipEnd
  BY <1>3, FeedClipEndSplit
<1>4. CASE FeedQueueEnd
  <2>1. queue' = queue /\ feedIdx' = feedIdx /\ feedIdx >= Len(queue)
    BY <1>4 DEF FeedQueueEnd
  <2>2. feedIdx = Len(queue)
    BY <1>1, <2>1 DEF CursorSplitsQueue
  <2> QED BY <2>1, <2>2 DEF CursorSplitsQueue
<1>5. CASE FeedStart
  <2>1. queue' = queue /\ feedIdx' = Max2(feedIdx, 0) /\ allFed' = allFed /\ ~allFed
    BY <1>5 DEF FeedStart
  <2>2. feedIdx' <= Len(queue)
    BY <1>1, <2>1 DEF CursorSplitsQueue, Max2
  <2>3. ASSUME NEW i \in 1..Len(queue)
        PROVE  /\ i <= feedIdx' => queue[i].rem = 0
               /\ i > feedIdx' + 1 => queue[i].rem = queue[i].dur
    BY <1>1, <2>1 DEF CursorSplitsQueue, Max2
  <2> QED BY <2>1, <2>2, <2>3 DEF CursorSplitsQueue
<1>6. CASE \/ \E n \in 1..FEED_CHUNK : FeedDecoded(n)
           \/ FeedKeepalive \/ FeedNothing \/ FeedGap \/ FeedBudgetSpent
  <2>1. UNCHANGED <<queue, feedIdx, allFed>>
    BY <1>6 DEF FeedDecoded, FeedKeepalive, FeedNothing, FeedGap, FeedBudgetSpent, clipVars
  <2> QED BY <2>1, UntouchedSplit
<1> QED BY <1>2, <1>3, <1>4, <1>5, <1>6 DEF Feed

\* Every step of the daemon keeps the split.
LEMMA SplitStep ==
  ASSUME "read" \notin Faults, TypeOK, CursorSplitsQueue, [Next]_vars
  PROVE  CursorSplitsQueue'
<1>1. CASE \E dur \in Durations, gap \in Gaps, rate \in Rates :
             \/ PlayAppend(dur, gap, rate)
             \/ \E built \in BuildResults, opened \in BOOLEAN :
                  \/ PlayLazyBuild(dur, gap, rate, built, opened)
                  \/ PlayRebuild(dur, gap, rate, built, opened)
  BY <1>1, PlaySplit
<1>2. CASE Pause \/ ResumeClips \/ ResumeLegacy
  <2>1. UNCHANGED <<queue, feedIdx, allFed>>
    BY <1>2 DEF Pause, ResumeClips, ResumeLegacy, clipVars
  <2> QED BY <2>1, UntouchedSplit
<1>3. CASE Stop \/ Release \/ ExternalRefused
  <2>1. queue' = <<>> /\ feedIdx' = -1
    BY <1>3 DEF Stop, Release, ExternalRefused, drop_queue
  <2> QED BY <2>1, DroppedSplit
<1>4. CASE \E built \in BuildResults : Flush(built) \/ BusRebuild(built)
  <2>1. queue' = <<>> /\ feedIdx' = -1
    BY <1>4 DEF Flush, BusRebuild, Rebuild, drop_queue
  <2> QED BY <2>1, DroppedSplit
<1>5. CASE \E built \in BuildResults, pos \in Positions :
             \/ ResumeAt(pos, built)
             \/ \E total \in Totals :
                  \/ Seek(pos, total, built)
                  \/ \E rate \in Rates, dec \in BOOLEAN :
                       External(rate, pos, total, dec, built)
  <2>1. PICK pos, total, built : stream_epoch(pos, total, built)
    BY <1>5 DEF ResumeAt, Seek, External
  <2>2. queue' = <<>> /\ feedIdx' = -1
    BY <2>1 DEF stream_epoch, Rebuild, drop_queue
  <2> QED BY <2>2, DroppedSplit
<1>6. CASE Feed
  BY <1>6, FeedSplit
<1>7. CASE Bookkeep
  BY <1>7, BookkeepSplit
<1>8. CASE BusGiveUp \/ Elapse \/ Sink \/ ExtWrite \/ UNCHANGED vars
  <2>1. UNCHANGED <<queue, feedIdx, allFed>>
    BY <1>8 DEF BusGiveUp, Elapse, Sink, Accept, ExtWrite, vars, clipVars
  <2> QED BY <2>1, UntouchedSplit
<1> QED BY <1>1, <1>2, <1>3, <1>4, <1>5, <1>6, <1>7, <1>8 DEF Next, Client, Bus

\* As long as no read fails, the completion loop may shift the queue under the
\* feed cursor at any point: no clip is skipped, none is fed twice, and the
\* daemon never believes that everything is fed while a clip is ahead.
THEOREM CursorSplits ==
  ASSUME "read" \notin Faults
  PROVE  Spec => []CursorSplitsQueue
<1>1. Init => CursorSplitsQueue
  <2> SUFFICES ASSUME Init PROVE CursorSplitsQueue
    OBVIOUS
  <2>1. queue = <<>> /\ feedIdx = -1
    BY DEF Init, InitDaemon
  <2>2. Len(queue) = 0
    BY <2>1, EmptySeq
  <2> QED BY <2>1, <2>2 DEF CursorSplitsQueue
<1>2. TypeOK /\ CursorSplitsQueue /\ [Next]_vars => CursorSplitsQueue'
  BY SplitStep
<1> QED BY <1>1, <1>2, TypeCorrect, PTL DEF Spec

-----------------------------------------------------------------------------
(* Pause and resume.                                                       *)

\* Pause freezes the clock where it is.
LEMMA PauseKeeps == ASSUME Pause PROVE AudibleMs' = AudibleMs
BY DEF Pause, PausePosition, AudibleMs

\* A resume in clip mode continues the clock from where it was frozen.
LEMMA ResumeKeeps == ASSUME TypeOK, ResumeClips PROVE AudibleMs' = AudibleMs
<1>1. AudibleMs = frozen /\ paused' = FALSE /\ frozen' = frozen /\ frozen \in Nat
  BY DEF ResumeClips, AudibleMs, TypeOK, TypeClock
<1>2. epochOff' = 0 /\ base' = frozen /\ age' = 0 /\ accBytes' = accBytes /\ accBytes \in Nat
  BY DEF ResumeClips, ResumeBase, TypeOK, TypeClock
<1>3. Audible(epochOff', base', age', accBytes') = frozen
  BY <1>1, <1>2, Sizes DEF Audible, Max2, Min2
<1> QED BY <1>1, <1>3 DEF AudibleMs

\* No other step changes the pause flag outside external mode.
LEMMA OnlyTransportPauses ==
  ASSUME [Next]_vars, ~Pause, ~ResumeClips, ~extActive, ~extActive'
  PROVE  paused' = paused
<1>1. CASE \E dur \in Durations, gap \in Gaps, rate \in Rates :
             \/ PlayAppend(dur, gap, rate)
             \/ \E built \in BuildResults, opened \in BOOLEAN :
                  \/ PlayLazyBuild(dur, gap, rate, built, opened)
                  \/ PlayRebuild(dur, gap, rate, built, opened)
  BY <1>1 DEF PlayAppend, PlayLazyBuild, PlayRebuild
<1>2. CASE Stop \/ Release \/ ExternalRefused
  BY <1>2 DEF Stop, Release, ExternalRefused
<1>3. CASE \E built \in BuildResults : Flush(built) \/ BusRebuild(built)
  BY <1>3 DEF Flush, BusRebuild
<1>4. CASE \E built \in BuildResults, pos \in Positions, total \in Totals :
             Seek(pos, total, built)
  BY <1>4 DEF Seek
<1>5. CASE \E built \in BuildResults, pos \in Positions : ResumeAt(pos, built)
  BY <1>5 DEF ResumeAt
<1>6. CASE \E built \in BuildResults, pos \in Positions, total \in Totals,
              rate \in Rates, dec \in BOOLEAN : External(rate, pos, total, dec, built)
  BY <1>6 DEF External
<1>7. CASE ResumeLegacy
  BY <1>7 DEF ResumeLegacy
<1>8. CASE Feed
  BY <1>8 DEF Feed, FeedDecoded, FeedKeepalive, FeedStart, FeedNothing, FeedGap,
      FeedQueueEnd, FeedClipEnd, FeedClip, FeedBudgetSpent, feedRest
<1>9. CASE Bookkeep \/ BusGiveUp \/ Elapse \/ Sink \/ ExtWrite \/ UNCHANGED vars
  BY <1>9 DEF Bookkeep, BusGiveUp, Elapse, Sink, Accept, ExtWrite, vars
<1> QED BY <1>1, <1>2, <1>3, <1>4, <1>5, <1>6, <1>7, <1>8, <1>9 DEF Next, Client, Bus

\* Whatever was asked for before, a pause and the resume after it leave the
\* position of a clip where the listener heard it stop.
THEOREM PositionKept == Spec => PauseAndResumeKeepPosition
<1> DEFINE Kept == (paused' # paused /\ ~extActive /\ ~extActive') => AudibleMs' = AudibleMs
<1>1. TypeOK /\ [Next]_vars => Kept
  BY PauseKeeps, ResumeKeeps, OnlyTransportPauses
<1>2. Kept <=> ((paused' # paused /\ ~extActive /\ ~extActive') => AudibleMs' = AudibleMs)
  OBVIOUS
<1> HIDE DEF Kept
<1> QED BY <1>1, <1>2, TypeCorrect, PTL DEF Spec, PauseAndResumeKeepPosition

-----------------------------------------------------------------------------
(* The completion latch of an external stream.                             *)

\* Without bus errors the loop has no bus to handle.
NoBusError == pc # "bus"

\* While a stream plays, or has ended, the clock cannot restart below what it
\* was frozen at.
FrozenBehind ==
  (extActive \/ extDone) =>
    /\ anchorWait => frozen <= epochOff
    /\ (~anchorWait /\ ~paused) => frozen <= epochOff + base

DoneInv == IntakeLags /\ NoBusError /\ FrozenBehind /\ DoneMeansReached

\* A new epoch clears the latch and freezes the clock at its start.
LEMMA EpochDone ==
  ASSUME TypeOK, NEW pos \in Positions, NEW total, NEW built,
         stream_epoch(pos, total, built), pc' # "bus", probeBytes' = probeBytes
  PROVE  DoneInv'
<1>1. accBytes' = 0 /\ anchorWait' = TRUE /\ extDone' = FALSE
  BY DEF stream_epoch, Rebuild, EpochLatch
<1>2. \/ epochOff' = pos /\ frozen' = pos
      \/ epochOff' = epochOff /\ frozen' = 0
  BY DEF stream_epoch, EpochFrozen, FrozenAtBuild
<1>3. frozen' <= epochOff'
  BY <1>2, Inputs DEF TypeOK, TypeClock
<1>4. IntakeLags'
  BY <1>1 DEF IntakeLags, TypeOK, TypeClock
<1>5. FrozenBehind'
  BY <1>1, <1>3 DEF FrozenBehind
<1> QED BY <1>1, <1>4, <1>5 DEF DoneInv, NoBusError, DoneMeansReached

\* A step that ends external mode and clears its latch.
LEMMA ClearedDone ==
  ASSUME TypeOK, DoneInv, extActive' = FALSE, extDone' = FALSE, pc' # "bus",
         accBytes' \in {0, accBytes}, probeBytes' = probeBytes
  PROVE  DoneInv'
<1>1. IntakeLags'
  BY DEF DoneInv, IntakeLags, TypeOK, TypeClock
<1> QED BY <1>1 DEF DoneInv, NoBusError, FrozenBehind, DoneMeansReached

\* A step that leaves the clock and the stream alone.
LEMMA StillDone ==
  ASSUME TypeOK, DoneInv, pc' # "bus", probeBytes' \in Nat, probeBytes <= probeBytes',
         UNCHANGED <<accBytes, anchorWait, epochOff, base, frozen, age, paused>>,
         UNCHANGED <<extTotal, extDone>>, extActive' => extActive
  PROVE  DoneInv'
<1>1. AudibleMs' = AudibleMs
  BY DEF AudibleMs
<1>2. IntakeLags'
  BY DEF DoneInv, IntakeLags, TypeOK, TypeClock
<1>3. FrozenBehind'
  BY DEF DoneInv, FrozenBehind
<1>4. DoneMeansReached'
  BY <1>1 DEF DoneInv, DoneMeansReached
<1> QED BY <1>2, <1>3, <1>4 DEF NoBusError, DoneInv

\* Pause.
LEMMA PauseDone == ASSUME TypeOK, DoneInv, Pause PROVE DoneInv'
<1>1. /\ frozen' = AudibleMs /\ paused' = TRUE /\ anchorWait' = anchorWait
      /\ epochOff' = epochOff /\ accBytes' = accBytes /\ probeBytes' = probeBytes
      /\ pc' = pc /\ UNCHANGED extVars
  BY DEF Pause, PausePosition, probeVars, loopVars
<1>2. AudibleMs' = AudibleMs
  BY PauseKeeps
<1>3. ASSUME anchorWait, frozen <= epochOff PROVE frozen' <= epochOff'
  BY <1>1, <1>3 DEF AudibleMs
<1>4. FrozenBehind'
  BY <1>1, <1>3 DEF DoneInv, FrozenBehind, extVars
<1>5. IntakeLags' /\ NoBusError'
  BY <1>1 DEF DoneInv, IntakeLags, NoBusError
<1>6. DoneMeansReached'
  BY <1>1, <1>2 DEF DoneInv, DoneMeansReached, extVars
<1> QED BY <1>4, <1>5, <1>6 DEF DoneInv

\* A resume in clip mode, which a stream that has ended may still be followed by.
LEMMA ResumeDone == ASSUME TypeOK, DoneInv, ResumeClips PROVE DoneInv'
<1>1. /\ anchorWait' = FALSE /\ frozen' = frozen /\ base' = frozen /\ epochOff' = 0
      /\ accBytes' = accBytes /\ probeBytes' = probeBytes /\ pc' = pc
      /\ UNCHANGED extVars
  BY DEF ResumeClips, ResumeBase, probeVars, loopVars
<1>2. AudibleMs' = AudibleMs
  BY ResumeKeeps
<1>3. frozen' <= epochOff' + base'
  BY <1>1 DEF TypeOK, TypeClock
<1>4. FrozenBehind'
  BY <1>1, <1>3 DEF FrozenBehind
<1>5. IntakeLags' /\ NoBusError'
  BY <1>1 DEF DoneInv, IntakeLags, NoBusError
<1>6. DoneMeansReached'
  BY <1>1, <1>2 DEF DoneInv, DoneMeansReached, extVars
<1> QED BY <1>4, <1>5, <1>6 DEF DoneInv

\* The bookkeeping tick latches what the clock has reached, and the clock of a
\* stream that has ended does not go back.
LEMMA BookkeepDone ==
  ASSUME "bus" \notin Faults, TypeOK, TypeOK', DoneInv, Bookkeep
  PROVE  DoneInv'
<1>1. /\ accBytes' = probeBytes /\ probeBytes' = probeBytes /\ frozen' = frozen
      /\ epochOff' = epochOff /\ paused' = paused /\ extActive' = extActive
      /\ extTotal' = extTotal
      /\ anchorWait' = (anchorWait /\ probeBytes = accBytes)
  BY DEF Bookkeep, refresh_clock, probeVars
<1>2. /\ extDone' = (extDone \/ (extActive /\ ~paused /\ extTotal > 0
                                   /\ AudibleMs' >= extTotal - DONE_TOLERANCE))
      /\ pc' = "recv"
  BY DEF Bookkeep
<1>3. IntakeLags' /\ NoBusError'
  BY <1>1, <1>2 DEF IntakeLags, NoBusError, TypeOK, TypeClock
<1>4. ASSUME extActive \/ extDone
      PROVE  /\ AudibleMs <= AudibleMs'
             /\ anchorWait' => frozen <= epochOff
             /\ (~anchorWait' /\ ~paused) => frozen <= epochOff + base'
  <2>1. /\ anchorWait => frozen <= epochOff
        /\ (~anchorWait /\ ~paused) => frozen <= epochOff + base
    BY <1>4 DEF DoneInv, FrozenBehind
  <2>2. /\ AudibleMs <= AudibleMs'
        /\ (~anchorWait' /\ ~paused) => frozen <= epochOff + base'
    BY <2>1, TickForward DEF DoneInv
  <2> QED BY <1>1, <2>1, <2>2
<1>5. extDone' => extActive \/ extDone
  BY <1>2
<1>6. FrozenBehind'
  BY <1>1, <1>4, <1>5 DEF FrozenBehind
<1>7. AudibleMs \in Nat /\ AudibleMs' \in Nat
  <2>1. TypeClock /\ TypeClock'
    BY DEF TypeOK
  <2>2. /\ Audible(epochOff, base, age, accBytes) \in Nat /\ frozen \in Nat
        /\ Audible(epochOff, base, age, accBytes)' \in Nat /\ frozen' \in Nat
    BY <2>1, AudibleBounds DEF TypeClock
  <2> QED BY <2>2 DEF AudibleMs
<1>8. DoneMeansReached'
  <2>1. CASE extDone
    <3>1. AudibleMs >= extTotal - DONE_TOLERANCE
      BY <2>1 DEF DoneInv, DoneMeansReached
    <3>2. extTotal - DONE_TOLERANCE \in Int
      BY Sizes DEF TypeOK, TypeClock
    <3>3. AudibleMs' >= extTotal - DONE_TOLERANCE
      BY <1>4, <1>7, <2>1, <3>1, <3>2
    <3> QED BY <1>1, <3>3 DEF DoneMeansReached
  <2>2. CASE ~extDone
    BY <1>1, <1>2, <2>2 DEF DoneMeansReached
  <2> QED BY <2>1, <2>2
<1> QED BY <1>3, <1>6, <1>8 DEF DoneInv

\* Every step of a daemon that only plays streams keeps the latch backed.
LEMMA DoneStep ==
  ASSUME Cmds \cap {"play", "resume_legacy"} = {}, "bus" \notin Faults,
         TypeOK, TypeOK', DoneInv, [Next]_vars
  PROVE  DoneInv'
<1>1. CASE \E dur \in Durations, gap \in Gaps, rate \in Rates :
             \/ PlayAppend(dur, gap, rate)
             \/ \E built \in BuildResults, opened \in BOOLEAN :
                  \/ PlayLazyBuild(dur, gap, rate, built, opened)
                  \/ PlayRebuild(dur, gap, rate, built, opened)
  BY <1>1 DEF PlayAppend, PlayLazyBuild, PlayRebuild, Command
<1>2. CASE Pause
  BY <1>2, PauseDone
<1>3. CASE ResumeClips
  BY <1>3, ResumeDone
<1>4. CASE ResumeLegacy
  BY <1>4 DEF ResumeLegacy, Command
<1>5. CASE Release \/ \E built \in BuildResults : Flush(built)
  <2>1. extActive' = FALSE /\ extDone' = FALSE /\ pc' # "bus" /\ probeBytes' = probeBytes
    BY <1>5 DEF Release, Flush, Command, loopVars, probeVars
  <2>2. accBytes' \in {0, accBytes}
    BY <1>5 DEF Release, Flush, Rebuild
  <2> QED BY <2>1, <2>2, ClearedDone
<1>6. CASE \E built \in BuildResults, pos \in Positions :
             \/ ResumeAt(pos, built)
             \/ \E total \in Totals :
                  \/ Seek(pos, total, built)
                  \/ \E rate \in Rates, dec \in BOOLEAN :
                       External(rate, pos, total, dec, built)
  <2>1. PICK pos, total, built : pos \in Positions /\ stream_epoch(pos, total, built)
    BY <1>6 DEF ResumeAt, Seek, External
  <2>2. pc' # "bus" /\ probeBytes' = probeBytes
    BY <1>6 DEF ResumeAt, Seek, External, Command, loopVars, probeVars
  <2> QED BY <2>1, <2>2, EpochDone
<1>7. CASE Stop \/ ExternalRefused
  <2>1. /\ UNCHANGED <<accBytes, anchorWait, epochOff, base, frozen, age, paused>>
        /\ UNCHANGED <<extTotal, extDone>> /\ (extActive' => extActive)
        /\ pc' # "bus" /\ probeBytes' = probeBytes
    BY <1>7 DEF Stop, ExternalRefused, Command, loopVars, clockVars, extVars, probeVars
  <2> QED BY <2>1, StillDone DEF TypeOK, TypeClock
<1>8. CASE Feed
  <2>1. /\ UNCHANGED <<accBytes, anchorWait, epochOff, base, frozen, age, paused, probeBytes>>
        /\ UNCHANGED extVars
    BY <1>8 DEF Feed, FeedDecoded, FeedKeepalive, FeedStart, FeedNothing, FeedGap,
        FeedQueueEnd, FeedClipEnd, FeedClip, FeedBudgetSpent, feedRest, clockVars,
        clockNoFeed, probeVars
  <2>2. pc' # "bus"
    BY <1>8 DEF Feed, FeedDecoded, FeedKeepalive, FeedStart, FeedNothing, FeedGap,
        FeedQueueEnd, FeedClipEnd, FeedClip, FeedBudgetSpent
  <2> QED BY <2>1, <2>2, StillDone DEF TypeOK, TypeClock, extVars
<1>9. CASE Bookkeep
  BY <1>9, BookkeepDone
<1>10. CASE Bus
  BY <1>10 DEF Bus, BusGiveUp, BusRebuild, DoneInv, NoBusError
<1>11. CASE Elapse \/ Sink \/ ExtWrite \/ UNCHANGED vars
  <2>1. /\ UNCHANGED <<accBytes, anchorWait, epochOff, base, frozen, age, paused, pc>>
        /\ UNCHANGED extVars
    BY <1>11 DEF Elapse, Sink, Accept, ExtWrite, vars, clockVars, loopVars
  <2>2. probeBytes' \in Nat /\ probeBytes <= probeBytes'
    BY <1>11, Sizes DEF Elapse, Sink, Accept, ExtWrite, vars, probeVars, TypeOK, TypeClock
  <2> QED BY <2>1, <2>2, StillDone DEF DoneInv, NoBusError, extVars
<1> QED BY <1>1, <1>2, <1>3, <1>4, <1>5, <1>6, <1>7, <1>8, <1>9, <1>10, <1>11
        DEF Next, Client

\* A daemon that plays streams only, resumed with a position and without bus
\* errors: a latched completion is backed by the clock that status reports,
\* over every seek, pause, refused file and failed build.
THEOREM DoneIsReached ==
  ASSUME Cmds \cap {"play", "resume_legacy"} = {}, "bus" \notin Faults
  PROVE  Spec => []DoneMeansReached
<1>1. Init => DoneInv
  BY DEF Init, InitDaemon, DoneInv, IntakeLags, NoBusError, FrozenBehind, DoneMeansReached
<1>2. TypeOK /\ TypeOK' /\ DoneInv /\ [Next]_vars => DoneInv'
  BY DoneStep
<1> QED BY <1>1, <1>2, TypeCorrect, PTL DEF Spec, DoneInv
=============================================================================
