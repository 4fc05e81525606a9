--------------------------- MODULE AudioOutProofs ---------------------------
(***************************************************************************)
(* Proofs about AudioOut for every value of its constants: type            *)
(* correctness, and the relation between the queued spans and the audible  *)
(* clock.                                                                  *)
(***************************************************************************)
EXTENDS AudioOut, SequenceTheorems, TLAPS

\* The anchored clock is a natural number, at or after its anchor.
LEMMA AudibleBounds ==
  ASSUME NEW eo \in Nat, NEW bs \in Nat, NEW ag \in Nat, NEW acc \in Nat
  PROVE  Audible(eo, bs, ag, acc) \in Nat /\ eo + bs <= Audible(eo, bs, ag, acc)
BY Sizes DEF Audible, Max2, Min2

\* The clock is a natural number.
LEMMA AudibleIsNat ==
  ASSUME TypeClock
  PROVE  AudibleMs \in Nat
BY AudibleBounds DEF TypeClock, AudibleMs

\* What fits is between nothing and what was asked for, and fits.
LEMMA FitsBounds ==
  ASSUME TypeOut, NEW want \in Nat
  PROVE  /\ Fits(want) \in 0..want
         /\ backlog + Fits(want) \in 0..PipeCap
BY Sizes DEF TypeOut, Fits, Min2

\* queue_clip appends one well-formed clip.
LEMMA QueueClipType ==
  ASSUME NEW q \in Seq(Clip), NEW from \in Nat, NEW dur \in Durations,
         NEW gap \in Gaps, accepted \in Nat, queue_clip(q, from, dur, gap)
  PROVE  /\ queue' \in Seq(Clip) /\ Len(queue') = Len(q) + 1
         /\ fedEnd' \in Nat /\ allFed' \in BOOLEAN /\ announceIdle' \in BOOLEAN
         /\ accepted' \in Nat
<1> DEFINE c == [id |-> accepted, dur |-> dur, rem |-> dur, gap |-> gap,
                  start |-> from, end |-> from + dur + gap]
<1>1. dur \in Nat /\ gap \in Nat
  BY Inputs
<1>2. c \in Clip
  BY <1>1 DEF Clip
<1>3. queue' = Append(q, c)
  BY DEF queue_clip
<1> HIDE DEF c
<1>4. queue' \in Seq(Clip)
  BY <1>2, <1>3, AppendProperties
<1>5. Len(queue') = Len(q) + 1
  BY <1>2, <1>3, AppendProperties
<1>6. fedEnd' \in Nat /\ accepted' \in Nat
  BY <1>1 DEF queue_clip
<1>7. allFed' \in BOOLEAN /\ announceIdle' \in BOOLEAN
  BY DEF queue_clip
<1> QED BY <1>4, <1>5, <1>6, <1>7

\* The initial state is well typed.
LEMMA TypeInit == Init => TypeOK
<1> SUFFICES ASSUME Init PROVE TypeOK
  OBVIOUS
<1> USE DEF Init, InitDaemon
<1>1. TypeLoop
  BY DEF TypeLoop
<1>2. TypeOut
  BY Sizes DEF TypeOut
<1>3. TypeClips
  BY Sizes, EmptySeq DEF TypeClips
<1>4. TypeClock
  BY DEF TypeClock
<1>5. TypeFlags
  BY DEF TypeFlags
<1> QED BY <1>1, <1>2, <1>3, <1>4, <1>5 DEF TypeOK

\* The parts of TypeOK that hold numbers and sequences; the flags go apart.
TypeNumbers == TypeLoop /\ TypeOut /\ TypeClips /\ TypeClock

\* A play that builds the pipeline keeps every variable in its range.
LEMMA TypePlayLazyBuild ==
  ASSUME TypeOK, NEW dur \in Durations, NEW gap \in Gaps, NEW rate \in Rates,
         NEW built \in BuildResults, NEW opened \in BOOLEAN,
         PlayLazyBuild(dur, gap, rate, built, opened)
  PROVE  TypeOK'
<1>1. built \in {"none", "up", "failed"}
  BY DEF BuildResults
<1>2. /\ queue' \in Seq(Clip) /\ Len(queue') <= MAX_QUEUE
      /\ fedEnd' \in Nat /\ accepted' \in Nat
      /\ allFed' \in BOOLEAN /\ announceIdle' \in BOOLEAN
  <2>1. CASE built = "up" /\ opened
    <3>1. queue_clip(queue, fedEnd, dur, gap)
      BY <2>1 DEF PlayLazyBuild
    <3>2. queue \in Seq(Clip) /\ fedEnd \in Nat /\ accepted \in Nat
      BY DEF TypeOK, TypeClips
    <3>3. allFed' \in BOOLEAN /\ announceIdle' \in BOOLEAN
      BY <3>1, <3>2, QueueClipType
    <3>4. queue' \in Seq(Clip) /\ Len(queue') = Len(queue) + 1
      BY <3>1, <3>2, QueueClipType
    <3>5. fedEnd' \in Nat /\ accepted' \in Nat
      BY <3>1, <3>2, QueueClipType
    <3>6. Len(queue') <= MAX_QUEUE
      BY <3>2, <3>4, LenProperties, Sizes DEF PlayLazyBuild
    <3> QED BY <3>3, <3>4, <3>5, <3>6
  <2>2. CASE ~(built = "up" /\ opened)
    <3>1. UNCHANGED <<queue, fedEnd, allFed, announceIdle, accepted>>
      BY <2>2 DEF PlayLazyBuild
    <3>2. allFed' \in BOOLEAN /\ announceIdle' \in BOOLEAN
      BY <3>1 DEF TypeOK, TypeFlags
    <3>3. queue' \in Seq(Clip) /\ Len(queue') <= MAX_QUEUE /\ fedEnd' \in Nat /\ accepted' \in Nat
      BY <3>1 DEF TypeOK, TypeClips
    <3> QED BY <3>2, <3>3
  <2> QED BY <2>1, <2>2
<1>3. TypeLoop'
  BY DEF PlayLazyBuild, loopVars, TypeOK, TypeLoop
<1>4. TypeOut'
  BY <1>1, Sizes, Inputs DEF PlayLazyBuild, TypeOK, TypeOut
<1>5. TypeClips'
  BY <1>2, Sizes, Inputs DEF PlayLazyBuild, Command, loopVars, TypeOK, TypeClips
<1>6. TypeClock'
  BY Sizes, Inputs DEF PlayLazyBuild, FrozenAtBuild, probeVars, extVars, TypeOK, TypeClock
<1>7. TypeFlags'
  BY <1>2 DEF PlayLazyBuild, extVars, TypeOK, TypeFlags
<1> QED BY <1>3, <1>4, <1>5, <1>6, <1>7 DEF TypeOK

\* A play that rebuilds the pipeline keeps every variable in its range.
LEMMA TypePlayRebuild ==
  ASSUME TypeOK, NEW dur \in Durations, NEW gap \in Gaps, NEW rate \in Rates,
         NEW built \in BuildResults, NEW opened \in BOOLEAN,
         PlayRebuild(dur, gap, rate, built, opened)
  PROVE  TypeOK'
<1>1. built \in {"none", "up", "failed"}
  BY DEF BuildResults
<1>2. <<>> \in Seq(Clip) /\ Len(<<>>) = 0 /\ 0 \in Nat /\ accepted \in Nat
  BY EmptySeq DEF TypeOK, TypeClips
<1>3. /\ queue' \in Seq(Clip) /\ Len(queue') <= MAX_QUEUE
      /\ fedEnd' \in Nat /\ accepted' \in Nat
      /\ allFed' \in BOOLEAN /\ announceIdle' \in BOOLEAN
  <2>1. CASE built = "up" /\ opened
    <3>1. queue_clip(<<>>, 0, dur, gap)
      BY <2>1 DEF PlayRebuild
    <3>2. allFed' \in BOOLEAN /\ announceIdle' \in BOOLEAN
      BY <1>2, <3>1, QueueClipType
    <3>3. queue' \in Seq(Clip) /\ Len(queue') = Len(<<>>) + 1
      BY <1>2, <3>1, QueueClipType
    <3>4. Len(queue') <= MAX_QUEUE
      BY <1>2, <3>3, Sizes
    <3>5. fedEnd' \in Nat /\ accepted' \in Nat
      BY <1>2, <3>1, QueueClipType
    <3> QED BY <3>2, <3>3, <3>4, <3>5
  <2>2. CASE ~(built = "up" /\ opened)
    <3>1. queue' = <<>> /\ fedEnd' = 0 /\ allFed' = TRUE /\ UNCHANGED <<announceIdle, accepted>>
      BY <2>2 DEF PlayRebuild
    <3>2. allFed' \in BOOLEAN /\ announceIdle' \in BOOLEAN
      BY <3>1 DEF TypeOK, TypeFlags
    <3>3. queue' \in Seq(Clip) /\ Len(queue') <= MAX_QUEUE /\ fedEnd' \in Nat /\ accepted' \in Nat
      BY <1>2, <3>1, Sizes
    <3> QED BY <3>2, <3>3
  <2> QED BY <2>1, <2>2
<1>4. TypeLoop'
  BY DEF PlayRebuild, loopVars, TypeOK, TypeLoop
<1>5. TypeOut'
  BY <1>1, Sizes, Inputs DEF PlayRebuild, TypeOK, TypeOut
<1>6. TypeClips'
  BY <1>3, Sizes, Inputs DEF PlayRebuild, Command, loopVars, TypeOK, TypeClips
<1>7. TypeClock'
  BY Sizes, Inputs DEF PlayRebuild, FrozenAtBuild, probeVars, extVars, TypeOK, TypeClock
<1>8. TypeFlags'
  BY <1>3 DEF PlayRebuild, extVars, TypeOK, TypeFlags
<1> QED BY <1>4, <1>5, <1>6, <1>7, <1>8 DEF TypeOK

\* A play on the running pipeline keeps every variable in its range.
LEMMA TypePlayAppend ==
  ASSUME TypeOK, NEW dur \in Durations, NEW gap \in Gaps, NEW rate \in Rates,
         PlayAppend(dur, gap, rate)
  PROVE  TypeOK'
<1>1. queue \in Seq(Clip) /\ accepted \in Nat /\ Len(queue) \in Nat
  BY LenProperties DEF TypeOK, TypeClips
<1>2. NextStart \in Nat
  BY AudibleIsNat DEF NextStart, Max2, TypeOK, TypeClips
<1>3. queue_clip(queue, NextStart, dur, gap)
  BY DEF PlayAppend
<1>4. allFed' \in BOOLEAN /\ announceIdle' \in BOOLEAN
  BY <1>1, <1>2, <1>3, QueueClipType
<1>5. queue' \in Seq(Clip) /\ Len(queue') = Len(queue) + 1
  BY <1>1, <1>2, <1>3, QueueClipType
<1>6. fedEnd' \in Nat /\ accepted' \in Nat
  BY <1>1, <1>2, <1>3, QueueClipType
<1>7. TypeLoop'
  BY DEF PlayAppend, loopVars, TypeOK, TypeLoop
<1>8. TypeOut'
  BY DEF PlayAppend, outVars, TypeOK, TypeOut
<1>9. TypeClips'
  BY <1>1, <1>5, <1>6, Sizes DEF PlayAppend, Command, loopVars, TypeOK, TypeClips
<1>10. TypeClock'
  BY DEF PlayAppend, clockVars, probeVars, extVars, TypeOK, TypeClock
<1>11. TypeFlags'
  BY <1>4 DEF PlayAppend, outVars, clockVars, extVars, TypeOK, TypeFlags
<1> QED BY <1>7, <1>8, <1>9, <1>10, <1>11 DEF TypeOK

\* pause, resume, stop, flush and release keep the types.
LEMMA TypeTransport ==
  ASSUME TypeOK, Pause \/ ResumeClips \/ ResumeLegacy \/ Stop \/ Release \/ \E
      built \in BuildResults : Flush(built)
  PROVE  TypeOK'
<1>1. ASSUME Pause
      PROVE  TypeOK'
  <2>a. AudibleMs \in Nat
    BY AudibleIsNat DEF TypeOK
  <2>n. TypeNumbers'
    BY <1>1, <2>a DEF Pause, PausePosition, loopVars, outVars, clipVars,
        extVars, probeVars, TypeOK, TypeNumbers, TypeLoop, TypeOut, TypeClips,
        TypeClock
  <2>f. TypeFlags'
    BY <1>1 DEF Pause, PausePosition, loopVars, outVars, clipVars, extVars,
        probeVars, TypeOK, TypeFlags
  <2> QED BY <2>n, <2>f DEF TypeOK, TypeNumbers
<1>2. ASSUME ResumeClips
      PROVE  TypeOK'
  <2>n. TypeNumbers'
    BY <1>2 DEF ResumeClips, ResumeBase, loopVars, outVars, clipVars, extVars,
        probeVars, TypeOK, TypeNumbers, TypeLoop, TypeOut, TypeClips,
        TypeClock
  <2>f. TypeFlags'
    BY <1>2 DEF ResumeClips, ResumeBase, loopVars, outVars, clipVars, extVars,
        probeVars, TypeOK, TypeFlags
  <2> QED BY <2>n, <2>f DEF TypeOK, TypeNumbers
<1>3. ASSUME ResumeLegacy
      PROVE  TypeOK'
  <2>n. TypeNumbers'
    BY <1>3 DEF ResumeLegacy, loopVars, outVars, clipVars, extVars, probeVars,
        TypeOK, TypeNumbers, TypeLoop, TypeOut, TypeClips, TypeClock
  <2>f. TypeFlags'
    BY <1>3 DEF ResumeLegacy, loopVars, outVars, clipVars, extVars, probeVars,
        TypeOK, TypeFlags
  <2> QED BY <2>n, <2>f DEF TypeOK, TypeNumbers
<1>4. ASSUME Stop
      PROVE  TypeOK'
  <2>q. <<>> \in Seq(Clip) /\ Len(<<>>) = 0
    BY EmptySeq
  <2>n. TypeNumbers'
    BY <1>4, <2>q, Sizes DEF Stop, Command, drop_queue, loopVars, outVars,
        extVars, clockVars, probeVars, TypeOK, TypeNumbers, TypeLoop, TypeOut,
        TypeClips, TypeClock
  <2>f. TypeFlags'
    BY <1>4 DEF Stop, Command, drop_queue, loopVars, outVars, extVars,
        clockVars, probeVars, TypeOK, TypeFlags
  <2> QED BY <2>n, <2>f DEF TypeOK, TypeNumbers
<1>5. ASSUME Release
      PROVE  TypeOK'
  <2>q. <<>> \in Seq(Clip) /\ Len(<<>>) = 0
    BY EmptySeq
  <2>n. TypeNumbers'
    BY <1>5, <2>q, Sizes DEF Release, Command, drop_queue, loopVars,
        probeVars, TypeOK, TypeNumbers, TypeLoop, TypeOut, TypeClips,
        TypeClock
  <2>f. TypeFlags'
    BY <1>5 DEF Release, Command, drop_queue, loopVars, probeVars, TypeOK,
        TypeFlags
  <2> QED BY <2>n, <2>f DEF TypeOK, TypeNumbers
<1>6. ASSUME NEW built \in BuildResults, Flush(built)
      PROVE  TypeOK'
  <2>b. built \in {"none", "up", "failed"}
    BY DEF BuildResults
  <2>q. <<>> \in Seq(Clip) /\ Len(<<>>) = 0
    BY EmptySeq
  <2>c. queue' = <<>> /\ feedIdx' = -1 /\ gapLeft' = 0 /\ fedEnd' \in {0, fedEnd}
    BY <1>6 DEF Flush, Rebuild, drop_queue
  <2>n1. TypeLoop'
    BY <1>6, <2>b, <2>q, Sizes DEF Flush, Command, Rebuild, drop_queue,
        FrozenAtBuild, loopVars, probeVars, TypeOK, TypeLoop
  <2>n2. TypeOut'
    BY <1>6, <2>b, <2>q, Sizes DEF Flush, Command, Rebuild, drop_queue,
        FrozenAtBuild, loopVars, probeVars, TypeOK, TypeLoop, TypeOut
  <2>n3. TypeClips'
    BY <1>6, <2>c, <2>q, Sizes DEF Flush, Command, loopVars, TypeOK, TypeLoop, TypeClips
  <2>n4. TypeClock'
    BY <1>6, <2>b, <2>q, Sizes DEF Flush, Command, Rebuild, drop_queue,
        FrozenAtBuild, loopVars, probeVars, TypeOK, TypeLoop, TypeClock
  <2>n. TypeNumbers'
    BY <2>n1, <2>n2, <2>n3, <2>n4 DEF TypeNumbers
  <2>f. TypeFlags'
    BY <1>6 DEF Flush, Command, Rebuild, drop_queue, FrozenAtBuild, loopVars,
        probeVars, TypeOK, TypeFlags
  <2> QED BY <2>n, <2>f DEF TypeOK, TypeNumbers
<1> QED BY <1>1, <1>2, <1>3, <1>4, <1>5, <1>6

\* The external-stream commands keep the types.
LEMMA TypeExternal ==
  ASSUME TypeOK, ExternalRefused \/ \E built \in BuildResults, pos \in
      Positions : ResumeAt(pos, built) \/ \E total \in Totals : Seek(pos,
      total, built) \/ \E rate \in Rates, dec \in BOOLEAN : External(rate,
      pos, total, dec, built)
  PROVE  TypeOK'
<1>1. ASSUME ExternalRefused
      PROVE  TypeOK'
  <2>q. <<>> \in Seq(Clip) /\ Len(<<>>) = 0
    BY EmptySeq
  <2>n. TypeNumbers'
    BY <1>1, <2>q, Sizes DEF ExternalRefused, Command, drop_queue, loopVars,
        outVars, clockVars, probeVars, TypeOK, TypeNumbers, TypeLoop, TypeOut,
        TypeClips, TypeClock
  <2>f. TypeFlags'
    BY <1>1 DEF ExternalRefused, Command, drop_queue, loopVars, outVars,
        clockVars, probeVars, TypeOK, TypeFlags
  <2> QED BY <2>n, <2>f DEF TypeOK, TypeNumbers
<1>2. ASSUME NEW rate \in Rates, NEW pos \in Positions, NEW total \in Totals,
    NEW dec \in BOOLEAN, NEW built \in BuildResults, External(rate, pos,
    total, dec, built)
      PROVE  TypeOK'
  <2>b. built \in {"none", "up", "failed"}
    BY DEF BuildResults
  <2>q. <<>> \in Seq(Clip) /\ Len(<<>>) = 0
    BY EmptySeq
  <2>n. TypeNumbers'
    BY <1>2, <2>b, <2>q, Sizes, Inputs DEF External, Command, stream_epoch,
        Rebuild, drop_queue, EpochFrozen, EpochLatch, FrozenAtBuild, loopVars,
        probeVars, TypeOK, TypeNumbers, TypeLoop, TypeOut, TypeClips,
        TypeClock
  <2>f. TypeFlags'
    BY <1>2 DEF External, Command, stream_epoch, Rebuild, drop_queue,
        EpochFrozen, EpochLatch, FrozenAtBuild, loopVars, probeVars, TypeOK,
        TypeFlags
  <2> QED BY <2>n, <2>f DEF TypeOK, TypeNumbers
<1>3. ASSUME NEW pos \in Positions, NEW total \in Totals, NEW built \in
    BuildResults, Seek(pos, total, built)
      PROVE  TypeOK'
  <2>b. built \in {"none", "up", "failed"}
    BY DEF BuildResults
  <2>q. <<>> \in Seq(Clip) /\ Len(<<>>) = 0
    BY EmptySeq
  <2>n. TypeNumbers'
    BY <1>3, <2>b, <2>q, Sizes, Inputs DEF Seek, Command, stream_epoch,
        Rebuild, drop_queue, EpochFrozen, EpochLatch, FrozenAtBuild, loopVars,
        probeVars, TypeOK, TypeNumbers, TypeLoop, TypeOut, TypeClips,
        TypeClock
  <2>f. TypeFlags'
    BY <1>3 DEF Seek, Command, stream_epoch, Rebuild, drop_queue, EpochFrozen,
        EpochLatch, FrozenAtBuild, loopVars, probeVars, TypeOK, TypeFlags
  <2> QED BY <2>n, <2>f DEF TypeOK, TypeNumbers
<1>4. ASSUME NEW pos \in Positions, NEW built \in BuildResults, ResumeAt(pos,
    built)
      PROVE  TypeOK'
  <2>b. built \in {"none", "up", "failed"}
    BY DEF BuildResults
  <2>q. <<>> \in Seq(Clip) /\ Len(<<>>) = 0
    BY EmptySeq
  <2>n. TypeNumbers'
    BY <1>4, <2>b, <2>q, Sizes, Inputs DEF ResumeAt, Command, stream_epoch,
        Rebuild, drop_queue, EpochFrozen, EpochLatch, FrozenAtBuild, loopVars,
        probeVars, TypeOK, TypeNumbers, TypeLoop, TypeOut, TypeClips,
        TypeClock
  <2>f. TypeFlags'
    BY <1>4 DEF ResumeAt, Command, stream_epoch, Rebuild, drop_queue,
        EpochFrozen, EpochLatch, FrozenAtBuild, loopVars, probeVars, TypeOK,
        TypeFlags
  <2> QED BY <2>n, <2>f DEF TypeOK, TypeNumbers
<1> QED BY <1>1, <1>2, <1>3, <1>4

\* Time, the sink, the outside writer and bus errors keep the types.
LEMMA TypeEnvironment ==
  ASSUME TypeOK, Elapse \/ Sink \/ ExtWrite \/ Bus
  PROVE  TypeOK'
<1>1. ASSUME Elapse
      PROVE  TypeOK'
  <2>n. TypeNumbers'
    BY <1>1 DEF Elapse, loopVars, outVars, clipVars, extVars, clockVars,
        probeVars, TypeOK, TypeNumbers, TypeLoop, TypeOut, TypeClips,
        TypeClock
  <2>f. TypeFlags'
    BY <1>1 DEF Elapse, loopVars, outVars, clipVars, extVars, clockVars,
        probeVars, TypeOK, TypeFlags
  <2> QED BY <2>n, <2>f DEF TypeOK, TypeNumbers
<1>2. ASSUME NEW n \in 1..PipeCap, Accept(n)
      PROVE  TypeOK'
  <2>n. TypeNumbers'
    BY <1>2, Sizes DEF Accept, clipVars, extVars, clockVars, loopVars, TypeOK,
        TypeNumbers, TypeLoop, TypeOut, TypeClips, TypeClock
  <2>f. TypeFlags'
    BY <1>2 DEF Accept, clipVars, extVars, clockVars, loopVars, TypeOK,
        TypeFlags
  <2> QED BY <2>n, <2>f DEF TypeOK, TypeNumbers
<1>3. ASSUME ExtWrite
      PROVE  TypeOK'
  <2>n. TypeNumbers'
    BY <1>3, Sizes DEF ExtWrite, clipVars, extVars, clockVars, loopVars,
        probeVars, TypeOK, TypeNumbers, TypeLoop, TypeOut, TypeClips,
        TypeClock
  <2>f. TypeFlags'
    BY <1>3 DEF ExtWrite, clipVars, extVars, clockVars, loopVars, probeVars,
        TypeOK, TypeFlags
  <2> QED BY <2>n, <2>f DEF TypeOK, TypeNumbers
<1>4. ASSUME BusGiveUp
      PROVE  TypeOK'
  <2>n. TypeNumbers'
    BY <1>4 DEF BusGiveUp, clipVars, extVars, clockVars, probeVars, TypeOK,
        TypeNumbers, TypeLoop, TypeOut, TypeClips, TypeClock
  <2>f. TypeFlags'
    BY <1>4 DEF BusGiveUp, clipVars, extVars, clockVars, probeVars, TypeOK,
        TypeFlags
  <2> QED BY <2>n, <2>f DEF TypeOK, TypeNumbers
<1>5. ASSUME NEW built \in BuildResults, BusRebuild(built)
      PROVE  TypeOK'
  <2>b. built \in {"none", "up", "failed"}
    BY DEF BuildResults
  <2>q. <<>> \in Seq(Clip) /\ Len(<<>>) = 0
    BY EmptySeq
  <2>n. TypeNumbers'
    BY <1>5, <2>b, <2>q, Sizes DEF BusRebuild, Rebuild, drop_queue,
        FrozenAtBuild, extVars, probeVars, TypeOK, TypeNumbers, TypeLoop,
        TypeOut, TypeClips, TypeClock
  <2>f. TypeFlags'
    BY <1>5 DEF BusRebuild, Rebuild, drop_queue, FrozenAtBuild, extVars,
        probeVars, TypeOK, TypeFlags
  <2> QED BY <2>n, <2>f DEF TypeOK, TypeNumbers
<1> QED BY <1>1, <1>2, <1>3, <1>4, <1>5 DEF Sink, Bus

\* Every pass of feed_tick but the one that writes audio keeps the types.
LEMMA TypeFeed ==
  ASSUME TypeOK, FeedKeepalive \/ FeedStart \/ FeedNothing \/ FeedGap \/
      FeedQueueEnd \/ FeedClipEnd \/ FeedBudgetSpent \/ \E n \in 1..FEED_CHUNK
      : FeedDecoded(n)
  PROVE  TypeOK'
<1>1. ASSUME NEW n \in 1..FEED_CHUNK, FeedDecoded(n)
      PROVE  TypeOK'
  <2>w. Fits(n) \in Nat /\ backlog + Fits(n) \in 0..PipeCap
    BY FitsBounds DEF TypeOK
  <2>n. TypeNumbers'
    BY <1>1, <2>w DEF FeedDecoded, Wrote, clipVars, extVars, outNoFeed, clockNoFeed,
        probeVars, TypeOK, TypeNumbers, TypeLoop, TypeOut, TypeClips,
        TypeClock
  <2>f. TypeFlags'
    BY <1>1 DEF FeedDecoded, Wrote, clipVars, extVars, outNoFeed, clockNoFeed,
        probeVars, TypeOK, TypeFlags
  <2> QED BY <2>n, <2>f DEF TypeOK, TypeNumbers
<1>2. ASSUME FeedKeepalive
      PROVE  TypeOK'
  <2>w. Fits(SILENCE_CHUNK) \in Nat /\ backlog + Fits(SILENCE_CHUNK) \in 0..PipeCap
    BY FitsBounds, Sizes DEF TypeOK
  <2>n. TypeNumbers'
    BY <1>2, <2>w, Sizes DEF FeedKeepalive, Wrote, clipVars, extVars,
        outNoFeed, clockNoFeed, probeVars, TypeOK, TypeNumbers, TypeLoop,
        TypeOut, TypeClips, TypeClock
  <2>f. TypeFlags'
    BY <1>2 DEF FeedKeepalive, Wrote, clipVars, extVars, outNoFeed,
        clockNoFeed, probeVars, TypeOK, TypeFlags
  <2> QED BY <2>n, <2>f DEF TypeOK, TypeNumbers
<1>3. ASSUME FeedStart
      PROVE  TypeOK'
  <2>n. TypeNumbers'
    BY <1>3, Sizes DEF FeedStart, Max2, outVars, extVars, clockVars,
        probeVars, TypeOK, TypeNumbers, TypeLoop, TypeOut, TypeClips,
        TypeClock
  <2>f. TypeFlags'
    BY <1>3 DEF FeedStart, Max2, outVars, extVars, clockVars, probeVars,
        TypeOK, TypeFlags
  <2> QED BY <2>n, <2>f DEF TypeOK, TypeNumbers
<1>4. ASSUME FeedNothing
      PROVE  TypeOK'
  <2>n. TypeNumbers'
    BY <1>4 DEF FeedNothing, outVars, clipVars, extVars, clockVars, probeVars,
        TypeOK, TypeNumbers, TypeLoop, TypeOut, TypeClips, TypeClock
  <2>f. TypeFlags'
    BY <1>4 DEF FeedNothing, outVars, clipVars, extVars, clockVars, probeVars,
        TypeOK, TypeFlags
  <2> QED BY <2>n, <2>f DEF TypeOK, TypeNumbers
<1>5. ASSUME FeedGap
      PROVE  TypeOK'
  <2> DEFINE want == Min2(gapLeft, Min2(budget, SILENCE_CHUNK))
  <2>w. want \in Nat /\ want <= gapLeft /\ want <= budget
    BY Sizes DEF TypeOK, TypeLoop, TypeClips, Min2
  <2>v. Fits(want) \in 0..want /\ backlog + Fits(want) \in 0..PipeCap
    BY <2>w, FitsBounds DEF TypeOK
  <2>n. TypeNumbers'
    BY <1>5, <2>w, <2>v DEF FeedGap, Wrote, feedRest, outNoFeed, clockNoFeed,
        extVars, probeVars, TypeOK, TypeNumbers, TypeLoop, TypeOut, TypeClips,
        TypeClock
  <2>f. TypeFlags'
    BY <1>5 DEF FeedGap, Wrote, feedRest, outNoFeed, clockNoFeed, extVars,
        probeVars, TypeOK, TypeFlags
  <2> QED BY <2>n, <2>f DEF TypeOK, TypeNumbers
<1>6. ASSUME FeedQueueEnd
      PROVE  TypeOK'
  <2>n. TypeNumbers'
    BY <1>6 DEF FeedQueueEnd, feedRest, outNoFeed, clockNoFeed, extVars,
        probeVars, TypeOK, TypeNumbers, TypeLoop, TypeOut, TypeClips,
        TypeClock
  <2>f. TypeFlags'
    BY <1>6 DEF FeedQueueEnd, feedRest, outNoFeed, clockNoFeed, extVars,
        probeVars, TypeOK, TypeFlags
  <2> QED BY <2>n, <2>f DEF TypeOK, TypeNumbers
<1>7. ASSUME FeedClipEnd
      PROVE  TypeOK'
  <2>a. queue \in Seq(Clip) /\ Len(queue) \in Nat /\ feedIdx + 1 \in 1..Len(queue)
    BY <1>7, LenProperties DEF FeedClipEnd, TypeOK, TypeClips
  <2>c. queue[feedIdx + 1] \in Clip
    BY <2>a, ElementOfSeq
  <2>g. queue[feedIdx + 1].gap \in Nat
    BY <2>c DEF Clip
  <2>n. TypeNumbers'
    BY <1>7, <2>g DEF FeedClipEnd, feedRest, outNoFeed, clockNoFeed, extVars,
        probeVars, TypeOK, TypeNumbers, TypeLoop, TypeOut, TypeClips,
        TypeClock
  <2>f. TypeFlags'
    BY <1>7 DEF FeedClipEnd, feedRest, outNoFeed, clockNoFeed, extVars,
        probeVars, TypeOK, TypeFlags
  <2> QED BY <2>n, <2>f DEF TypeOK, TypeNumbers
<1>8. ASSUME FeedBudgetSpent
      PROVE  TypeOK'
  <2>n. TypeNumbers'
    BY <1>8 DEF FeedBudgetSpent, feedRest, outNoFeed, clockNoFeed, extVars,
        probeVars, TypeOK, TypeNumbers, TypeLoop, TypeOut, TypeClips,
        TypeClock
  <2>f. TypeFlags'
    BY <1>8 DEF FeedBudgetSpent, feedRest, outNoFeed, clockNoFeed, extVars,
        probeVars, TypeOK, TypeFlags
  <2> QED BY <2>n, <2>f DEF TypeOK, TypeNumbers
<1> QED BY <1>1, <1>2, <1>3, <1>4, <1>5, <1>6, <1>7, <1>8

\* A pass of the feed loop that writes audio keeps the types.
LEMMA TypeFeedClip ==
  ASSUME TypeOK, FeedClip
  PROVE  TypeOK'
<1> DEFINE clip == queue[feedIdx + 1]
           n    == Min2(clip.rem, budget)
           w    == Fits(n)
<1>1. feedIdx + 1 \in 1..Len(queue) /\ clip \in Clip
  BY ElementOfSeq, LenProperties DEF TypeOK, TypeClips, FeedClip
<1>2. n \in Nat /\ n <= clip.rem /\ n <= budget
  BY <1>1 DEF TypeOK, TypeLoop, Clip, Min2
<1>3. w \in 0..n /\ backlog + w \in 0..PipeCap
  BY <1>2, FitsBounds DEF TypeOK
<1>4. Taken(clip, w) \in Clip
  BY <1>1, <1>2, <1>3 DEF Taken, Clip
<1>5. queue' = [queue EXCEPT ![feedIdx + 1] = Taken(clip, w)]
  BY DEF FeedClip
<1>6. queue' \in Seq(Clip) /\ Len(queue') = Len(queue)
  BY <1>1, <1>4, <1>5, ExceptSeq DEF TypeOK, TypeClips
<1>7. /\ backlog' = backlog + w /\ fifoWritten' = fifoWritten + w
      /\ budget' = IF w < n THEN 0 ELSE budget - w
      /\ pc' = IF w < n THEN "book" ELSE "feed"
  BY DEF FeedClip, Wrote
<1> HIDE DEF n, w
<1>8. TypeNumbers'
  BY <1>1, <1>2, <1>3, <1>6, <1>7
  DEF FeedClip, feedRest, outNoFeed, clockNoFeed, extVars, probeVars,
      TypeOK, TypeNumbers, TypeLoop, TypeOut, TypeClips, TypeClock
<1>9. TypeFlags'
  BY DEF FeedClip, feedRest, outNoFeed, clockNoFeed, extVars, TypeOK, TypeFlags
<1> QED BY <1>8, <1>9 DEF TypeOK, TypeNumbers

\* The bookkeeping tick keeps the types.
LEMMA TypeBookkeep ==
  ASSUME TypeOK, Bookkeep
  PROVE  TypeOK'
<1>1. PICK k \in 0..Len(queue) :
        /\ queue' = SubSeq(queue, k + 1, Len(queue))
        /\ doneCount' = doneCount + k
        /\ feedIdx' = IF feedIdx > 0 THEN Max2(feedIdx - k, 0) ELSE feedIdx
  BY DEF Bookkeep, complete_clips
<1>2. queue \in Seq(Clip) /\ Len(queue) \in Nat
  BY LenProperties DEF TypeOK, TypeClips
<1>3. \A i \in k + 1 .. Len(queue) : queue[i] \in Clip
  BY <1>2, ElementOfSeq
<1>4. queue' \in Seq(Clip) /\ Len(queue') <= Len(queue)
  BY <1>1, <1>2, <1>3, SubSeqProperties
<1>5. pc' \in {"recv", "bus"} /\ budget' = budget
  BY DEF Bookkeep
<1>6. TypeLoop'
  BY <1>5 DEF TypeOK, TypeLoop
<1>7. TypeOut'
  BY DEF Bookkeep, refresh_clock, Max2, TypeOK, TypeOut, TypeClock
<1>8. TypeClips'
  BY <1>1, <1>2, <1>4, <1>5, Sizes DEF Bookkeep, Max2, TypeOK, TypeClips
<1>9. TypeClock'
  BY DEF Bookkeep, refresh_clock, probeVars, TypeOK, TypeClock
<1>10. TypeFlags'
  BY DEF Bookkeep, refresh_clock, TypeOK, TypeFlags
<1> QED BY <1>6, <1>7, <1>8, <1>9, <1>10 DEF TypeOK

\* Every step keeps the types.
LEMMA TypeStep == TypeOK /\ [Next]_vars => TypeOK'
<1> SUFFICES ASSUME TypeOK, [Next]_vars PROVE TypeOK'
  OBVIOUS
<1>1. CASE Client
  BY <1>1, TypePlayLazyBuild, TypePlayRebuild, TypePlayAppend, TypeTransport, TypeExternal
  DEF Client
<1>2. CASE Feed
  BY <1>2, TypeFeed, TypeFeedClip DEF Feed
<1>3. CASE Bookkeep
  BY <1>3, TypeBookkeep
<1>4. CASE Bus \/ Elapse \/ Sink \/ ExtWrite
  BY <1>4, TypeEnvironment
<1>5. CASE UNCHANGED vars
  <2>n. TypeNumbers'
    BY <1>5 DEF vars, loopVars, outVars, clipVars, extVars, clockVars, probeVars,
        TypeOK, TypeNumbers, TypeLoop, TypeOut, TypeClips, TypeClock
  <2>f. TypeFlags'
    BY <1>5 DEF vars, outVars, clipVars, extVars, clockVars, TypeOK, TypeFlags
  <2> QED BY <2>n, <2>f DEF TypeOK, TypeNumbers
<1> QED BY <1>1, <1>2, <1>3, <1>4, <1>5 DEF Next

\* Whatever the constants, every variable of the daemon stays in its range:
\* the queue never exceeds MAX_QUEUE, the fifo never overflows, and no clock
\* or counter goes negative.
THEOREM TypeCorrect == Spec => []TypeOK
<1>1. Init => TypeOK
  BY TypeInit
<1>2. TypeOK /\ [Next]_vars => TypeOK'
  BY TypeStep
<1> QED BY <1>1, <1>2, PTL DEF Spec

-----------------------------------------------------------------------------
(* Spans.  SpansOrdered as a fact about a queue, the end of what was handed *)
(* out and the number of plays accepted, and how the handlers preserve it.  *)

SpansOf(q, f, n) ==
  /\ \A i \in 1..Len(q) : /\ q[i].end = q[i].start + q[i].dur + q[i].gap
                          /\ q[i].start < q[i].end
                          /\ q[i].id < n
  /\ \A i, j \in 1..Len(q) : i < j => q[i].end <= q[j].start
  /\ q # <<>> => q[Len(q)].end = f

\* All spans of q end after pos.
UnheardAt(q, pos) == \A i \in 1..Len(q) : pos < q[i].end

\* SpansOrdered in terms of the constant-level SpansOf.
LEMMA SpansIsSpansOf == SpansOrdered <=> SpansOf(queue, fedEnd, accepted)
BY DEF SpansOrdered, SpansOf

\* An empty queue is ordered and unheard at every position.
LEMMA EmptySpans == ASSUME NEW f, NEW n, NEW pos PROVE SpansOf(<<>>, f, n) /\ UnheardAt(<<>>, pos)
BY EmptySeq DEF SpansOf, UnheardAt

\* A non-empty queue has a last clip.
LEMMA NonEmpty ==
  ASSUME NEW q \in Seq(Clip), q # <<>>
  PROVE  Len(q) \in 1..Len(q) /\ q[Len(q)] \in Clip
<1>1. Len(q) \in Nat \ {0}
  BY EmptySeq
<1> QED BY <1>1, ElementOfSeq

\* In an ordered queue no clip ends after the last one.
LEMMA LastEndsLast ==
  ASSUME NEW q \in Seq(Clip), NEW f \in Nat, NEW n \in Nat, SpansOf(q, f, n),
         NEW i \in 1..Len(q)
  PROVE  q[i].end <= f
<1>1. Len(q) \in Nat /\ \A j \in 1..Len(q) : q[j] \in Clip
  BY LenProperties, ElementOfSeq
<1>2. q # <<>> /\ Len(q) \in 1..Len(q)
  BY <1>1, EmptySeq
<1>3. q[Len(q)].end = f
  BY <1>2 DEF SpansOf
<1>4. CASE i = Len(q)
  BY <1>3, <1>4
<1>5. CASE i < Len(q)
  <2>1. q[i].end <= q[Len(q)].start /\ q[Len(q)].start < q[Len(q)].end
    BY <1>2, <1>5 DEF SpansOf
  <2>2. q[i].end \in Nat /\ q[Len(q)].start \in Nat /\ q[Len(q)].end \in Nat
    BY <1>1, <1>2 DEF Clip
  <2> QED BY <1>3, <2>1, <2>2
<1> QED BY <1>1, <1>4, <1>5

\* Appending a clip that starts at or after everything handed out, with the
\* next id, keeps the order.
LEMMA AppendSpans ==
  ASSUME NEW q \in Seq(Clip), NEW f \in Nat, NEW n \in Nat, SpansOf(q, f, n),
         NEW c \in Clip, f <= c.start, c.start < c.end, c.id = n,
         c.end = c.start + c.dur + c.gap
  PROVE  SpansOf(Append(q, c), c.end, n + 1)
<1> DEFINE r == Append(q, c)
<1>1. /\ r \in Seq(Clip) /\ r # <<>> /\ Len(r) = Len(q) + 1 /\ Len(q) \in Nat
      /\ \A i \in 1..Len(q) : r[i] = q[i]
      /\ r[Len(q) + 1] = c
  BY AppendProperties, LenProperties
<1>2. \A i \in 1..Len(q) : q[i] \in Clip /\ q[i].end <= f
  BY LastEndsLast, ElementOfSeq
<1> HIDE DEF r
<1>3. ASSUME NEW i \in 1..Len(r)
      PROVE  /\ r[i].end = r[i].start + r[i].dur + r[i].gap
             /\ r[i].start < r[i].end
             /\ r[i].id < n + 1
  <2>1. CASE i \in 1..Len(q)
    <3>1. r[i] = q[i] /\ q[i].id \in Nat
      BY <1>1, <1>2, <2>1 DEF Clip
    <3> QED BY <2>1, <3>1 DEF SpansOf
  <2>2. CASE i = Len(q) + 1
    <3>1. r[i] = c
      BY <1>1, <2>2
    <3> QED BY <3>1
  <2> QED BY <1>1, <2>1, <2>2
<1>4. ASSUME NEW i \in 1..Len(r), NEW j \in 1..Len(r), i < j
      PROVE  r[i].end <= r[j].start
  <2>1. CASE j \in 1..Len(q)
    <3>1. i \in 1..Len(q) /\ r[i] = q[i] /\ r[j] = q[j]
      BY <1>1, <1>4, <2>1
    <3> QED BY <1>4, <2>1, <3>1 DEF SpansOf
  <2>2. CASE j = Len(q) + 1
    <3>1. i \in 1..Len(q) /\ r[i] = q[i] /\ r[j] = c
      BY <1>1, <1>4, <2>2
    <3>2. q[i].end \in Nat /\ c.start \in Nat /\ q[i].end <= f
      BY <1>2, <3>1 DEF Clip
    <3> QED BY <3>1, <3>2
  <2> QED BY <1>1, <2>1, <2>2
<1>5. r[Len(r)].end = c.end
  BY <1>1
<1> QED BY <1>3, <1>4, <1>5 DEF SpansOf, r

\* Dropping clips from the front keeps the order.
LEMMA SuffixSpans ==
  ASSUME NEW q \in Seq(Clip), NEW f \in Nat, NEW n \in Nat, SpansOf(q, f, n),
         NEW k \in 0..Len(q)
  PROVE  SpansOf(SubSeq(q, k + 1, Len(q)), f, n)
<1> DEFINE r == SubSeq(q, k + 1, Len(q))
<1>1. Len(q) \in Nat /\ \A i \in k + 1 .. Len(q) : q[i] \in Clip
  BY LenProperties, ElementOfSeq
<1>2. /\ r \in Seq(Clip)
      /\ Len(r) = IF k + 1 <= Len(q) THEN Len(q) - (k + 1) + 1 ELSE 0
      /\ \A i \in 1 .. Len(q) - (k + 1) + 1 : r[i] = q[(k + 1) + i - 1]
  BY <1>1, SubSeqProperties
<1> HIDE DEF r
<1>3. Len(r) = Len(q) - k /\ \A i \in 1..Len(r) : k + i \in 1..Len(q) /\ r[i] = q[k + i]
  BY <1>1, <1>2
<1>4. \A i \in 1..Len(r) : /\ r[i].end = r[i].start + r[i].dur + r[i].gap
                           /\ r[i].start < r[i].end
                           /\ r[i].id < n
  BY <1>3 DEF SpansOf
<1>5. ASSUME NEW i \in 1..Len(r), NEW j \in 1..Len(r), i < j
      PROVE  r[i].end <= r[j].start
  <2>1. k + i \in 1..Len(q) /\ k + j \in 1..Len(q) /\ k + i < k + j
    BY <1>3, <1>5
  <2>2. q[k + i].end <= q[k + j].start
    BY <2>1 DEF SpansOf
  <2> QED BY <1>3, <2>2
<1>6. r # <<>> => r[Len(r)].end = f
  <2> SUFFICES ASSUME r # <<>> PROVE r[Len(r)].end = f
    OBVIOUS
  <2>1. Len(r) \in 1..Len(r)
    BY <1>2, NonEmpty
  <2>2. r[Len(r)] = q[k + Len(r)] /\ k + Len(r) = Len(q)
    BY <1>1, <1>3, <2>1
  <2>3. q # <<>>
    BY <1>1, <1>3, <2>1, EmptySeq
  <2> QED BY <2>2, <2>3 DEF SpansOf
<1> QED BY <1>4, <1>5, <1>6 DEF SpansOf, r

\* Writing audio of a clip leaves its span alone.
LEMMA TakenSpans ==
  ASSUME NEW q \in Seq(Clip), NEW f \in Nat, NEW n \in Nat, SpansOf(q, f, n),
         NEW k \in 1..Len(q), NEW w \in 0..q[k].rem, NEW pos, UnheardAt(q, pos)
  PROVE  LET r == [q EXCEPT ![k] = Taken(q[k], w)]
         IN  SpansOf(r, f, n) /\ UnheardAt(r, pos)
<1> DEFINE r == [q EXCEPT ![k] = Taken(q[k], w)]
<1>1. q[k] \in Clip /\ Len(q) \in Nat
  BY ElementOfSeq, LenProperties
<1>2. Taken(q[k], w) \in Clip
  <2>1. q[k].rem - w \in Nat
    <3>1. q[k].rem \in Nat
      BY <1>1 DEF Clip
    <3> QED BY <3>1
  <2>2. /\ q[k].id \in Nat /\ q[k].dur \in Nat /\ q[k].gap \in Nat
        /\ q[k].start \in Nat /\ q[k].end \in Nat
    BY <1>1 DEF Clip
  <2> QED BY <2>1, <2>2 DEF Taken, Clip
<1>3. /\ r \in Seq(Clip) /\ Len(r) = Len(q)
      /\ \A j \in 1..Len(q) : r[j] = IF j = k THEN Taken(q[k], w) ELSE q[j]
  BY <1>2, ExceptSeq
<1> HIDE DEF r
<1>4. \A j \in 1..Len(q) : /\ r[j].id = q[j].id /\ r[j].dur = q[j].dur
                           /\ r[j].gap = q[j].gap /\ r[j].start = q[j].start
                           /\ r[j].end = q[j].end
  BY <1>3 DEF Taken
<1>5. \A j \in 1..Len(r) : /\ r[j].end = r[j].start + r[j].dur + r[j].gap
                           /\ r[j].start < r[j].end
                           /\ r[j].id < n
                           /\ pos < r[j].end
  BY <1>3, <1>4 DEF SpansOf, UnheardAt
<1>6. \A i, j \in 1..Len(r) : i < j => r[i].end <= r[j].start
  BY <1>3, <1>4 DEF SpansOf
<1>7. r[Len(r)].end = f
  <2>1. Len(q) \in 1..Len(q) /\ q # <<>>
    BY <1>1, EmptySeq
  <2> QED BY <1>3, <1>4, <2>1 DEF SpansOf
<1> QED BY <1>5, <1>6, <1>7 DEF SpansOf, UnheardAt, r

-----------------------------------------------------------------------------
(* The queue and the clock move together.                                  *)

SpanInv == SpansOrdered /\ QueueIsUnheard

\* queue_clip keeps the spans ordered, and its clip is unheard when it starts
\* at or after the position.
LEMMA QueueClipSpans ==
  ASSUME NEW q \in Seq(Clip), NEW f \in Nat, SpansOf(q, f, accepted),
         NEW from \in Nat, f <= from, NEW dur \in Durations, NEW gap \in Gaps,
         accepted \in Nat, queue_clip(q, from, dur, gap),
         NEW pos \in Nat, pos <= from, UnheardAt(q, pos)
  PROVE  SpansOf(queue', fedEnd', accepted') /\ UnheardAt(queue', pos)
<1> DEFINE c == [id |-> accepted, dur |-> dur, rem |-> dur, gap |-> gap,
                  start |-> from, end |-> from + dur + gap]
<1>1. dur \in Nat \ {0} /\ gap \in Nat
  BY Inputs
<1>2. c \in Clip
  BY <1>1 DEF Clip
<1>3. f <= c.start /\ c.start < c.end /\ c.id = accepted /\ c.end = c.start + c.dur + c.gap
  BY <1>1
<1>4. queue' = Append(q, c) /\ fedEnd' = c.end /\ accepted' = accepted + 1
  BY DEF queue_clip
<1>5. pos < c.end /\ c.end \in Nat
  BY <1>1
<1> HIDE DEF c
<1>6. SpansOf(queue', fedEnd', accepted')
  BY <1>2, <1>3, <1>4, AppendSpans
<1>7. /\ Len(queue') = Len(q) + 1 /\ Len(q) \in Nat /\ queue'[Len(q) + 1] = c
      /\ \A i \in 1..Len(q) : queue'[i] = q[i]
  BY <1>2, <1>4, AppendProperties, LenProperties
<1>8. UnheardAt(queue', pos)
  <2> SUFFICES ASSUME NEW i \in 1..Len(queue') PROVE pos < queue'[i].end
    BY DEF UnheardAt
  <2>1. CASE i \in 1..Len(q)
    BY <1>7, <2>1 DEF UnheardAt
  <2>2. CASE i = Len(q) + 1
    BY <1>5, <1>7, <2>2
  <2> QED BY <1>7, <2>1, <2>2
<1> QED BY <1>6, <1>8

\* play with no pipeline: the clip starts at fed_end_ms, past every queued end.
LEMMA PlayLazyBuildSpans ==
  ASSUME TypeOK, SpanInv, NEW dur \in Durations, NEW gap \in Gaps,
         NEW rate \in Rates, NEW built \in BuildResults, NEW opened \in BOOLEAN,
         PlayLazyBuild(dur, gap, rate, built, opened)
  PROVE  SpanInv'
<1>1. AudibleMs' = 0
  BY DEF PlayLazyBuild, FrozenAtBuild, AudibleMs
<1>2. /\ queue \in Seq(Clip) /\ fedEnd \in Nat /\ accepted \in Nat
      /\ SpansOf(queue, fedEnd, accepted)
  BY DEF TypeOK, TypeClips, SpanInv, SpansOrdered, SpansOf
<1>3. UnheardAt(queue, 0)
  <2> SUFFICES ASSUME NEW i \in 1..Len(queue) PROVE 0 < queue[i].end
    BY DEF UnheardAt
  <2>1. queue[i] \in Clip /\ queue[i].start < queue[i].end
    BY <1>2, ElementOfSeq DEF SpansOf
  <2> QED BY <2>1 DEF Clip
<1>4. CASE built = "up" /\ opened
  <2>1. queue_clip(queue, fedEnd, dur, gap)
    BY <1>4 DEF PlayLazyBuild
  <2>2. SpansOf(queue', fedEnd', accepted') /\ UnheardAt(queue', 0)
    BY <1>2, <1>3, <2>1, QueueClipSpans
  <2> QED BY <1>1, <2>2 DEF SpanInv, SpansOrdered, SpansOf, QueueIsUnheard, UnheardAt
<1>5. CASE ~(built = "up" /\ opened)
  <2>1. queue' = queue /\ fedEnd' = fedEnd /\ accepted' = accepted
    BY <1>5 DEF PlayLazyBuild
  <2> QED BY <1>1, <1>2, <1>3, <2>1 DEF SpanInv, SpansOrdered, SpansOf, QueueIsUnheard, UnheardAt
<1> QED BY <1>4, <1>5

\* play at another rate: the queue is the new clip or empty.
LEMMA PlayRebuildSpans ==
  ASSUME TypeOK, NEW dur \in Durations, NEW gap \in Gaps,
         NEW rate \in Rates, NEW built \in BuildResults, NEW opened \in BOOLEAN,
         PlayRebuild(dur, gap, rate, built, opened)
  PROVE  SpanInv'
<1>1. AudibleMs' = 0
  BY DEF PlayRebuild, FrozenAtBuild, AudibleMs
<1>2. <<>> \in Seq(Clip) /\ accepted \in Nat /\ 0 \in Nat /\ SpansOf(<<>>, 0, accepted) /\ UnheardAt(<<>>, 0)
  BY EmptySeq, EmptySpans DEF TypeOK, TypeClips
<1>3. CASE built = "up" /\ opened
  <2>1. queue_clip(<<>>, 0, dur, gap)
    BY <1>3 DEF PlayRebuild
  <2>2. 0 \in Nat /\ 0 <= 0
    OBVIOUS
  <2>3. SpansOf(queue', fedEnd', accepted') /\ UnheardAt(queue', 0)
    BY <1>2, <2>1, <2>2, QueueClipSpans, Zenon
  <2> QED BY <1>1, <2>3 DEF SpanInv, SpansOrdered, SpansOf, QueueIsUnheard, UnheardAt
<1>4. CASE ~(built = "up" /\ opened)
  <2>1. queue' = <<>>
    BY <1>4 DEF PlayRebuild
  <2> QED BY <2>1, EmptySpans DEF SpanInv, SpansOrdered, SpansOf, QueueIsUnheard, UnheardAt
<1> QED BY <1>3, <1>4

\* play on the running pipeline: the clip starts past fed_end_ms and the clock.
LEMMA PlayAppendSpans ==
  ASSUME TypeOK, SpanInv, NEW dur \in Durations, NEW gap \in Gaps, NEW rate \in Rates,
         PlayAppend(dur, gap, rate)
  PROVE  SpanInv'
<1>1. AudibleMs' = AudibleMs /\ AudibleMs \in Nat
  BY AudibleIsNat DEF PlayAppend, clockVars, AudibleMs, TypeOK
<1>2. /\ queue \in Seq(Clip) /\ fedEnd \in Nat /\ accepted \in Nat
      /\ SpansOf(queue, fedEnd, accepted) /\ UnheardAt(queue, AudibleMs)
  BY DEF TypeOK, TypeClips, SpanInv, SpansOrdered, SpansOf, QueueIsUnheard, UnheardAt
<1>3. NextStart \in Nat /\ fedEnd <= NextStart /\ AudibleMs <= NextStart
  BY <1>1, <1>2 DEF NextStart, Max2
<1>4. queue_clip(queue, NextStart, dur, gap)
  BY DEF PlayAppend
<1>5. SpansOf(queue', fedEnd', accepted') /\ UnheardAt(queue', AudibleMs)
  BY <1>1, <1>2, <1>3, <1>4, QueueClipSpans
<1> QED BY <1>1, <1>5 DEF SpanInv, SpansOrdered, SpansOf, QueueIsUnheard, UnheardAt

\* A pass of the feed loop that writes audio.
LEMMA FeedClipSpans ==
  ASSUME TypeOK, SpanInv, FeedClip
  PROVE  SpanInv'
<1> DEFINE clip == queue[feedIdx + 1]
           n    == Min2(clip.rem, budget)
           w    == Fits(n)
<1>1. feedIdx + 1 \in 1..Len(queue) /\ clip \in Clip
  BY ElementOfSeq, LenProperties DEF TypeOK, TypeClips, FeedClip
<1>2. n \in Nat /\ n <= clip.rem /\ clip.rem \in Nat
  BY <1>1 DEF TypeOK, TypeLoop, Clip, Min2
<1>3. w \in 0..clip.rem
  BY <1>2, FitsBounds DEF TypeOK
<1>4. queue' = [queue EXCEPT ![feedIdx + 1] = Taken(clip, w)]
  BY DEF FeedClip
<1>5. /\ queue \in Seq(Clip) /\ fedEnd \in Nat /\ accepted \in Nat
      /\ SpansOf(queue, fedEnd, accepted) /\ UnheardAt(queue, AudibleMs)
  BY DEF TypeOK, TypeClips, SpanInv, SpansOrdered, SpansOf, QueueIsUnheard, UnheardAt
<1>6. fedEnd' = fedEnd /\ accepted' = accepted /\ AudibleMs' = AudibleMs
  BY DEF FeedClip, feedRest, clockNoFeed, AudibleMs
<1> HIDE DEF w
<1>7. SpansOf(queue', fedEnd, accepted) /\ UnheardAt(queue', AudibleMs)
  BY <1>1, <1>3, <1>4, <1>5, TakenSpans
<1> QED BY <1>6, <1>7 DEF SpanInv, SpansOrdered, SpansOf, QueueIsUnheard, UnheardAt

\* The bookkeeping tick pops exactly the clips the new position has reached.
LEMMA BookkeepSpans ==
  ASSUME TypeOK, TypeOK', SpanInv, Bookkeep
  PROVE  SpanInv'
<1>5. AudibleMs' \in Nat
  <2>1. TypeClock'
    BY DEF TypeOK
  <2>2. Audible(epochOff, base, age, accBytes)' \in Nat /\ frozen' \in Nat
    BY <2>1, AudibleBounds DEF TypeClock
  <2> QED BY <2>2 DEF AudibleMs
<1>1. PICK k \in 0..Len(queue) :
        /\ Finished(k, AudibleMs')
        /\ queue' = SubSeq(queue, k + 1, Len(queue))
  BY DEF Bookkeep, complete_clips
<1>2. /\ queue \in Seq(Clip) /\ Len(queue) \in Nat /\ fedEnd \in Nat /\ accepted \in Nat
      /\ SpansOf(queue, fedEnd, accepted)
  BY LenProperties DEF TypeOK, TypeClips, SpanInv, SpansOrdered, SpansOf
<1>3. fedEnd' = fedEnd /\ accepted' = accepted
  BY DEF Bookkeep
<1>4. SpansOf(queue', fedEnd, accepted)
  BY <1>1, <1>2, SuffixSpans
<1>6. ASSUME NEW i \in 1..Len(queue')
      PROVE  AudibleMs' < queue'[i].end
  <2>1. \A j \in k + 1 .. Len(queue) : queue[j] \in Clip
    BY <1>2, ElementOfSeq
  <2>2. /\ Len(queue') = IF k + 1 <= Len(queue) THEN Len(queue) - (k + 1) + 1 ELSE 0
        /\ \A j \in 1 .. Len(queue) - (k + 1) + 1 : queue'[j] = queue[(k + 1) + j - 1]
    BY <1>1, <1>2, <2>1, SubSeqProperties
  <2>3. k + i \in 1..Len(queue) /\ k + 1 \in 1..Len(queue) /\ queue'[i] = queue[k + i]
    BY <1>2, <1>6, <2>2
  <2>4. AudibleMs' < queue[k + 1].end
    <3>1. queue[k + 1].end > AudibleMs'
      BY <1>1, <1>2, <2>3 DEF Finished
    <3> QED BY <3>1
  <2>5. CASE i = 1
    BY <2>3, <2>4, <2>5
  <2>6. CASE i > 1
    <3>1. queue[k + 1].end <= queue[k + i].start /\ queue[k + i].start < queue[k + i].end
      BY <1>2, <2>3, <2>6 DEF SpansOf
    <3>2. queue[k + 1] \in Clip /\ queue[k + i] \in Clip
      BY <1>2, <2>3, ElementOfSeq
    <3>3. /\ queue[k + 1].end \in Nat /\ queue[k + i].end \in Nat
          /\ queue[k + i].start \in Nat
      BY <3>2 DEF Clip
    <3> QED BY <1>5, <2>3, <2>4, <3>1, <3>3
  <2> QED BY <1>6, <2>5, <2>6
<1> QED BY <1>3, <1>4, <1>6 DEF SpanInv, SpansOrdered, SpansOf, QueueIsUnheard

\* A step that drops the queue.
LEMMA DroppedSpans == ASSUME queue' = <<>> PROVE SpanInv'
BY EmptySpans DEF SpanInv, SpansOrdered, SpansOf, QueueIsUnheard, UnheardAt

\* A step that moves neither the queue nor the position.
LEMMA UntouchedSpans ==
  ASSUME SpanInv, UNCHANGED <<queue, fedEnd, accepted>>, AudibleMs' = AudibleMs
  PROVE  SpanInv'
BY DEF SpanInv, SpansOrdered, QueueIsUnheard

\* Every step of the daemon keeps the span invariant.
LEMMA SpanStep == TypeOK /\ TypeOK' /\ SpanInv /\ [Next]_vars => SpanInv'
<1> SUFFICES ASSUME TypeOK, TypeOK', SpanInv, [Next]_vars PROVE SpanInv'
  OBVIOUS
<1>1. CASE \E dur \in Durations, gap \in Gaps, rate \in Rates :
             \/ PlayAppend(dur, gap, rate)
             \/ \E built \in BuildResults, opened \in BOOLEAN :
                  \/ PlayLazyBuild(dur, gap, rate, built, opened)
                  \/ PlayRebuild(dur, gap, rate, built, opened)
  BY <1>1, PlayAppendSpans, PlayLazyBuildSpans, PlayRebuildSpans
<1>2. CASE Pause
  BY <1>2, UntouchedSpans DEF Pause, PausePosition, clipVars, AudibleMs
<1>3. CASE ResumeClips
  <2>1. UNCHANGED <<queue, fedEnd, accepted>>
    BY <1>3 DEF ResumeClips, clipVars
  <2>2. AudibleMs = frozen /\ paused' = FALSE /\ frozen' = frozen /\ frozen \in Nat
    BY <1>3 DEF ResumeClips, AudibleMs, TypeOK, TypeClock
  <2>3. epochOff' = 0 /\ base' = frozen /\ age' = 0 /\ accBytes' = accBytes /\ accBytes \in Nat
    BY <1>3 DEF ResumeClips, ResumeBase, TypeOK, TypeClock
  <2>4. Audible(epochOff', base', age', accBytes') = frozen
    BY <2>2, <2>3, Sizes DEF Audible, Max2, Min2
  <2>5. AudibleMs' = frozen
    BY <2>2, <2>4 DEF AudibleMs
  <2> QED BY <2>1, <2>2, <2>5, UntouchedSpans
<1>4. CASE ResumeLegacy
  <2>1. UNCHANGED <<queue, fedEnd, accepted>>
    BY <1>4 DEF ResumeLegacy, clipVars
  <2>2. AudibleMs' = AudibleMs
    BY <1>4 DEF ResumeLegacy, AudibleMs
  <2> QED BY <2>1, <2>2, UntouchedSpans
<1>5. CASE Stop \/ Release \/ ExternalRefused
  <2>1. queue' = <<>>
    BY <1>5 DEF Stop, Release, ExternalRefused, drop_queue
  <2> QED BY <2>1, DroppedSpans
<1>6. CASE \E built \in BuildResults : Flush(built) \/ BusRebuild(built)
  <2>1. queue' = <<>>
    BY <1>6 DEF Flush, BusRebuild, Rebuild, drop_queue
  <2> QED BY <2>1, DroppedSpans
<1>12. CASE \E built \in BuildResults, pos \in Positions :
              \/ ResumeAt(pos, built)
              \/ \E total \in Totals :
                   \/ Seek(pos, total, built)
                   \/ \E rate \in Rates, dec \in BOOLEAN :
                        External(rate, pos, total, dec, built)
  <2>1. PICK pos, total, built : stream_epoch(pos, total, built)
    BY <1>12 DEF ResumeAt, Seek, External
  <2>2. queue' = <<>>
    BY <2>1 DEF stream_epoch, Rebuild, drop_queue
  <2> QED BY <2>2, DroppedSpans
<1>7. CASE FeedClip
  BY <1>7, FeedClipSpans
<1>8. CASE \/ \E n \in 1..FEED_CHUNK : FeedDecoded(n)
           \/ FeedKeepalive \/ FeedStart \/ FeedNothing
           \/ FeedGap \/ FeedQueueEnd \/ FeedClipEnd \/ FeedBudgetSpent
  <2>1. UNCHANGED <<queue, fedEnd, accepted>>
    BY <1>8 DEF FeedDecoded, FeedKeepalive, FeedStart, FeedNothing, FeedGap,
        FeedQueueEnd, FeedClipEnd, FeedBudgetSpent, feedRest, clipVars
  <2>2. UNCHANGED <<paused, epochOff, base, frozen, anchorWait, age, accBytes>>
    BY <1>8 DEF FeedDecoded, FeedKeepalive, FeedStart, FeedNothing, FeedGap,
        FeedQueueEnd, FeedClipEnd, FeedBudgetSpent, feedRest, clockVars, clockNoFeed
  <2> QED BY <2>1, <2>2, UntouchedSpans DEF AudibleMs
<1>9. CASE Bookkeep
  BY <1>9, BookkeepSpans
<1>10. CASE BusGiveUp \/ Elapse \/ Sink \/ ExtWrite
  <2>1. UNCHANGED <<queue, fedEnd, accepted>>
    BY <1>10 DEF BusGiveUp, Elapse, Sink, Accept, ExtWrite, clipVars
  <2>2. UNCHANGED <<paused, epochOff, base, frozen, anchorWait, age, accBytes>>
    BY <1>10 DEF BusGiveUp, Elapse, Sink, Accept, ExtWrite, clockVars
  <2> QED BY <2>1, <2>2, UntouchedSpans DEF AudibleMs
<1>11. CASE UNCHANGED vars
  BY <1>11, UntouchedSpans DEF vars, clipVars, clockVars, AudibleMs
<1> QED BY <1>1, <1>2, <1>3, <1>4, <1>5, <1>6, <1>7, <1>8, <1>9, <1>10, <1>11, <1>12
        DEF Next, Client, Feed, Bus

\* Whatever clients, pauses, rebuilds and failures do, the spans handed out
\* never overlap, and no queued clip has been heard to its end: the clock and
\* the queue cannot drift apart.
THEOREM QueueUnheard == Spec => [](SpansOrdered /\ QueueIsUnheard)
<1>1. Init => SpanInv
  BY DroppedSpans, EmptySpans DEF Init, InitDaemon, SpanInv, SpansOrdered, SpansOf,
     QueueIsUnheard, UnheardAt
<1>2. TypeOK /\ TypeOK' /\ SpanInv /\ [Next]_vars => SpanInv'
  BY SpanStep
<1>3. Spec => []TypeOK
  BY TypeCorrect
<1>4. Init /\ []TypeOK /\ [][Next]_vars => []SpanInv
  BY <1>1, <1>2, PTL
<1> QED BY <1>3, <1>4, PTL DEF Spec, SpanInv
-----------------------------------------------------------------------------
(* The position over a clip.                                               *)

\* What makes a re-anchored clock continue and not rewind: the loop's copy of
\* the intake lags the probe, without a pipeline nothing is queued, and the
\* frozen value, which is what was last reported, is never above the anchor
\* the clock will restart from.
IntakeLags == accBytes <= probeBytes

NoPipe == /\ pipe = "none" => queue = <<>>
          /\ pc = "bus" => pipe # "none"

FrozenBelowEpoch == (pipe # "none" /\ anchorWait) => frozen <= epochOff

FrozenBelowAnchor ==
  (pipe # "none" /\ ~anchorWait /\ ~paused) => frozen <= epochOff + base

PosInv == IntakeLags /\ NoPipe /\ FrozenBelowEpoch /\ FrozenBelowAnchor

\* A rebuild leaves the clock frozen at zero, or at the epoch.
LEMMA RebuiltPos ==
  ASSUME TypeOK, IntakeLags, accBytes' \in {0, accBytes}, probeBytes' = probeBytes,
         pc' # "bus", (pipe' = "none") => (queue' = <<>>),
         anchorWait' = TRUE, epochOff' \in Nat, frozen' \in {0, epochOff'}
  PROVE  PosInv'
<1>1. IntakeLags'
  BY DEF IntakeLags, TypeOK, TypeClock
<1>2. NoPipe'
  BY DEF NoPipe
<1>3. frozen' <= epochOff'
  OBVIOUS
<1>4. FrozenBelowEpoch'
  BY <1>3 DEF FrozenBelowEpoch
<1>5. FrozenBelowAnchor'
  BY DEF FrozenBelowAnchor
<1> QED BY <1>1, <1>2, <1>4, <1>5 DEF PosInv

\* stream_epoch is such a rebuild.
LEMMA EpochPos ==
  ASSUME TypeOK, PosInv, UNCHANGED probeBytes, pc' # "bus",
         NEW pos \in Positions, NEW total, NEW built, stream_epoch(pos, total, built)
  PROVE  PosInv'
<1>1. /\ accBytes' = 0 /\ anchorWait' = TRUE /\ queue' = <<>>
  BY DEF stream_epoch, Rebuild, drop_queue
<1>2. \/ epochOff' = pos /\ frozen' = pos
      \/ epochOff' = epochOff /\ frozen' = 0
  BY DEF stream_epoch, EpochFrozen, FrozenAtBuild
<1>3. epochOff' \in Nat /\ frozen' \in {0, epochOff'}
  BY <1>2, Inputs DEF TypeOK, TypeClock
<1> QED BY <1>1, <1>3, RebuiltPos DEF PosInv

\* A step that leaves the clock and the pipeline alone and adds to an empty
\* queue only when there is a pipeline.
LEMMA UntouchedPos ==
  ASSUME TypeOK, PosInv, (pipe = "none" /\ queue = <<>>) => queue' = <<>>,
         UNCHANGED <<accBytes, anchorWait, epochOff, base, frozen, paused>>,
         probeBytes' \in Nat, probeBytes <= probeBytes',
         (pipe' = "none") <=> (pipe = "none"), pc' = "bus" => pc = "bus"
  PROVE  PosInv'
<1>1. IntakeLags'
  BY DEF PosInv, IntakeLags, TypeOK, TypeClock
<1>2. NoPipe'
  BY DEF PosInv, NoPipe
<1>3. FrozenBelowEpoch'
  BY DEF PosInv, FrozenBelowEpoch
<1>4. FrozenBelowAnchor'
  BY DEF PosInv, FrozenBelowAnchor
<1> QED BY <1>1, <1>2, <1>3, <1>4 DEF PosInv

\* A step after which there is no pipeline.
LEMMA NoPipePos ==
  ASSUME pipe' = "none", queue' = <<>>, pc' # "bus", IntakeLags'
  PROVE  PosInv'
BY DEF PosInv, NoPipe, FrozenBelowEpoch, FrozenBelowAnchor

\* resume in clip mode continues from the frozen value, which was the
\* position: nothing moves.
LEMMA ResumeClipsPos ==
  ASSUME TypeOK, PosInv, ResumeClips
  PROVE  PosInv' /\ AudibleMs' = AudibleMs
<1>1. /\ AudibleMs = frozen /\ paused' = FALSE /\ frozen' = frozen /\ frozen \in Nat
      /\ anchorWait' = FALSE
  BY DEF ResumeClips, AudibleMs, TypeOK, TypeClock
<1>2. /\ epochOff' = 0 /\ base' = frozen /\ age' = 0
      /\ accBytes' = accBytes /\ accBytes \in Nat
  BY DEF ResumeClips, ResumeBase, TypeOK, TypeClock
<1>3. Audible(epochOff', base', age', accBytes') = frozen
  BY <1>1, <1>2, Sizes DEF Audible, Max2, Min2
<1>4. AudibleMs' = frozen
  BY <1>1, <1>3 DEF AudibleMs
<1>5. frozen' <= epochOff' + base'
  BY <1>1, <1>2
<1>6. IntakeLags'
  BY DEF ResumeClips, probeVars, PosInv, IntakeLags
<1>7. NoPipe'
  BY DEF ResumeClips, outVars, clipVars, loopVars, PosInv, NoPipe
<1>8. FrozenBelowEpoch'
  BY <1>1 DEF FrozenBelowEpoch
<1>9. FrozenBelowAnchor'
  BY <1>5 DEF FrozenBelowAnchor
<1> QED BY <1>1, <1>4, <1>6, <1>7, <1>8, <1>9 DEF PosInv

\* pause freezes the position it reports.
LEMMA PausePos ==
  ASSUME TypeOK, PosInv, Pause
  PROVE  PosInv' /\ AudibleMs' = AudibleMs
<1>1. /\ frozen' = AudibleMs /\ paused' = TRUE /\ anchorWait' = anchorWait
      /\ epochOff' = epochOff
  BY DEF Pause, PausePosition
<1>2. AudibleMs' = AudibleMs
  BY <1>1 DEF AudibleMs
<1>3. IntakeLags'
  BY DEF Pause, probeVars, PosInv, IntakeLags
<1>4. NoPipe'
  BY DEF Pause, outVars, clipVars, loopVars, PosInv, NoPipe
<1>5. FrozenBelowEpoch'
  <2> SUFFICES ASSUME pipe' # "none", anchorWait' PROVE frozen' <= epochOff'
    BY DEF FrozenBelowEpoch
  <2>1. pipe # "none" /\ anchorWait /\ AudibleMs = frozen
    BY <1>1 DEF Pause, outVars, AudibleMs
  <2>2. frozen <= epochOff
    BY <2>1 DEF PosInv, FrozenBelowEpoch
  <2> QED BY <1>1, <2>1, <2>2
<1>6. FrozenBelowAnchor'
  BY <1>1 DEF FrozenBelowAnchor
<1> QED BY <1>2, <1>3, <1>4, <1>5, <1>6 DEF PosInv

\* With the anchor fixed, the clock only grows with time and intake.
LEMMA AudibleMonotonic ==
  ASSUME NEW eo \in Nat, NEW bs \in Nat, NEW ag \in Nat, NEW ag2 \in Nat,
         NEW acc \in Nat, NEW acc2 \in Nat, ag <= ag2, acc <= acc2
  PROVE  Audible(eo, bs, ag, acc) <= Audible(eo, bs, ag2, acc2)
BY Sizes DEF Audible, Max2, Min2

\* Arithmetic by name, for terms over the next state.
LEMMA SumIsNat == ASSUME NEW x \in Nat, NEW y \in Nat PROVE x + y \in Nat
OBVIOUS

\* At-most chains on naturals, stated once for the SMT leaves below.
LEMMA AtMostTransitive ==
  ASSUME NEW x \in Nat, NEW y \in Nat, NEW z \in Nat, x <= y, y <= z
  PROVE  x <= z
OBVIOUS

\* When the frozen value is not above the anchor, a bookkeeping tick moves the
\* position forward only, and leaves it not above the anchor.
LEMMA TickForward ==
  ASSUME TypeOK, IntakeLags, Bookkeep,
         anchorWait => frozen <= epochOff,
         (~anchorWait /\ ~paused) => frozen <= epochOff + base
  PROVE  /\ AudibleMs <= AudibleMs'
         /\ (~anchorWait' /\ ~paused) => frozen <= epochOff + base'
<1>1. /\ accBytes' = probeBytes /\ probeBytes' = probeBytes
      /\ frozen' = frozen /\ epochOff' = epochOff /\ paused' = paused
  BY DEF Bookkeep, refresh_clock, probeVars
<1>2. /\ epochOff \in Nat /\ base \in Nat /\ age \in Nat /\ lag \in Nat
      /\ accBytes \in Nat /\ probeBytes \in Nat /\ probeLast \in Nat /\ frozen \in Nat
  BY DEF TypeOK, TypeClock
<1>3. accBytes <= probeBytes
  BY DEF IntakeLags
<1>4. /\ anchorWait' = (anchorWait /\ probeBytes = accBytes)
      /\ base' = IF anchorWait /\ probeBytes # accBytes THEN probeLast ELSE base
      /\ age' = IF anchorWait THEN 0 ELSE age + lag
  BY DEF Bookkeep, refresh_clock
<1>8. ASSUME ~anchorWait', ~paused
      PROVE  frozen <= epochOff + base'
  <2>1. CASE anchorWait
    <3>1. frozen <= epochOff /\ base' = probeLast
      BY <1>4, <1>8, <2>1
    <3> QED BY <1>2, <3>1
  <2>2. CASE ~anchorWait
    <3>1. frozen <= epochOff + base /\ base' = base
      BY <1>4, <1>8, <2>2
    <3> QED BY <3>1
  <2> QED BY <2>1, <2>2
<1>10. AudibleMs <= AudibleMs'
  <2>1. CASE paused
    <3>1. AudibleMs = frozen /\ AudibleMs' = frozen
      BY <1>1, <2>1 DEF AudibleMs
    <3> QED BY <1>2, <3>1
  <2>2. CASE ~paused /\ anchorWait'
    <3>1. AudibleMs = frozen /\ AudibleMs' = frozen
      BY <1>1, <1>4, <2>2 DEF AudibleMs
    <3> QED BY <1>2, <3>1
  <2>3. CASE ~paused /\ ~anchorWait'
    <3>1. frozen <= epochOff + base'
      BY <1>8, <2>3
    <3>2. base' \in Nat /\ age' \in Nat
      BY <1>2, <1>4
    <3>3. /\ Audible(epochOff, base', age', probeBytes) \in Nat
          /\ epochOff + base' <= Audible(epochOff, base', age', probeBytes)
      BY <1>2, <3>2, AudibleBounds
    <3>4. AudibleMs' = IF probeBytes = 0 THEN frozen
                       ELSE Audible(epochOff, base', age', probeBytes)
      BY <1>1, <2>3 DEF AudibleMs
    <3>7. frozen <= Audible(epochOff, base', age', probeBytes)
      <4>1. epochOff + base' \in Nat
        BY <1>2, <3>2, SumIsNat
      <4> QED BY <1>2, <3>1, <3>3, <4>1, AtMostTransitive
    <3>5. CASE anchorWait \/ accBytes = 0
      <4>1. AudibleMs = frozen
        BY <3>5 DEF AudibleMs
      <4>2. frozen <= Audible(epochOff, base', age', probeBytes)
        BY <3>7
      <4>3. CASE probeBytes = 0
        BY <1>2, <3>4, <4>1, <4>3
      <4>4. CASE probeBytes # 0
        BY <3>4, <4>1, <4>2, <4>4
      <4> QED BY <4>3, <4>4
    <3>6. CASE ~(anchorWait \/ accBytes = 0)
      <4>1. AudibleMs = Audible(epochOff, base, age, accBytes)
        BY <2>3, <3>6 DEF AudibleMs
      <4>2. base' = base /\ age' = age + lag
        BY <1>4, <3>6
      <4>3. age <= age' /\ probeBytes # 0
        BY <1>2, <1>3, <3>6, <4>2
      <4>4. Audible(epochOff, base, age, accBytes) <= Audible(epochOff, base, age', probeBytes)
        BY <1>2, <1>3, <3>2, <4>3, AudibleMonotonic
      <4> QED BY <3>4, <4>1, <4>2, <4>3, <4>4
    <3> QED BY <3>5, <3>6
  <2> QED BY <2>1, <2>2, <2>3
<1> QED BY <1>8, <1>10

\* The bookkeeping tick moves the position forward only.
LEMMA BookkeepPos ==
  ASSUME TypeOK, PosInv, Bookkeep
  PROVE  PosInv' /\ (pipe # "none" => AudibleMs <= AudibleMs')
<1>1. /\ accBytes' = probeBytes /\ probeBytes' = probeBytes
      /\ frozen' = frozen /\ epochOff' = epochOff /\ paused' = paused
      /\ pipe' = pipe
  BY DEF Bookkeep, refresh_clock, probeVars
<1>2. /\ epochOff \in Nat /\ base \in Nat /\ age \in Nat /\ lag \in Nat
      /\ accBytes \in Nat /\ probeBytes \in Nat /\ probeLast \in Nat /\ frozen \in Nat
  BY DEF TypeOK, TypeClock
<1>4. /\ anchorWait' = (anchorWait /\ probeBytes = accBytes)
      /\ base' = IF anchorWait /\ probeBytes # accBytes THEN probeLast ELSE base
      /\ age' = IF anchorWait THEN 0 ELSE age + lag
  BY DEF Bookkeep, refresh_clock
<1>5. IntakeLags'
  BY <1>1, <1>2 DEF IntakeLags
<1>6. NoPipe'
  <2>1. pc' = "bus" => pipe # "none"
    BY DEF Bookkeep
  <2>2. queue = <<>> => queue' = <<>>
    <3> SUFFICES ASSUME queue = <<>> PROVE queue' = <<>>
      OBVIOUS
    <3>1. PICK k \in 0..Len(queue) : queue' = SubSeq(queue, k + 1, Len(queue))
      BY DEF Bookkeep, complete_clips
    <3>2. Len(queue) = 0
      BY EmptySeq
    <3>3. k + 1 \in Int /\ Len(queue) \in Int /\ Len(queue) < k + 1
      BY <3>2
    <3> QED BY <3>1, <3>3, SubSeqEmpty
  <2> QED BY <1>1, <2>1, <2>2 DEF PosInv, NoPipe
<1>7. FrozenBelowEpoch'
  BY <1>1, <1>4 DEF PosInv, FrozenBelowEpoch
<1>8. ASSUME pipe # "none"
      PROVE  /\ AudibleMs <= AudibleMs'
             /\ (~anchorWait' /\ ~paused) => frozen <= epochOff + base'
  <2>1. /\ anchorWait => frozen <= epochOff
        /\ (~anchorWait /\ ~paused) => frozen <= epochOff + base
    BY <1>8 DEF PosInv, FrozenBelowEpoch, FrozenBelowAnchor
  <2> QED BY <2>1, TickForward DEF PosInv
<1>9. FrozenBelowAnchor'
  BY <1>1, <1>8 DEF FrozenBelowAnchor
<1> QED BY <1>5, <1>6, <1>7, <1>8, <1>9 DEF PosInv

\* No step that a legacy resume is not part of breaks PosInv, and the position
\* moves back only over a queue that was dropped: a step that rewinds it
\* leaves no clip of the old queue in the new one.
NoRewind ==
  (\E i \in 1..Len(queue), j \in 1..Len(queue') : queue[i].id = queue'[j].id)
    => AudibleMs' >= AudibleMs

\* A step that does not move the position cannot rewind it.
LEMMA StillNoRewind == ASSUME TypeOK, AudibleMs' = AudibleMs PROVE NoRewind
<1>1. AudibleMs \in Nat
  BY AudibleIsNat DEF TypeOK
<1> QED BY <1>1 DEF NoRewind

\* An empty queue, before or after, has no clip to rewind over.
LEMMA EmptyNoRewind == ASSUME queue = <<>> \/ queue' = <<>> PROVE NoRewind
<1>1. Len(queue) = 0 \/ Len(queue') = 0
  BY EmptySeq
<1> QED BY <1>1 DEF NoRewind

\* A lazy build happens on an unheard queue and keeps the position invariant.
LEMMA PlayLazyBuildPos ==
  ASSUME TypeOK, PosInv, NEW dur \in Durations, NEW gap \in Gaps,
         NEW rate \in Rates, NEW built \in BuildResults, NEW opened \in BOOLEAN,
         PlayLazyBuild(dur, gap, rate, built, opened)
  PROVE  PosInv' /\ NoRewind
<1>1. queue = <<>>
  BY DEF PlayLazyBuild, PosInv, NoPipe
<1>2. /\ accBytes' = accBytes /\ probeBytes' = probeBytes /\ pc' # "bus"
      /\ anchorWait' = TRUE /\ frozen' = 0 /\ epochOff' = epochOff
  BY DEF PlayLazyBuild, Command, loopVars, probeVars, FrozenAtBuild
<1>3. pipe' = "none" => queue' = <<>>
  BY <1>1 DEF PlayLazyBuild
<1>4. epochOff' \in Nat
  BY <1>2 DEF TypeOK, TypeClock
<1> QED BY <1>1, <1>2, <1>3, <1>4, RebuiltPos, EmptyNoRewind DEF PosInv

\* A rate change starts the position again with a queue of new clips only.
LEMMA PlayRebuildPos ==
  ASSUME TypeOK, PosInv, SpansOrdered, NEW dur \in Durations, NEW gap \in Gaps,
         NEW rate \in Rates, NEW built \in BuildResults, NEW opened \in BOOLEAN,
         PlayRebuild(dur, gap, rate, built, opened)
  PROVE  PosInv' /\ NoRewind
<1>1. /\ accBytes' = 0 /\ probeBytes' = probeBytes /\ pc' # "bus"
      /\ anchorWait' = TRUE /\ frozen' = 0 /\ epochOff' = epochOff
  BY DEF PlayRebuild, Command, loopVars, probeVars, FrozenAtBuild
<1>2. pipe' = "none" => queue' = <<>>
  BY DEF PlayRebuild
<1>3. epochOff' \in Nat
  BY <1>1 DEF TypeOK, TypeClock
<1>4. PosInv'
  BY <1>1, <1>2, <1>3, RebuiltPos DEF PosInv
<1>5. CASE built = "up" /\ opened
  <2>1. queue_clip(<<>>, 0, dur, gap)
    BY <1>5 DEF PlayRebuild
  <2> DEFINE c == [id |-> accepted, dur |-> dur, rem |-> dur, gap |-> gap,
                    start |-> 0, end |-> 0 + dur + gap]
  <2>2. queue' = Append(<<>>, c) /\ c.id = accepted
    BY <2>1 DEF queue_clip
  <2>3. c \in Clip
    BY Inputs DEF Clip, TypeOK, TypeClips
  <2> HIDE DEF c
  <2>4. <<>> \in Seq(Clip) /\ Len(<<>>) = 0
    BY EmptySeq
  <2>5. Len(queue') = 1 /\ queue'[1] = c
    BY <2>2, <2>3, <2>4, AppendProperties
  <2>6. ASSUME NEW i \in 1..Len(queue), NEW j \in 1..Len(queue')
        PROVE  queue[i].id # queue'[j].id
    <3>1. queue'[j].id = accepted
      BY <2>2, <2>5
    <3>2. queue \in Seq(Clip) /\ accepted \in Nat
      BY DEF TypeOK, TypeClips
    <3>5. queue[i] \in Clip
      BY <3>2, ElementOfSeq
    <3>3. queue[i].id \in Nat
      BY <3>5 DEF Clip
    <3>4. queue[i].id < accepted
      BY DEF SpansOrdered
    <3> QED BY <3>1, <3>2, <3>3, <3>4
  <2> QED BY <1>4, <2>6 DEF NoRewind
<1>6. CASE ~(built = "up" /\ opened)
  <2>1. queue' = <<>>
    BY <1>6 DEF PlayRebuild
  <2> QED BY <1>4, <2>1, EmptyNoRewind
<1> QED BY <1>5, <1>6

\* Every step keeps the position invariant and never rewinds a surviving clip.
LEMMA PosStep ==
  ASSUME "resume_legacy" \notin Cmds, TypeOK, PosInv, SpansOrdered, [Next]_vars
  PROVE  PosInv' /\ NoRewind
<1>1. CASE \E dur \in Durations, gap \in Gaps, rate \in Rates,
              built \in BuildResults, opened \in BOOLEAN :
             \/ PlayLazyBuild(dur, gap, rate, built, opened)
             \/ PlayRebuild(dur, gap, rate, built, opened)
  BY <1>1, PlayLazyBuildPos, PlayRebuildPos
<1>2. CASE \E dur \in Durations, gap \in Gaps, rate \in Rates : PlayAppend(dur, gap, rate)
  <2>1. UNCHANGED <<accBytes, anchorWait, epochOff, base, frozen, age, paused, probeBytes>>
    BY <1>2 DEF PlayAppend, clockVars, probeVars
  <2>2. pipe # "none" /\ pipe' = pipe /\ pc' = pc
    BY <1>2 DEF PlayAppend, outVars, loopVars
  <2>3. AudibleMs' = AudibleMs /\ probeBytes' \in Nat /\ probeBytes <= probeBytes'
    BY <2>1 DEF AudibleMs, TypeOK, TypeClock
  <2> QED BY <2>1, <2>2, <2>3, UntouchedPos, StillNoRewind
<1>3. CASE Pause
  BY <1>3, PausePos, StillNoRewind
<1>4. CASE ResumeClips
  BY <1>4, ResumeClipsPos, StillNoRewind
<1>5. CASE ResumeLegacy
  BY <1>5 DEF ResumeLegacy, Command
<1>6. CASE Stop \/ ExternalRefused
  <2>1. UNCHANGED <<accBytes, anchorWait, epochOff, base, frozen, age, paused, probeBytes>>
    BY <1>6 DEF Stop, ExternalRefused, clockVars, probeVars
  <2>2. queue' = <<>> /\ pipe' = pipe /\ pc' = pc
    BY <1>6 DEF Stop, ExternalRefused, drop_queue, outVars, loopVars
  <2>3. probeBytes' \in Nat /\ probeBytes <= probeBytes'
    BY <2>1 DEF TypeOK, TypeClock
  <2> QED BY <2>1, <2>2, <2>3, UntouchedPos, EmptyNoRewind
<1>7. CASE Release
  <2>1. pipe' = "none" /\ queue' = <<>> /\ pc' # "bus" /\ probeBytes' = probeBytes
    BY <1>7 DEF Release, drop_queue, Command, loopVars, probeVars
  <2>2. accBytes' \in {0, accBytes}
    BY <1>7 DEF Release
  <2>3. IntakeLags'
    BY <2>1, <2>2 DEF PosInv, IntakeLags, TypeOK, TypeClock
  <2> QED BY <2>1, <2>3, NoPipePos, EmptyNoRewind
<1>8. CASE \E built \in BuildResults : Flush(built)
  <2>1. queue' = <<>> /\ pc' # "bus" /\ probeBytes' = probeBytes /\ epochOff' = 0
    BY <1>8 DEF Flush, Rebuild, drop_queue, Command, loopVars, probeVars
  <2>2. CASE pipe = "none"
    <3>1. pipe' = "none" /\ accBytes' = accBytes
      BY <1>8, <2>2 DEF Flush
    <3>2. IntakeLags'
      BY <2>1, <3>1 DEF PosInv, IntakeLags
    <3> QED BY <2>1, <3>1, <3>2, NoPipePos, EmptyNoRewind
  <2>3. CASE pipe # "none"
    <3>1. accBytes' = 0 /\ anchorWait' = TRUE /\ frozen' = 0
      BY <1>8, <2>3 DEF Flush, Rebuild, FrozenAtBuild
    <3> QED BY <2>1, <3>1, RebuiltPos, EmptyNoRewind DEF PosInv
  <2> QED BY <2>2, <2>3
<1>9. CASE \E built \in BuildResults, pos \in Positions :
             \/ ResumeAt(pos, built)
             \/ \E total \in Totals :
                  \/ Seek(pos, total, built)
                  \/ \E rate \in Rates, dec \in BOOLEAN :
                       External(rate, pos, total, dec, built)
  <2>1. PICK pos, total, built : pos \in Positions /\ stream_epoch(pos, total, built)
    BY <1>9 DEF ResumeAt, Seek, External
  <2>2. pc' # "bus" /\ probeBytes' = probeBytes
    BY <1>9 DEF ResumeAt, Seek, External, Command, loopVars, probeVars
  <2>3. queue' = <<>>
    BY <2>1 DEF stream_epoch, Rebuild, drop_queue
  <2> QED BY <2>1, <2>2, <2>3, EpochPos, EmptyNoRewind
<1>10. CASE \E built \in BuildResults : BusRebuild(built)
  <2>1. /\ queue' = <<>> /\ pc' # "bus" /\ probeBytes' = probeBytes
        /\ epochOff' = epochOff /\ accBytes' = 0 /\ anchorWait' = TRUE /\ frozen' = 0
    BY <1>10 DEF BusRebuild, Rebuild, drop_queue, probeVars, FrozenAtBuild
  <2>2. epochOff' \in Nat
    BY <2>1 DEF TypeOK, TypeClock
  <2> QED BY <2>1, <2>2, RebuiltPos, EmptyNoRewind DEF PosInv
<1>11. CASE Feed
  <2>1. UNCHANGED <<accBytes, anchorWait, epochOff, base, frozen, age, paused, probeBytes>>
    BY <1>11 DEF Feed, FeedDecoded, FeedKeepalive, FeedStart, FeedNothing, FeedGap,
        FeedQueueEnd, FeedClipEnd, FeedClip, FeedBudgetSpent, feedRest, clockVars,
        clockNoFeed, probeVars
  <2>2. pipe' = pipe /\ pc' # "bus"
    BY <1>11 DEF Feed, FeedDecoded, FeedKeepalive, FeedStart, FeedNothing, FeedGap,
        FeedQueueEnd, FeedClipEnd, FeedClip, FeedBudgetSpent, feedRest, outNoFeed, outVars
  <2>3. AudibleMs' = AudibleMs /\ probeBytes' \in Nat /\ probeBytes <= probeBytes'
    BY <2>1 DEF AudibleMs, TypeOK, TypeClock
  <2>4. queue = <<>> => queue' = <<>>
    <3>1. CASE FeedClip
      <4>1. feedIdx + 1 \in 1..Len(queue)
        BY <3>1, LenProperties DEF FeedClip, TypeOK, TypeClips
      <4>2. queue # <<>>
        BY <4>1, EmptySeq
      <4> QED BY <4>2
    <3>2. CASE queue' = queue
      BY <3>2
    <3> QED BY <1>11, <3>1, <3>2 DEF Feed, FeedDecoded, FeedKeepalive, FeedStart,
          FeedNothing, FeedGap, FeedQueueEnd, FeedClipEnd, FeedBudgetSpent, clipVars
  <2> QED BY <2>1, <2>2, <2>3, <2>4, UntouchedPos, StillNoRewind
<1>12. CASE Bookkeep
  <2>1. PosInv' /\ (pipe # "none" => AudibleMs <= AudibleMs')
    BY <1>12, BookkeepPos
  <2>2. CASE pipe = "none"
    BY <2>1, <2>2, EmptyNoRewind DEF PosInv, NoPipe
  <2>3. CASE pipe # "none"
    BY <2>1, <2>3 DEF NoRewind
  <2> QED BY <2>2, <2>3
<1>13. CASE BusGiveUp \/ Elapse \/ Sink \/ ExtWrite
  <2>1. UNCHANGED <<accBytes, anchorWait, epochOff, base, frozen, age, paused, queue>>
    BY <1>13 DEF BusGiveUp, Elapse, Sink, Accept, ExtWrite, clockVars, clipVars
  <2>2. /\ (pipe' = "none") <=> (pipe = "none")
        /\ pc' = "bus" => pc = "bus"
    BY <1>13 DEF BusGiveUp, Elapse, Sink, Accept, ExtWrite, outVars, loopVars, PosInv, NoPipe
  <2>3. AudibleMs' = AudibleMs
    BY <2>1 DEF AudibleMs
  <2>4. probeBytes' \in Nat /\ probeBytes <= probeBytes'
    BY <1>13, Sizes DEF BusGiveUp, Elapse, Sink, Accept, ExtWrite, probeVars, TypeOK, TypeClock
  <2> QED BY <2>1, <2>2, <2>3, <2>4, UntouchedPos, StillNoRewind
<1>14. CASE UNCHANGED vars
  <2>1. UNCHANGED <<accBytes, anchorWait, epochOff, base, frozen, age, paused, queue, pipe, pc, probeBytes>>
    BY <1>14 DEF vars, loopVars, outVars, clipVars, clockVars, probeVars
  <2>2. AudibleMs' = AudibleMs /\ probeBytes' \in Nat /\ probeBytes <= probeBytes'
    BY <2>1 DEF AudibleMs, TypeOK, TypeClock
  <2> QED BY <2>1, <2>2, UntouchedPos, StillNoRewind
<1> QED BY <1>1, <1>2, <1>3, <1>4, <1>5, <1>6, <1>7, <1>8, <1>9, <1>10, <1>11,
           <1>12, <1>13, <1>14
        DEF Next, Client, Bus

\* When every resume of an external stream carries the client's position, as
\* mediaengine.lua sends it, the position never steps back while a clip of
\* the queue survives the step.
THEOREM PositionNeverRewinds ==
  ASSUME "resume_legacy" \notin Cmds
  PROVE  Spec => ClipPositionNeverRewinds
<1>1. Init => PosInv
  BY DEF Init, InitDaemon, PosInv, IntakeLags, NoPipe, FrozenBelowEpoch, FrozenBelowAnchor
<1>2. TypeOK /\ SpansOrdered /\ PosInv /\ [Next]_vars => PosInv' /\ NoRewind
  BY PosStep
<1>3. Spec => [](TypeOK /\ SpansOrdered)
  BY TypeCorrect, QueueUnheard, PTL
<1>4. NoRewind <=> ((\E i \in 1..Len(queue), j \in 1..Len(queue') : queue[i].id = queue'[j].id)
                     => AudibleMs' >= AudibleMs)
  BY DEF NoRewind
<1> QED BY <1>1, <1>2, <1>3, <1>4, PTL DEF Spec, ClipPositionNeverRewinds
=============================================================================
