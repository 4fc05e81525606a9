------------------------- MODULE AudioOutRefinement -------------------------
(***************************************************************************)
(* Proof that the clip side of the daemon implements the abstract playlist *)
(* ClipPlaylist, step by step, for every value of the constants.           *)
(***************************************************************************)
EXTENDS AudioOutProofs

PSpan == [id: Nat, start: Nat, end: Nat]

\* SpansIn maps clip by clip.
LEMMA SpansInType ==
  ASSUME NEW q \in Seq(Clip)
  PROVE  /\ SpansIn(q) \in Seq(PSpan) /\ Len(SpansIn(q)) = Len(q)
         /\ \A i \in 1..Len(q) : /\ SpansIn(q)[i].id = q[i].id
                                 /\ SpansIn(q)[i].start = q[i].start
                                 /\ SpansIn(q)[i].end = q[i].end
<1>1. Len(q) \in Nat
  BY LenProperties
<1>2. ASSUME NEW i \in 1..Len(q)
      PROVE  [id |-> q[i].id, start |-> q[i].start, end |-> q[i].end] \in PSpan
  <2>1. q[i] \in Clip
    BY ElementOfSeq
  <2> QED BY <2>1 DEF Clip, PSpan
<1>3. SpansIn(q) \in [1..Len(q) -> PSpan]
  BY <1>2 DEF SpansIn
<1>4. SpansIn(q) \in Seq(PSpan)
  BY <1>1, <1>3, SeqDef
<1>5. /\ Len(SpansIn(q)) \in Nat
      /\ DOMAIN SpansIn(q) = 1..Len(SpansIn(q))
  BY <1>4, LenProperties
<1>6. DOMAIN SpansIn(q) = 1..Len(q)
  BY DEF SpansIn
<1>7. Len(SpansIn(q)) = Len(q)
  BY <1>1, <1>5, <1>6
<1>8. \A i \in 1..Len(q) : /\ SpansIn(q)[i].id = q[i].id
                           /\ SpansIn(q)[i].start = q[i].start
                           /\ SpansIn(q)[i].end = q[i].end
  BY DEF SpansIn
<1> QED BY <1>4, <1>7, <1>8

\* No clips, no spans.
LEMMA SpansInEmpty == SpansIn(<<>>) = <<>>
<1>1. <<>> \in Seq(Clip) /\ Len(<<>>) = 0
  BY EmptySeq
<1>2. SpansIn(<<>>) \in Seq(PSpan) /\ Len(SpansIn(<<>>)) = 0
  BY <1>1, SpansInType
<1> QED BY <1>2, EmptySeq

\* Queues whose spans agree have the same image.
LEMMA SpansInEqual ==
  ASSUME NEW q \in Seq(Clip), NEW r \in Seq(Clip), Len(q) = Len(r),
         \A i \in 1..Len(q) : /\ q[i].id = r[i].id
                              /\ q[i].start = r[i].start
                              /\ q[i].end = r[i].end
  PROVE  SpansIn(q) = SpansIn(r)
BY DEF SpansIn

\* A record of a span is determined by its three fields.
LEMMA SpanFields ==
  ASSUME NEW a \in PSpan, NEW b \in PSpan, a.id = b.id, a.start = b.start, a.end = b.end
  PROVE  a = b
BY DEF PSpan

\* Queueing a clip appends its span.
LEMMA SpansInAppend ==
  ASSUME NEW q \in Seq(Clip), NEW c \in Clip
  PROVE  SpansIn(Append(q, c)) = Append(SpansIn(q), SpansIn(Append(q, c))[Len(q) + 1])
<1> DEFINE r == Append(q, c)
           s == SpansIn(q)
           t == SpansIn(r)
<1>1. /\ r \in Seq(Clip) /\ Len(r) = Len(q) + 1 /\ Len(q) \in Nat
      /\ \A i \in 1..Len(q) : r[i] = q[i]
  BY AppendProperties, LenProperties
<1> HIDE DEF r
<1>2. /\ s \in Seq(PSpan) /\ Len(s) = Len(q)
      /\ t \in Seq(PSpan) /\ Len(t) = Len(q) + 1
  BY <1>1, SpansInType
<1>3. \A i \in 1..Len(q) : t[i] = s[i]
  BY <1>1 DEF SpansIn
<1> HIDE DEF s, t
<1>4. t[Len(q) + 1] \in PSpan
  BY <1>1, <1>2, ElementOfSeq
<1>5. /\ Append(s, t[Len(q) + 1]) \in Seq(PSpan)
      /\ Len(Append(s, t[Len(q) + 1])) = Len(q) + 1
      /\ \A i \in 1..Len(q) : Append(s, t[Len(q) + 1])[i] = s[i]
      /\ Append(s, t[Len(q) + 1])[Len(q) + 1] = t[Len(q) + 1]
  BY <1>2, <1>4, AppendProperties
<1>6. \A i \in 1..Len(q) + 1 : i \in 1..Len(q) \/ i = Len(q) + 1
  BY <1>1
<1>7. \A i \in 1..Len(t) : t[i] = Append(s, t[Len(q) + 1])[i]
  BY <1>2, <1>3, <1>5, <1>6
<1>8. t = Append(s, t[Len(q) + 1])
  BY <1>2, <1>5, <1>7, SeqEqual
<1> QED BY <1>8 DEF r, s, t

\* Completing k clips drops their k spans.
LEMMA SpansInSuffix ==
  ASSUME NEW q \in Seq(Clip), NEW k \in 0..Len(q)
  PROVE  SpansIn(SubSeq(q, k + 1, Len(q))) = SubSeq(SpansIn(q), k + 1, Len(SpansIn(q)))
<1> DEFINE r == SubSeq(q, k + 1, Len(q))
           s == SpansIn(q)
           t == SpansIn(r)
           u == SubSeq(s, k + 1, Len(s))
<1>1. Len(q) \in Nat /\ \A i \in k + 1 .. Len(q) : q[i] \in Clip
  BY LenProperties, ElementOfSeq
<1>2. /\ r \in Seq(Clip)
      /\ Len(r) = IF k + 1 <= Len(q) THEN Len(q) - (k + 1) + 1 ELSE 0
      /\ \A i \in 1 .. Len(q) - (k + 1) + 1 : r[i] = q[(k + 1) + i - 1]
  BY <1>1, SubSeqProperties
<1> HIDE DEF r
<1>3. Len(r) = Len(q) - k /\ \A i \in 1..Len(r) : k + i \in 1..Len(q) /\ r[i] = q[k + i]
  BY <1>1, <1>2
<1>4. /\ s \in Seq(PSpan) /\ Len(s) = Len(q) /\ t \in Seq(PSpan) /\ Len(t) = Len(r)
  BY <1>2, SpansInType
<1>5. \A i \in 1..Len(r) : t[i] = s[k + i]
  BY <1>3 DEF SpansIn
<1> HIDE DEF s, t
<1>6. \A i \in k + 1 .. Len(s) : s[i] \in PSpan
  BY <1>1, <1>4, ElementOfSeq
<1>7. /\ u \in Seq(PSpan)
      /\ Len(u) = IF k + 1 <= Len(s) THEN Len(s) - (k + 1) + 1 ELSE 0
      /\ \A i \in 1 .. Len(s) - (k + 1) + 1 : u[i] = s[(k + 1) + i - 1]
  BY <1>1, <1>4, <1>6, SubSeqProperties
<1> HIDE DEF u
<1>8. Len(u) = Len(r) /\ \A i \in 1..Len(r) : u[i] = s[k + i]
  BY <1>1, <1>3, <1>4, <1>7
<1>9. t = u
  BY <1>4, <1>5, <1>7, <1>8, SeqEqual
<1> QED BY <1>9 DEF r, s, t, u
-----------------------------------------------------------------------------
(* Every step of the daemon is a step of the playlist, or a stutter.       *)

PlaylistStep ==
  Playlist!Next \/ UNCHANGED <<SpansIn(queue), AudibleMs, doneCount>>

\* The position stays a natural number.
LEMMA NextAudibleIsNat == ASSUME TypeOK' PROVE AudibleMs' \in Nat
<1>1. TypeClock'
  BY DEF TypeOK
<1>2. Audible(epochOff, base, age, accBytes)' \in Nat /\ frozen' \in Nat
  BY <1>1, AudibleBounds DEF TypeClock
<1> QED BY <1>2 DEF AudibleMs

\* Dropping the queue is a restart.
LEMMA DropIsRestart ==
  ASSUME TypeOK', queue' = <<>>, doneCount' = doneCount
  PROVE  PlaylistStep
<1>1. SpansIn(queue)' = <<>>
  BY SpansInEmpty
<1>2. AudibleMs' \in Nat
  BY NextAudibleIsNat
<1>3. Playlist!Restart
  BY <1>1, <1>2 DEF Playlist!Restart
<1> QED BY <1>3 DEF PlaylistStep, Playlist!Next

\* Spans, position and count untouched: a stutter.
LEMMA SameIsStutter ==
  ASSUME queue' = queue, AudibleMs' = AudibleMs, doneCount' = doneCount
  PROVE  PlaylistStep
BY DEF PlaylistStep

\* A rebuilt pipeline with one clip, from position 0, is a restart with it.
LEMMA FirstClipIsRestart ==
  ASSUME TypeOK, NEW f \in Nat, NEW dur \in Durations, NEW gap \in Gaps,
         queue_clip(<<>>, f, dur, gap), AudibleMs' = 0, doneCount' = doneCount
  PROVE  PlaylistStep
<1> DEFINE c == [id |-> accepted, dur |-> dur, rem |-> dur, gap |-> gap,
                  start |-> f, end |-> f + dur + gap]
<1>1. dur \in Nat \ {0} /\ gap \in Nat /\ accepted \in Nat
  BY Inputs DEF TypeOK, TypeClips
<1>2. c \in Clip /\ c.start < c.end /\ 0 <= c.start
  BY <1>1 DEF Clip
<1>3. queue' = Append(<<>>, c)
  BY DEF queue_clip
<1> HIDE DEF c
<1>4. <<>> \in Seq(Clip) /\ Len(<<>>) = 0
  BY EmptySeq
<1>5. queue' \in Seq(Clip) /\ Len(queue') = 1 /\ queue'[1] = c
  BY <1>2, <1>3, <1>4, AppendProperties
<1>6. /\ SpansIn(queue') \in Seq(PSpan) /\ Len(SpansIn(queue')) = 1
      /\ SpansIn(queue')[1].start = c.start /\ SpansIn(queue')[1].end = c.end
  BY <1>5, SpansInType
<1>7. SpansIn(queue')[1] \in PSpan
  <2>1. 1 \in 1..Len(SpansIn(queue'))
    BY <1>6
  <2> QED BY <1>6, <2>1, ElementOfSeq
<1>8. SpansIn(queue') = <<SpansIn(queue')[1]>>
  <2> DEFINE t == SpansIn(queue')
  <2>1. t \in Seq(PSpan) /\ Len(t) = 1 /\ t[1] \in PSpan
    BY <1>6, <1>7
  <2> HIDE DEF t
  <2>2. <<t[1]>> \in Seq(PSpan) /\ Len(<<t[1]>>) = 1 /\ <<t[1]>>[1] = t[1]
    BY <2>1
  <2>3. t = <<t[1]>>
    BY <2>1, <2>2, SeqEqual
  <2> QED BY <2>3 DEF t
<1>9. Playlist!Restart
  BY <1>2, <1>6, <1>7, <1>8 DEF Playlist!Restart, Playlist!MayFollow, Playlist!Span, PSpan
<1> QED BY <1>9 DEF PlaylistStep, Playlist!Next

\* play on the running pipeline hands out the next span.
LEMMA AppendIsEnqueue ==
  ASSUME TypeOK, SpanInv, NEW dur \in Durations, NEW gap \in Gaps, NEW rate \in Rates,
         PlayAppend(dur, gap, rate)
  PROVE  PlaylistStep
<1> DEFINE c == [id |-> accepted, dur |-> dur, rem |-> dur, gap |-> gap,
                  start |-> NextStart, end |-> NextStart + dur + gap]
           s == SpansIn(queue)
           t == SpansIn(queue')
<1>1. dur \in Nat \ {0} /\ gap \in Nat /\ accepted \in Nat /\ queue \in Seq(Clip)
      /\ Len(queue) \in Nat /\ fedEnd \in Nat
  BY Inputs, LenProperties DEF TypeOK, TypeClips
<1>2. AudibleMs' = AudibleMs /\ AudibleMs \in Nat
  BY AudibleIsNat DEF PlayAppend, clockVars, AudibleMs, TypeOK
<1>3. NextStart \in Nat /\ fedEnd <= NextStart /\ AudibleMs <= NextStart
  BY <1>1, <1>2 DEF NextStart, Max2
<1>4. c \in Clip /\ c.start < c.end /\ c.start = NextStart
  BY <1>1, <1>3 DEF Clip
<1>5. queue' = Append(queue, c) /\ doneCount' = doneCount /\ Len(queue) < MAX_QUEUE
  BY DEF PlayAppend, queue_clip
<1> HIDE DEF c
<1>6. /\ queue' \in Seq(Clip) /\ Len(queue') = Len(queue) + 1
      /\ queue'[Len(queue) + 1] = c
  BY <1>1, <1>4, <1>5, AppendProperties
<1>7. t = Append(s, t[Len(queue) + 1])
  BY <1>1, <1>4, <1>5, SpansInAppend
<1>8. s \in Seq(PSpan) /\ Len(s) = Len(queue)
  BY <1>1, SpansInType
<1>9. /\ t \in Seq(PSpan) /\ Len(t) = Len(queue) + 1
      /\ t[Len(queue) + 1].start = c.start /\ t[Len(queue) + 1].end = c.end
  BY <1>1, <1>6, SpansInType
<1>10. t[Len(queue) + 1] \in PSpan
  BY <1>1, <1>9, ElementOfSeq
<1>11. ASSUME s # <<>> PROVE s[Len(s)].end <= c.start
  <2>1. Len(s) \in Nat \ {0}
    BY <1>8, <1>11, EmptySeq
  <2>2. Len(queue) \in 1..Len(queue) /\ queue # <<>>
    BY <1>1, <1>8, <2>1, EmptySeq
  <2>3. queue[Len(queue)].end = fedEnd
    BY <2>2 DEF SpanInv, SpansOrdered
  <2>4. s[Len(s)].end = queue[Len(queue)].end
    BY <1>1, <1>8, <2>2, SpansInType
  <2> QED BY <1>3, <1>4, <2>3, <2>4
<1>12. Playlist!MayFollow(t[Len(t)], s, AudibleMs)
  BY <1>2, <1>3, <1>4, <1>8, <1>9, <1>11 DEF Playlist!MayFollow
<1>13. Playlist!Enqueue
  BY <1>2, <1>5, <1>7, <1>8, <1>9, <1>10, <1>12 DEF Playlist!Enqueue, Playlist!Span, PSpan
<1> QED BY <1>13 DEF PlaylistStep, Playlist!Next

\* The bookkeeping tick advances the position and takes along exactly the
\* spans that end at or before it.
LEMMA BookkeepIsAdvance ==
  ASSUME TypeOK, TypeOK', SpanInv, PosInv, Bookkeep
  PROVE  PlaylistStep
<1>1. PICK k \in 0..Len(queue) :
        /\ Finished(k, AudibleMs')
        /\ queue' = SubSeq(queue, k + 1, Len(queue))
        /\ doneCount' = doneCount + k
  BY DEF Bookkeep, complete_clips
<1>2. queue \in Seq(Clip) /\ Len(queue) \in Nat /\ doneCount \in Nat
  BY LenProperties DEF TypeOK, TypeClips
<1>3. k \in Nat /\ k <= Len(queue) /\ doneCount' - doneCount = k /\ doneCount <= doneCount'
  BY <1>1, <1>2
<1>4. AudibleMs \in Nat /\ AudibleMs' \in Nat
  BY AudibleIsNat, NextAudibleIsNat DEF TypeOK
<1>5. CASE pipe = "none"
  <2>1. queue = <<>> /\ Len(queue) = 0
    BY <1>5, EmptySeq DEF PosInv, NoPipe
  <2>2. k + 1 \in Int /\ Len(queue) \in Int /\ Len(queue) < k + 1
    BY <1>3, <2>1
  <2>3. queue' = <<>>
    BY <1>1, <2>2, SubSeqEmpty
  <2>4. doneCount' = doneCount
    BY <1>1, <1>2, <1>3, <2>1
  <2> QED BY <2>3, <2>4, DropIsRestart
<1>6. CASE pipe # "none"
  <2>1. AudibleMs <= AudibleMs'
    BY <1>6, BookkeepPos
  <2> DEFINE s == SpansIn(queue)
             p == AudibleMs'
  <2>2. /\ Len(s) = Len(queue)
        /\ \A i \in 1..Len(queue) : s[i].end = queue[i].end
    BY <1>2, SpansInType
  <2>3. SpansIn(queue') = SubSeq(s, k + 1, Len(s))
    BY <1>1, SpansInSuffix, <1>2
  <2>4. \A i \in 1..Len(queue) : queue[i].end \in Nat /\ queue[i].start \in Nat
    <3> SUFFICES ASSUME NEW i \in 1..Len(queue)
                 PROVE  queue[i].end \in Nat /\ queue[i].start \in Nat
      OBVIOUS
    <3>1. queue[i] \in Clip
      BY <1>2, ElementOfSeq
    <3> QED BY <3>1 DEF Clip
  <2>5. p \in Nat /\ (\A i \in 1..k : queue[i].end <= p)
          /\ (k < Len(queue) => queue[k + 1].end > p)
    BY <1>1, <1>4 DEF Finished
  <2> HIDE DEF p
  <2>6. ASSUME NEW i \in 1..Len(queue), k < i PROVE p < queue[i].end
    <3>1. k + 1 \in 1..Len(queue) /\ queue[k + 1].end > p
      BY <1>2, <1>3, <2>5, <2>6
    <3>2. CASE i = k + 1
      BY <3>1, <3>2
    <3>3. CASE i # k + 1
      <4>1. k + 1 < i
        BY <1>2, <1>3, <2>6, <3>3
      <4>2. queue[k + 1].end <= queue[i].start /\ queue[i].start < queue[i].end
        BY <3>1, <4>1 DEF SpanInv, SpansOrdered
      <4>3. queue[k + 1].end \in Nat /\ queue[i].start \in Nat /\ queue[i].end \in Nat
        BY <2>4, <3>1
      <4> QED BY <2>5, <3>1, <4>2, <4>3
    <3> QED BY <3>2, <3>3
  <2>7. \A i \in 1..Len(queue) : (i <= k) = (queue[i].end <= p)
    <3> SUFFICES ASSUME NEW i \in 1..Len(queue) PROVE (i <= k) = (queue[i].end <= p)
      OBVIOUS
    <3>1. CASE i <= k
      <4>1. queue[i].end <= p
        BY <1>2, <1>3, <2>5, <3>1
      <4> QED BY <3>1, <4>1
    <3>2. CASE ~(i <= k)
      <4>1. p < queue[i].end
        BY <1>2, <1>3, <2>6, <3>2
      <4>2. ~(queue[i].end <= p)
        BY <2>4, <2>5, <4>1
      <4> QED BY <3>2, <4>2
    <3> QED BY <3>1, <3>2
  <2>8. \A i \in 1..Len(s) : (i <= doneCount' - doneCount) = (s[i].end <= AudibleMs')
    BY <1>3, <2>2, <2>7 DEF p
  <2>9. SpansIn(queue)' = SubSeq(s, doneCount' - doneCount + 1, Len(s))
    BY <1>3, <2>3
  <2>10. Playlist!Advance
    BY <1>3, <2>1, <2>2, <2>8, <2>9 DEF Playlist!Advance
  <2> QED BY <2>10 DEF PlaylistStep, Playlist!Next
<1> QED BY <1>5, <1>6

\* Writing audio of a clip is a stutter.
LEMMA FeedClipIsStutter ==
  ASSUME TypeOK, TypeOK', FeedClip
  PROVE  PlaylistStep
<1> DEFINE k == feedIdx + 1
           w == Fits(Min2(queue[k].rem, budget))
<1>1. k \in 1..Len(queue) /\ queue \in Seq(Clip) /\ queue' \in Seq(Clip)
  BY LenProperties DEF TypeOK, TypeClips, FeedClip
<1>2. queue' = [queue EXCEPT ![k] = Taken(queue[k], w)]
  BY DEF FeedClip
<1>3. doneCount' = doneCount /\ AudibleMs' = AudibleMs
  BY DEF FeedClip, feedRest, clockNoFeed, AudibleMs
<1> HIDE DEF k, w
<1>4. /\ DOMAIN queue' = DOMAIN queue
      /\ \A i \in DOMAIN queue : queue'[i] = IF i = k THEN Taken(queue[k], w) ELSE queue[i]
  BY <1>2
<1>5. /\ DOMAIN queue = 1..Len(queue) /\ DOMAIN queue' = 1..Len(queue')
      /\ Len(queue) \in Nat /\ Len(queue') \in Nat
  BY <1>1, LenProperties
<1>6. Len(queue') = Len(queue)
  BY <1>4, <1>5
<1>7. \A i \in 1..Len(queue) : /\ queue[i].id = queue'[i].id
                               /\ queue[i].start = queue'[i].start
                               /\ queue[i].end = queue'[i].end
  BY <1>4, <1>5 DEF Taken
<1>8. SpansIn(queue) = SpansIn(queue')
  BY <1>1, <1>6, <1>7, SpansInEqual
<1> QED BY <1>3, <1>8 DEF PlaylistStep

\* Every step of the daemon is a step of the playlist or leaves it alone.
LEMMA RefinementStep ==
  ASSUME "resume_legacy" \notin Cmds,
         TypeOK, TypeOK', SpanInv, PosInv, [Next]_vars
  PROVE  PlaylistStep
<1>1. CASE \E dur \in Durations, gap \in Gaps, rate \in Rates : PlayAppend(dur, gap, rate)
  BY <1>1, AppendIsEnqueue
<1>2. CASE \E dur \in Durations, gap \in Gaps, rate \in Rates,
              built \in BuildResults, opened \in BOOLEAN :
             PlayLazyBuild(dur, gap, rate, built, opened)
  <2>1. PICK dur \in Durations, gap \in Gaps, rate \in Rates,
             built \in BuildResults, opened \in BOOLEAN :
               PlayLazyBuild(dur, gap, rate, built, opened)
    BY <1>2
  <2>2. queue = <<>> /\ doneCount' = doneCount /\ fedEnd \in Nat
    BY <2>1 DEF PlayLazyBuild, PosInv, NoPipe, TypeOK, TypeClips
  <2>3. AudibleMs' = 0
    BY <2>1 DEF PlayLazyBuild, FrozenAtBuild, AudibleMs
  <2>4. CASE built = "up" /\ opened
    <3>1. queue_clip(<<>>, fedEnd, dur, gap)
      BY <2>1, <2>2, <2>4 DEF PlayLazyBuild
    <3> QED BY <2>2, <2>3, <3>1, FirstClipIsRestart
  <2>5. CASE ~(built = "up" /\ opened)
    <3>1. queue' = <<>>
      BY <2>1, <2>2, <2>5 DEF PlayLazyBuild
    <3> QED BY <2>2, <3>1, DropIsRestart
  <2> QED BY <2>4, <2>5
<1>3. CASE \E dur \in Durations, gap \in Gaps, rate \in Rates,
              built \in BuildResults, opened \in BOOLEAN :
             PlayRebuild(dur, gap, rate, built, opened)
  <2>1. PICK dur \in Durations, gap \in Gaps, rate \in Rates,
             built \in BuildResults, opened \in BOOLEAN :
               PlayRebuild(dur, gap, rate, built, opened)
    BY <1>3
  <2>2. doneCount' = doneCount /\ AudibleMs' = 0 /\ 0 \in Nat
    BY <2>1 DEF PlayRebuild, FrozenAtBuild, AudibleMs
  <2>3. CASE built = "up" /\ opened
    <3>1. queue_clip(<<>>, 0, dur, gap)
      BY <2>1, <2>3 DEF PlayRebuild
    <3> QED BY <2>2, <3>1, FirstClipIsRestart
  <2>4. CASE ~(built = "up" /\ opened)
    <3>1. queue' = <<>>
      BY <2>1, <2>4 DEF PlayRebuild
    <3> QED BY <2>2, <3>1, DropIsRestart
  <2> QED BY <2>3, <2>4
<1>4. CASE Pause
  <2>1. queue' = queue /\ doneCount' = doneCount
    BY <1>4 DEF Pause, clipVars
  <2> QED BY <1>4, <2>1, PausePos, SameIsStutter
<1>5. CASE ResumeClips
  <2>1. queue' = queue /\ doneCount' = doneCount
    BY <1>5 DEF ResumeClips, clipVars
  <2> QED BY <1>5, <2>1, ResumeClipsPos, SameIsStutter
<1>6. CASE ResumeLegacy
  BY <1>6 DEF ResumeLegacy, Command
<1>7. CASE Stop \/ Release \/ ExternalRefused
  <2>1. queue' = <<>> /\ doneCount' = doneCount
    BY <1>7 DEF Stop, Release, ExternalRefused, drop_queue
  <2> QED BY <2>1, DropIsRestart
<1>8. CASE \E built \in BuildResults : Flush(built) \/ BusRebuild(built)
  <2>1. queue' = <<>> /\ doneCount' = doneCount
    BY <1>8 DEF Flush, BusRebuild, Rebuild, drop_queue
  <2> QED BY <2>1, DropIsRestart
<1>9. CASE \E built \in BuildResults, pos \in Positions :
             \/ ResumeAt(pos, built)
             \/ \E total \in Totals :
                  \/ Seek(pos, total, built)
                  \/ \E rate \in Rates, dec \in BOOLEAN :
                       External(rate, pos, total, dec, built)
  <2>1. PICK pos, total, built : stream_epoch(pos, total, built)
    BY <1>9 DEF ResumeAt, Seek, External
  <2>2. queue' = <<>>
    BY <2>1 DEF stream_epoch, Rebuild, drop_queue
  <2>3. doneCount' = doneCount
    BY <1>9 DEF ResumeAt, Seek, External
  <2> QED BY <2>2, <2>3, DropIsRestart
<1>10. CASE FeedClip
  BY <1>10, FeedClipIsStutter
<1>11. CASE \/ \E n \in 1..FEED_CHUNK : FeedDecoded(n)
            \/ FeedKeepalive \/ FeedStart \/ FeedNothing
            \/ FeedGap \/ FeedQueueEnd \/ FeedClipEnd \/ FeedBudgetSpent
  <2>1. queue' = queue /\ doneCount' = doneCount
    BY <1>11 DEF FeedDecoded, FeedKeepalive, FeedStart, FeedNothing, FeedGap,
        FeedQueueEnd, FeedClipEnd, FeedBudgetSpent, feedRest, clipVars
  <2>2. UNCHANGED <<paused, epochOff, base, frozen, anchorWait, age, accBytes>>
    BY <1>11 DEF FeedDecoded, FeedKeepalive, FeedStart, FeedNothing, FeedGap,
        FeedQueueEnd, FeedClipEnd, FeedBudgetSpent, feedRest, clockVars, clockNoFeed
  <2>3. AudibleMs' = AudibleMs
    BY <2>2 DEF AudibleMs
  <2> QED BY <2>1, <2>3, SameIsStutter
<1>12. CASE Bookkeep
  BY <1>12, BookkeepIsAdvance
<1>13. CASE BusGiveUp \/ Elapse \/ Sink \/ ExtWrite
  <2>1. UNCHANGED <<queue, doneCount, paused, epochOff, base, frozen, anchorWait, age, accBytes>>
    BY <1>13 DEF BusGiveUp, Elapse, Sink, Accept, ExtWrite, clockVars, clipVars
  <2>2. AudibleMs' = AudibleMs
    BY <2>1 DEF AudibleMs
  <2> QED BY <2>1, <2>2, SameIsStutter
<1>14. CASE UNCHANGED vars
  <2>1. UNCHANGED <<queue, doneCount, paused, epochOff, base, frozen, anchorWait, age, accBytes>>
    BY <1>14 DEF vars, clockVars, clipVars
  <2>2. AudibleMs' = AudibleMs
    BY <2>1 DEF AudibleMs
  <2> QED BY <2>1, <2>2, SameIsStutter
<1> QED BY <1>1, <1>2, <1>3, <1>4, <1>5, <1>6, <1>7, <1>8, <1>9, <1>10, <1>11,
           <1>12, <1>13, <1>14
        DEF Next, Client, Feed, Bus

\* A freshly spawned daemon is an empty playlist.
LEMMA RefinementInit == Init => Playlist!Init
<1> SUFFICES ASSUME Init PROVE Playlist!Init
  OBVIOUS
<1>1. queue = <<>> /\ doneCount = 0
  BY DEF Init, InitDaemon
<1>2. AudibleMs = 0
  BY DEF Init, InitDaemon, AudibleMs
<1> QED BY <1>1, <1>2, SpansInEmpty DEF Playlist!Init

\* The daemon's clip side is a playlist for every queue length, fifo size,
\* pacing constant, duration and failure, as long as every resume of an
\* external stream carries a position.
THEOREM DaemonImplementsPlaylist ==
  ASSUME "resume_legacy" \notin Cmds
  PROVE  Spec => ImplementsPlaylist
<1>1. Init => PosInv
  BY DEF Init, InitDaemon, PosInv, IntakeLags, NoPipe, FrozenBelowEpoch, FrozenBelowAnchor
<1>2. TypeOK /\ SpanInv /\ PosInv /\ [Next]_vars => PosInv'
  BY PosStep DEF SpanInv
<1>3. Spec => [](TypeOK /\ SpanInv)
  BY TypeCorrect, QueueUnheard, PTL DEF SpanInv
<1>4. Spec => []PosInv
  BY <1>1, <1>2, <1>3, PTL DEF Spec
<1>5. TypeOK /\ TypeOK' /\ SpanInv /\ PosInv /\ [Next]_vars
        => [Playlist!Next]_<<SpansIn(queue), AudibleMs, doneCount>>
  BY RefinementStep DEF PlaylistStep
<1> QED BY <1>3, <1>4, <1>5, RefinementInit, PTL
        DEF Spec, ImplementsPlaylist, Playlist!Spec
=============================================================================
