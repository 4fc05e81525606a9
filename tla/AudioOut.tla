------------------------------ MODULE AudioOut ------------------------------
(***************************************************************************)
(* The audioout daemon (audioout.c) on its GStreamer (MTK) output: one     *)
(* poll loop that drains client commands, feeds PCM into a bounded fifo,   *)
(* and keeps the audible clock from which clip completion, the reported    *)
(* position and the external-stream completion latch are derived.          *)
(*                                                                         *)
(* Time and audio are counted in one abstract unit of milliseconds.  The   *)
(* code only ever uses differences of wall-clock values, so the clock is   *)
(* kept as `age` (wall_now - external_anchor_wall_ms) and `lag` (real time *)
(* that the tick copy wall_now has not caught up with yet).  The probe     *)
(* thread and the sink run concurrently with the loop.                     *)
(***************************************************************************)
EXTENDS Integers, Sequences

CONSTANTS
  MAX_QUEUE,             \* clips the daemon holds at once
  FEED_CHUNK,            \* most audio written by one feed tick
  SILENCE_CHUNK,         \* one keepalive write
  FEED_LEAD_MS,          \* how far the fifo head may lead the audible clock
  AUDIBLE_TAIL_SLACK_MS, \* how far the audible clock may pass the intake
  DONE_TOLERANCE,        \* slack of the external completion test
  PipeCap,               \* audio the fifo and the pipeline hold before EAGAIN
  MAX_RETRIES,           \* automatic pipeline rebuilds after bus errors
  Durations, Gaps, Rates, Positions, Totals,  \* what clients may ask for
  Cmds,                  \* the commands the clients of this instance issue
  Faults,                \* the failures this environment injects
  MaxClips, Horizon, MaxLag, MaxIntake        \* bounds for model checking

ASSUME Sizes ==
  /\ MAX_QUEUE \in Nat \ {0}
  /\ FEED_CHUNK \in Nat \ {0}
  /\ SILENCE_CHUNK \in Nat \ {0}
  /\ FEED_LEAD_MS \in Nat
  /\ AUDIBLE_TAIL_SLACK_MS \in Nat
  /\ DONE_TOLERANCE \in Nat
  /\ PipeCap \in Nat \ {0}
  /\ MAX_RETRIES \in Nat

ASSUME Inputs ==
  /\ Durations \subseteq Nat \ {0}
  /\ Gaps \subseteq Nat
  /\ Rates \subseteq Nat \ {0}
  /\ Positions \subseteq Nat
  /\ Totals \subseteq Nat

ASSUME Bounds == MaxClips \in Nat /\ Horizon \in Nat /\ MaxLag \in Nat /\ MaxIntake \in Nat

VARIABLES
  pc,            \* "recv" (commands), "feed" (inside the feed loop), "book", "bus"
  budget,        \* what the running feed tick may still write, 0 outside one
  pipe,          \* "none" (S.pipe NULL), "up", or "failed" (built, never PLAYING)
  gRate,         \* g_rate: the rate positions and pacing are computed at
  pipeRate,      \* S.pipe_rate: the rate the pipeline was built for
  fifoOpen,      \* S.fifo_fd >= 0
  backlog,       \* audio written but not yet accepted by the sink
  kaWait,        \* next_ka_ms - wall_now, floored at 0
  retries,       \* pipeline_retries
  queue,         \* the clips, head first
  feedIdx,       \* clip being fed, -1 when none was started
  allFed, gapLeft, fedEnd, doneCount, announceIdle,
  paused,
  extActive, extDec, extTotal, extDone,   \* external stream mode
  epochOff, base, frozen, anchorWait, age, lag,   \* the audible clock
  accBytes,      \* the main thread's copy of the probe count
  fifoWritten,   \* audio handed to the fifo by the daemon since the build
  probeBytes, probeLast,   \* written by the probe callback, never reset
  accepted,      \* history: plays answered ok, the next clip's id
  probeAtBuild   \* history: probeBytes when the running stream was built

loopVars  == <<pc, budget>>
outVars   == <<pipe, gRate, pipeRate, fifoOpen, backlog, kaWait, retries>>
clipVars  == <<queue, feedIdx, allFed, gapLeft, fedEnd, doneCount, announceIdle>>
extVars   == <<extActive, extDec, extTotal, extDone>>
clockVars == <<epochOff, base, frozen, anchorWait, age, accBytes, fifoWritten>>
probeVars == <<probeBytes, probeLast>>
vars == <<loopVars, outVars, clipVars, paused, extVars, clockVars, lag,
          probeVars, accepted, probeAtBuild>>

Min2(a, b) == IF a <= b THEN a ELSE b
Max2(a, b) == IF a >= b THEN a ELSE b

Clip == [id: Nat, dur: Nat, rem: Nat, gap: Nat, start: Nat, end: Nat]

-----------------------------------------------------------------------------
(* The audible clock.                                                      *)

\* audible_ms(): anchored wall time, clamped to the intake plus the tail
\* allowance and never below the anchor; frozen while paused or unanchored.
Audible(eo, bs, ag, acc) ==
  Max2(Min2(eo + bs + ag, eo + acc + AUDIBLE_TAIL_SLACK_MS), eo + bs)

AudibleMs ==
  IF paused \/ anchorWait \/ accBytes = 0
  THEN frozen
  ELSE Audible(epochOff, base, age, accBytes)

\* status caps the position at the end of real audio.
ReportedPos ==
  LET cap == IF extActive THEN extTotal ELSE fedEnd
  IN  IF cap > 0 THEN Min2(AudibleMs, cap) ELSE AudibleMs

state_str ==
  IF paused THEN "paused"
  ELSE IF feedIdx >= 0 /\ ~allFed THEN "playing"
  ELSE IF queue # <<>> THEN "buffered" ELSE "idle"

-----------------------------------------------------------------------------
(* Initial state: a freshly spawned daemon.  The pipeline is built lazily. *)

InitDaemon ==
  /\ pc = "recv" /\ budget = 0
  /\ pipe = "none" /\ gRate \in Rates /\ pipeRate = 0 /\ fifoOpen = FALSE
  /\ backlog = 0 /\ kaWait = 0 /\ retries = 0
  /\ queue = <<>> /\ feedIdx = -1 /\ allFed = TRUE /\ gapLeft = 0
  /\ fedEnd = 0 /\ doneCount = 0 /\ announceIdle = FALSE
  /\ paused = FALSE
  /\ extActive = FALSE /\ extDec = FALSE /\ extTotal = 0 /\ extDone = FALSE
  /\ epochOff = 0 /\ base = 0 /\ frozen = 0 /\ anchorWait = FALSE
  /\ age = 0 /\ lag = 0 /\ accBytes = 0 /\ fifoWritten = 0
  /\ probeBytes = 0 /\ probeLast = 0 /\ probeAtBuild = 0

Init == InitDaemon /\ accepted = 0

-----------------------------------------------------------------------------
(* Building blocks shared by the command handlers.                         *)

drop_queue ==
  queue' = <<>> /\ feedIdx' = -1 /\ allFed' = TRUE /\ gapLeft' = 0

BuildResults ==
  IF "build" \in Faults THEN {"up", "failed", "none"} ELSE {"up"}

\* pipeline_teardown, reset_stream, fifo_open and pipeline_build in a row.
\* The probe counter is not reset; age means nothing until the next anchor.
Rebuild(rate, built) ==
  /\ drop_queue
  /\ fedEnd' = 0 /\ fifoWritten' = 0 /\ accBytes' = 0
  /\ backlog' = 0 /\ fifoOpen' = TRUE
  /\ pipe' = built
  /\ pipeRate' = IF built = "up" THEN rate ELSE pipeRate
  /\ anchorWait' = TRUE /\ age' = 0
  /\ probeAtBuild' = probeBytes

\* What pipeline_build leaves in external_frozen_ms.  Mutant: nothing.
FrozenKept == frozen

FrozenAtBuild == 0

\* Where and with which completion latch an epoch starts.  Mutant: with the
\* latch of the old stream.
EpochFrozen(pos) == pos

EpochLatchKept == extDone
EpochLatch == FALSE

\* A fresh epoch at client position pos.  A failed build leaves the clock
\* wherever pipeline_build put it.
stream_epoch(pos, total, built) ==
  /\ Rebuild(gRate', built)
  /\ extTotal' = total /\ extDone' = EpochLatch /\ announceIdle' = TRUE
  /\ IF built = "up"
     THEN epochOff' = pos /\ base' = 0 /\ frozen' = EpochFrozen(pos)
     ELSE frozen' = FrozenAtBuild /\ UNCHANGED <<epochOff, base>>

\* The later of the listener and the end of the queue.  Mutant: the queue alone.
StartAtFed == fedEnd

NextStart == Max2(AudibleMs, fedEnd)

\* queue_clip: the span starts where the listener is, or after the last
\* queued clip when that is later.
queue_clip(q, from, dur, gap) ==
  LET end == from + dur + gap IN
  /\ end <= Horizon
  /\ queue' = Append(q, [id |-> accepted, dur |-> dur, rem |-> dur,
                         gap |-> gap, start |-> from, end |-> end])
  /\ fedEnd' = end
  /\ allFed' = FALSE
  /\ announceIdle' = FALSE
  /\ accepted' = accepted + 1

Command(name) == pc = "recv" /\ name \in Cmds

-----------------------------------------------------------------------------
(* play                                                                    *)

\* play with no pipeline: built for the clip's rate.  g_rate keeps its value.
PlayLazyBuild(dur, gap, rate, built, opened) ==
  /\ Command("play") /\ accepted < MaxClips
  /\ Len(queue) < MAX_QUEUE
  /\ pipe = "none"
  /\ fifoOpen' = TRUE
  /\ pipe' = built
  /\ pipeRate' = IF built = "up" THEN rate ELSE pipeRate
  /\ anchorWait' = TRUE /\ age' = 0 /\ frozen' = FrozenAtBuild
  /\ probeAtBuild' = probeBytes
  /\ IF built = "up" /\ opened
     THEN queue_clip(queue, fedEnd, dur, gap)
     ELSE UNCHANGED <<queue, fedEnd, allFed, announceIdle, accepted>>
  /\ UNCHANGED <<loopVars, gRate, backlog, kaWait, retries, feedIdx, gapLeft,
                 doneCount, paused, extVars, epochOff, base, accBytes,
                 fifoWritten, lag, probeVars>>

\* play at another rate than the running pipeline: rebuild, queue dropped.
PlayRebuild(dur, gap, rate, built, opened) ==
  /\ Command("play") /\ accepted < MaxClips
  /\ Len(queue) < MAX_QUEUE
  /\ pipe # "none" /\ rate # pipeRate
  /\ gRate' = rate
  /\ fifoOpen' = TRUE /\ backlog' = 0
  /\ pipe' = built
  /\ pipeRate' = IF built = "up" THEN rate ELSE pipeRate
  /\ fifoWritten' = 0 /\ accBytes' = 0
  /\ anchorWait' = TRUE /\ age' = 0 /\ frozen' = FrozenAtBuild
  /\ probeAtBuild' = probeBytes
  /\ feedIdx' = -1 /\ gapLeft' = 0
  /\ IF built = "up" /\ opened
     THEN queue_clip(<<>>, 0, dur, gap)
     ELSE /\ queue' = <<>> /\ fedEnd' = 0 /\ allFed' = TRUE
          /\ UNCHANGED <<announceIdle, accepted>>
  /\ UNCHANGED <<loopVars, kaWait, retries, doneCount, paused, extVars,
                 epochOff, base, lag, probeVars>>

\* play on the running pipeline: append.
PlayAppend(dur, gap, rate) ==
  /\ Command("play") /\ accepted < MaxClips
  /\ Len(queue) < MAX_QUEUE
  /\ pipe # "none" /\ rate = pipeRate
  /\ queue_clip(queue, NextStart, dur, gap)
  /\ UNCHANGED <<loopVars, outVars, feedIdx, gapLeft, doneCount, paused,
                 extVars, clockVars, lag, probeVars, probeAtBuild>>

-----------------------------------------------------------------------------
(* pause, resume, stop, flush, release                                     *)

\* Mutant: only an external stream keeps its position over a pause.
PauseCollapses == IF extActive THEN AudibleMs ELSE 0

\* While paused this is the frozen value itself.
PausePosition == AudibleMs

Pause ==
  /\ Command("pause")
  /\ frozen' = PausePosition
  /\ paused' = TRUE
  /\ UNCHANGED <<loopVars, outVars, clipVars, extVars, epochOff, base,
                 anchorWait, age, accBytes, fifoWritten, lag, probeVars, accepted,
                 probeAtBuild>>

\* Mutant: the clock restarts from the intake.
ResumeAtIntake == 0

ResumeBase == frozen

\* Clip mode: the clock continues from the frozen value.
ResumeClips ==
  /\ Command("resume")
  /\ paused /\ ~extActive
  /\ paused' = FALSE
  /\ base' = ResumeBase /\ epochOff' = 0 /\ age' = 0
  /\ anchorWait' = FALSE
  /\ UNCHANGED <<loopVars, outVars, clipVars, extVars, frozen, accBytes,
                 fifoWritten, lag, probeVars, accepted,
                 probeAtBuild>>

\* External mode, no position given: re-anchor on the next intake movement.
\* external_wait_first is only ever set together with anchor_wait and has no
\* effect of its own.
ResumeLegacy ==
  /\ Command("resume_legacy")
  /\ paused /\ extActive
  /\ paused' = FALSE
  /\ base' = 0 /\ anchorWait' = TRUE /\ age' = 0
  /\ UNCHANGED <<loopVars, outVars, clipVars, extVars, epochOff, frozen,
                 accBytes, fifoWritten, lag, probeVars, accepted,
                 probeAtBuild>>

\* External mode with the client's position: a new epoch there.
ResumeAt(pos, built) ==
  /\ Command("resume_at")
  /\ extActive
  /\ UNCHANGED gRate
  /\ stream_epoch(pos, extTotal, built)
  /\ paused' = IF built = "up" THEN FALSE ELSE paused
  /\ UNCHANGED <<loopVars, kaWait, retries, doneCount, extActive, extDec,
                 lag, probeVars, accepted>>

Stop ==
  /\ Command("stop")
  /\ drop_queue
  /\ UNCHANGED <<loopVars, outVars, fedEnd, doneCount, announceIdle, paused,
                 extVars, clockVars, lag, probeVars, accepted,
                 probeAtBuild>>

Flush(built) ==
  /\ Command("flush")
  /\ extActive' = FALSE /\ extDec' = FALSE /\ extTotal' = 0 /\ extDone' = FALSE
  /\ epochOff' = 0
  /\ IF pipe = "none"
     THEN /\ drop_queue
          /\ UNCHANGED <<fedEnd, fifoWritten, accBytes, backlog, fifoOpen, pipe,
                         pipeRate, anchorWait, age, frozen, probeAtBuild>>
     ELSE Rebuild(gRate, built) /\ frozen' = FrozenAtBuild
  /\ UNCHANGED <<loopVars, gRate, kaWait, retries, doneCount, announceIdle,
                 paused, base, lag, probeVars, accepted>>

Release ==
  /\ Command("release")
  /\ drop_queue
  /\ extActive' = FALSE /\ extDec' = FALSE /\ extTotal' = 0 /\ extDone' = FALSE
  /\ epochOff' = 0
  /\ IF pipe = "none"
     THEN UNCHANGED <<fedEnd, fifoWritten, accBytes, backlog, fifoOpen>>
     ELSE /\ fedEnd' = 0 /\ fifoWritten' = 0 /\ accBytes' = 0
          /\ backlog' = 0 /\ fifoOpen' = FALSE
  /\ pipe' = "none"
  /\ UNCHANGED <<loopVars, gRate, pipeRate, kaWait, retries, doneCount,
                 announceIdle, paused, base, frozen, anchorWait, age,
                 lag, probeVars, accepted,
                 probeAtBuild>>

-----------------------------------------------------------------------------
(* external streams                                                        *)

\* external: a decoder that does not open leaves external mode switched off.
ExternalRefused ==
  /\ Command("external_file")
  /\ drop_queue
  /\ extActive' = FALSE /\ extDec' = FALSE
  /\ UNCHANGED <<loopVars, outVars, fedEnd, doneCount, announceIdle, paused,
                 extTotal, extDone, clockVars, lag, probeVars, accepted,
                 probeAtBuild>>

External(rate, pos, total, dec, built) ==
  /\ Command(IF dec THEN "external_file" ELSE "external")
  /\ pos <= Horizon /\ total <= Horizon
  /\ gRate' = rate
  /\ stream_epoch(pos, total, built)
  /\ extDec' = dec
  /\ extActive' = (built = "up")
  /\ paused' = IF built = "up" THEN FALSE ELSE paused
  /\ UNCHANGED <<loopVars, kaWait, retries, doneCount, lag, probeVars,
                 accepted>>

Seek(pos, total, built) ==
  /\ Command("seek")
  /\ extActive
  /\ pos <= Horizon /\ total <= Horizon
  /\ UNCHANGED gRate
  /\ stream_epoch(pos, total, built)
  /\ UNCHANGED <<loopVars, kaWait, retries, doneCount, paused, extActive,
                 extDec, lag, probeVars, accepted>>

-----------------------------------------------------------------------------
(* The environment: real time, the sink's streaming thread, the outside    *)
(* writer of an external stream.                                           *)

Elapse ==
  /\ pc = "recv" /\ lag < MaxLag
  /\ anchorWait \/ epochOff + base + age + lag < Horizon
  /\ lag' = lag + 1
  /\ UNCHANGED <<loopVars, outVars, clipVars, paused, extVars, clockVars,
                 probeVars, accepted, probeAtBuild>>

\* probe_cb: the sink takes a buffer of n, at whatever point the loop is.
Accept(n) ==
  /\ pipe = "up" /\ n \in 1..backlog
  /\ probeBytes + n <= MaxIntake
  /\ backlog' = backlog - n
  /\ probeBytes' = probeBytes + n /\ probeLast' = n
  /\ UNCHANGED <<loopVars, pipe, gRate, pipeRate, fifoOpen, kaWait, retries,
                 clipVars, paused, extVars, clockVars, lag, accepted,
                 probeAtBuild>>

\* ffmpeg fills the fifo of an external stream the daemon does not decode.
ExtWrite ==
  /\ extActive /\ ~extDec /\ fifoOpen
  /\ backlog < PipeCap
  /\ backlog' = backlog + 1
  /\ UNCHANGED <<loopVars, pipe, gRate, pipeRate, fifoOpen, kaWait, retries,
                 clipVars, paused, extVars, clockVars, lag, probeVars, accepted,
                 probeAtBuild>>

-----------------------------------------------------------------------------
(* feed_tick, after the pending commands of this iteration of the loop.    *)

\* Mutant: EAGAIN is taken for a complete write.
FitsAlways(want) == want

\* fifo_write: what fits goes in, the rest is EAGAIN.
Fits(want) == Min2(want, PipeCap - backlog)

Wrote(w) == backlog' = backlog + w /\ fifoWritten' = fifoWritten + w

outNoFeed == <<pipe, gRate, pipeRate, fifoOpen, retries>>
clockNoFeed == <<epochOff, base, frozen, anchorWait, age, accBytes>>

FeedIdle == feedIdx < 0 /\ queue = <<>>

\* The daemon's own decoder: one pull per tick, not paced, and what the
\* fifo does not take is gone.
FeedDecoded(n) ==
  /\ pc = "recv" /\ extActive /\ extDec /\ ~paused
  /\ n \in 1..FEED_CHUNK
  /\ Wrote(Fits(n))
  /\ pc' = "book"
  /\ UNCHANGED <<budget, outNoFeed, kaWait, clipVars, paused, extVars,
                 clockNoFeed, lag, probeVars, accepted, probeAtBuild>>

\* Idle, or all written and still rendering: silence at real-time pace.
FeedKeepalive ==
  /\ pc = "recv" /\ ~extActive /\ ~paused /\ fifoOpen
  /\ FeedIdle \/ allFed
  /\ kaWait = 0
  /\ Wrote(Fits(SILENCE_CHUNK))
  /\ kaWait' = SILENCE_CHUNK
  /\ pc' = "book"
  /\ UNCHANGED <<budget, outNoFeed, clipVars, paused, extVars, clockNoFeed, lag,
                 probeVars, accepted, probeAtBuild>>

\* Mutant: the gate compares with the position of the last pause.
LeadOpenFrozen == anchorWait \/ fifoWritten - frozen <= FEED_LEAD_MS

\* The lead gate, measured against the audible clock once it is anchored.
LeadOpen == anchorWait \/ fifoWritten - AudibleMs <= FEED_LEAD_MS

FeedStart ==
  /\ pc = "recv" /\ ~extActive /\ ~paused /\ fifoOpen
  /\ ~FeedIdle /\ ~allFed /\ LeadOpen
  /\ feedIdx' = Max2(feedIdx, 0)
  /\ budget' = FEED_CHUNK
  /\ pc' = "feed"
  /\ UNCHANGED <<outVars, queue, allFed, gapLeft, fedEnd, doneCount,
                 announceIdle, paused, extVars, clockVars, lag, probeVars,
                 accepted, probeAtBuild>>

\* Every early return of feed_tick.
FeedNothing ==
  /\ pc = "recv"
  /\ \/ extActive                      \* the stream or dec_pull gave nothing
     \/ paused \/ ~fifoOpen
     \/ (FeedIdle \/ allFed) /\ kaWait > 0
     \/ ~FeedIdle /\ ~allFed /\ ~LeadOpen
  /\ pc' = "book"
  /\ UNCHANGED <<budget, outVars, clipVars, paused, extVars, clockVars, lag,
                 probeVars, accepted, probeAtBuild>>

feedRest == <<outNoFeed, kaWait, fedEnd, doneCount, announceIdle, paused,
              extVars, clockNoFeed, lag, probeVars, accepted, probeAtBuild>>

\* One pass of the feed loop each: the gap, the end of the queue, the end of
\* a clip (or a read that failed, which skips the rest of it), its audio.
FeedGap ==
  /\ pc = "feed" /\ budget > 0 /\ gapLeft > 0
  /\ LET want == Min2(gapLeft, Min2(budget, SILENCE_CHUNK))
         w    == Fits(want)
     IN  /\ Wrote(w)
         /\ gapLeft' = gapLeft - w
         /\ budget' = IF w < want THEN 0 ELSE budget - w
         /\ pc' = IF w < want THEN "book" ELSE "feed"
  /\ UNCHANGED <<queue, feedIdx, allFed, feedRest>>

FeedQueueEnd ==
  /\ pc = "feed" /\ budget > 0 /\ gapLeft = 0
  /\ feedIdx >= Len(queue)
  /\ allFed' = TRUE
  /\ pc' = "book" /\ budget' = 0
  /\ UNCHANGED <<queue, feedIdx, gapLeft, backlog, fifoWritten, feedRest>>

FeedClipEnd ==
  /\ pc = "feed" /\ budget > 0 /\ gapLeft = 0
  /\ feedIdx < Len(queue)
  /\ (queue[feedIdx + 1].rem = 0 \/ "read" \in Faults)
  /\ gapLeft' = queue[feedIdx + 1].gap
  /\ feedIdx' = feedIdx + 1
  /\ UNCHANGED <<pc, budget, queue, allFed, backlog, fifoWritten, feedRest>>

\* c with w of its audio written.
Taken(c, w) == [id |-> c.id, dur |-> c.dur, rem |-> c.rem - w, gap |-> c.gap,
                start |-> c.start, end |-> c.end]

FeedClip ==
  /\ pc = "feed" /\ budget > 0 /\ gapLeft = 0
  /\ feedIdx < Len(queue)
  /\ queue[feedIdx + 1].rem > 0
  /\ LET n == Min2(queue[feedIdx + 1].rem, budget)
         w == Fits(n)
     IN  /\ Wrote(w)
         /\ queue' = [queue EXCEPT ![feedIdx + 1] = Taken(@, w)]
         /\ budget' = IF w < n THEN 0 ELSE budget - w
         /\ pc' = IF w < n THEN "book" ELSE "feed"
  /\ UNCHANGED <<feedIdx, allFed, gapLeft, feedRest>>

FeedBudgetSpent ==
  /\ pc = "feed" /\ budget = 0
  /\ pc' = "book"
  /\ UNCHANGED <<budget, queue, feedIdx, allFed, gapLeft, backlog, fifoWritten,
                 feedRest>>

-----------------------------------------------------------------------------
(* tick_bookkeeping                                                        *)

\* refresh_clock at wall time wall_now + lag.
refresh_clock ==
  LET moved == probeBytes # accBytes IN
  /\ accBytes' = probeBytes
  /\ anchorWait' = (anchorWait /\ ~moved)
  /\ base' = IF anchorWait /\ moved THEN probeLast ELSE base
  /\ age' = IF anchorWait THEN 0 ELSE age + lag
  /\ lag' = 0
  /\ kaWait' = Max2(0, kaWait - lag)

\* The first k clips end at or before rend, and the loop stops at the next.
Finished(k, rend) ==
  /\ \A i \in 1..k : queue[i].end <= rend
  /\ k < Len(queue) => queue[k + 1].end > rend

\* Mutant: the cursor does not follow the shift.
complete_clipsCursorStays(rend) ==
  \E k \in 0..Len(queue) :
    /\ Finished(k, rend)
    /\ queue' = SubSeq(queue, k + 1, Len(queue))
    /\ doneCount' = doneCount + k
    /\ UNCHANGED feedIdx

complete_clips(rend) ==
  \E k \in 0..Len(queue) :
    /\ Finished(k, rend)
    /\ queue' = SubSeq(queue, k + 1, Len(queue))
    /\ doneCount' = doneCount + k
    /\ feedIdx' = IF feedIdx > 0 THEN Max2(feedIdx - k, 0) ELSE feedIdx

Bookkeep ==
  /\ pc = "book"
  /\ UNCHANGED <<budget, pipe, gRate, pipeRate, fifoOpen, backlog, retries,
                 allFed, gapLeft, fedEnd, paused, extActive, extDec, extTotal,
                 epochOff, frozen, fifoWritten, probeVars, accepted,
                 probeAtBuild>>
  /\ refresh_clock
  /\ LET rend == AudibleMs' IN
     /\ complete_clips(rend)
     /\ announceIdle' = (announceIdle
                          \/ (queue' = <<>> /\ fedEnd > 0 /\ rend >= fedEnd))
     /\ extDone' = (extDone
                    \/ (extActive /\ ~paused /\ extTotal > 0
                        /\ rend >= extTotal - DONE_TOLERANCE))
  /\ pc' \in IF "bus" \in Faults /\ pipe # "none" THEN {"recv", "bus"}
                                                 ELSE {"recv"}

\* An ERROR on the bus, with and without an automatic rebuild.  The first
\* error always rebuilds; later ones only 30 s after the previous.
BusRebuild(built) ==
  /\ pc = "bus" /\ retries < MAX_RETRIES
  /\ retries' = retries + 1
  /\ Rebuild(gRate, built) /\ frozen' = FrozenAtBuild
  /\ pc' = "recv"
  /\ UNCHANGED <<budget, gRate, kaWait, doneCount, announceIdle, paused, extVars,
                 epochOff, base, lag, probeVars, accepted>>

BusGiveUp ==
  /\ pc = "bus" /\ retries > 0
  /\ pipe' = "failed"
  /\ pc' = "recv"
  /\ UNCHANGED <<budget, gRate, pipeRate, fifoOpen, backlog, kaWait, retries,
                 clipVars, paused, extVars, clockVars, lag, probeVars, accepted,
                 probeAtBuild>>

-----------------------------------------------------------------------------
Client ==
  \/ \E dur \in Durations, gap \in Gaps, rate \in Rates :
       \/ PlayAppend(dur, gap, rate)
       \/ \E built \in BuildResults, opened \in BOOLEAN :
            \/ PlayLazyBuild(dur, gap, rate, built, opened)
            \/ PlayRebuild(dur, gap, rate, built, opened)
  \/ Pause \/ ResumeClips \/ ResumeLegacy \/ Stop \/ Release
  \/ ExternalRefused
  \/ \E built \in BuildResults :
       \/ Flush(built)
       \/ \E pos \in Positions :
            \/ ResumeAt(pos, built)
            \/ \E total \in Totals :
                 \/ Seek(pos, total, built)
                 \/ \E rate \in Rates, dec \in BOOLEAN :
                      External(rate, pos, total, dec, built)

Feed ==
  \/ \E n \in 1..FEED_CHUNK : FeedDecoded(n)
  \/ FeedKeepalive \/ FeedStart \/ FeedNothing
  \/ FeedGap \/ FeedQueueEnd \/ FeedClipEnd \/ FeedClip \/ FeedBudgetSpent

Bus == BusGiveUp \/ \E built \in BuildResults : BusRebuild(built)

Sink == \E n \in 1..PipeCap : Accept(n)

Next == Client \/ Feed \/ Bookkeep \/ Bus \/ Elapse \/ Sink \/ ExtWrite

Spec == Init /\ [][Next]_vars

\* The loop never blocks for good (poll times out after 10 ms), time passes
\* (in the poll, so again and again rather than all the time), and a playing
\* pipeline drains.
Fairness ==
  /\ WF_vars(Feed) /\ WF_vars(Bookkeep) /\ WF_vars(Bus)
  /\ SF_vars(Elapse) /\ WF_vars(Sink)

FairSpec == Spec /\ Fairness

-----------------------------------------------------------------------------
(* Properties.                                                             *)

TypeLoop == pc \in {"recv", "feed", "book", "bus"} /\ budget \in Nat

TypeOut ==
  /\ pipe \in {"none", "up", "failed"}
  /\ gRate \in Rates /\ pipeRate \in Rates \cup {0}
  /\ backlog \in 0..PipeCap /\ kaWait \in Nat /\ retries \in 0..MAX_RETRIES

TypeClips ==
  /\ queue \in Seq(Clip) /\ Len(queue) <= MAX_QUEUE
  /\ feedIdx \in Int /\ -1 <= feedIdx /\ (pc = "feed" => 0 <= feedIdx)
  /\ gapLeft \in Nat /\ fedEnd \in Nat /\ doneCount \in Nat /\ accepted \in Nat

TypeClock ==
  /\ epochOff \in Nat /\ base \in Nat /\ frozen \in Nat /\ age \in Nat /\ lag \in Nat
  /\ accBytes \in Nat /\ fifoWritten \in Nat /\ extTotal \in Nat
  /\ probeBytes \in Nat /\ probeLast \in Nat /\ probeAtBuild \in Nat

TypeFlags ==
  /\ fifoOpen \in BOOLEAN /\ allFed \in BOOLEAN /\ announceIdle \in BOOLEAN
  /\ paused \in BOOLEAN /\ anchorWait \in BOOLEAN
  /\ extActive \in BOOLEAN /\ extDec \in BOOLEAN /\ extDone \in BOOLEAN

\* Every variable stays in its range.
TypeOK == TypeLoop /\ TypeOut /\ TypeClips /\ TypeClock /\ TypeFlags

\* The spans queue_clip hands out never overlap, fed_end_ms is the end of
\* the last one, and a span is exactly its audio and its gap.
SpansOrdered ==
  /\ \A i \in 1..Len(queue) :
       /\ queue[i].end = queue[i].start + queue[i].dur + queue[i].gap
       /\ queue[i].start < queue[i].end
       /\ queue[i].id < accepted
  /\ \A i, j \in 1..Len(queue) : i < j => queue[i].end <= queue[j].start
  /\ queue # <<>> => queue[Len(queue)].end = fedEnd

\* The completion loop of tick_bookkeeping shifts the queue under the feed
\* cursor.  What is before the cursor has been written in full, what is
\* after it is untouched, and the daemon never believes everything is fed
\* while a clip is still ahead of the cursor.
CursorSplitsQueue ==
  /\ feedIdx <= Len(queue)
  /\ \A i \in 1..Len(queue) :
       /\ i <= feedIdx => queue[i].rem = 0
       /\ i > feedIdx + 1 => queue[i].rem = queue[i].dur
  /\ allFed => feedIdx = Len(queue) \/ queue = <<>>

\* A queued clip has not been heard to its end: whatever commands, pauses
\* and rebuilds happen, the audible clock is short of every queued span's
\* end, so no clip lingers and none completes on a paused clock.
QueueIsUnheard == \A i \in 1..Len(queue) : AudibleMs < queue[i].end

\* The position never steps back while some clip survives the step, across
\* anchoring, pausing, resuming and appending.
ClipPositionNeverRewinds ==
  [][ (\E i \in 1..Len(queue), j \in 1..Len(queue') : queue[i].id = queue'[j].id)
      => AudibleMs' >= AudibleMs ]_vars

\* Freezing and continuing the clock is seamless in clip mode.
PauseAndResumeKeepPosition ==
  [][ (paused' # paused /\ ~extActive /\ ~extActive') => AudibleMs' = AudibleMs ]_vars

\* A latched external_done is backed by the clock that status reports.
DoneMeansReached == extDone => AudibleMs >= extTotal - DONE_TOLERANCE

\* Every accepted clip is eventually heard to its end and counted:
\* backpressure, the lead gate, the keepalive and the intake clamp never
\* lock each other out.
AcceptedClipsAreCounted ==
  \A n \in 1..MaxClips : (accepted >= n) ~> (doneCount >= n)

\* The clip side of the daemon implements the abstract playlist.
SpansIn(q) == [i \in 1..Len(q) |->
                [id |-> q[i].id, start |-> q[i].start, end |-> q[i].end]]

Playlist == INSTANCE ClipPlaylist WITH
  spans <- SpansIn(queue), heard <- AudibleMs, done <- doneCount

ImplementsPlaylist == Playlist!Spec
=============================================================================
