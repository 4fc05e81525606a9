# audiobook.koplugin: TLA+ models

This directory holds a TLA+ model of the parts of the KOReader audiobook
plugin whose correctness depends on ordering, time and failure, the TLC
configurations that check it on small instances, and TLAPS proofs of the
results that hold for every instance.

## 1. The system

The plugin reads books aloud (text to speech), plays audiobooks, and keeps the
highlighted text and the sound together.  Everything in Lua runs on KOReader's
single UI thread, cooperatively, through `UIManager:scheduleIn` callbacks;
everything slow runs in child processes (piper, espeak, ffmpeg, gst) or in the
`audioout` daemon, reached through files, pipes and a Unix socket.

| component | source | state | operations | hard behaviour |
|---|---|---|---|---|
| audioout daemon | `audioout.c` | clip queue and feed cursor, fifo backlog, audible clock (epoch, base, anchor, frozen value), external stream, pipeline | play, pause, resume, stop, flush, release, external, seek, status; feed tick, bookkeeping tick, pad probe, bus errors | the sink's thread moves the counters; rebuilds keep some state and drop other; everything is derived from one clock |
| daemon client | `audioout.lua` | socket, spawned process | one command per connection, with a timeout | answers later than the timeout, respawn |
| progress sync | `abssync.lua`, timer and resume code of `main.lua`, `absbrowse.lua`, `absclient.lua` | journal in memory and on disk, server progress, saved positions | record, flush, manual sync, resume offer | crash during a save, lost replies, two journals over one file, other devices |
| synthesis queue | `piperqueue.lua` | servers, batches, prefetch queue, cache | enqueue, dispatch, poll, finalise, cancel, server restart | results out of order, servers that die, cancelled sentences that come back |
| TTS engine | `ttsengine.lua` | sentence and audio state, done_count baseline, completion callbacks | speak, pause, resume, stop, completion polls | callbacks of a former session, stop while paused |
| read-along controller | `synccontroller.lua`, `highlightmanager.lua` | sentence index, state, prefetch | start, pause, next/previous, page turns | late completions, page turns while paused |
| media playback | `mediaengine.lua`, `mediasync.lua`, `audiobookplayer.lua` | backend process, position, playlist | play, seek, pause, part change | position clocks over restarts, end of track |
| alignment | `mediaaligner.lua`, `epubmediaoverlay.lua`, `textparser.lua` | tables | pure functions | boundaries |
| Bluetooth | `btmanager.lua`, `btmediacontrol.lua`, `btui.lua` | adapter and device state | connect, reconnect, key events | radio off while connecting, stale D-Bus answers |
| self-updater | `updater.lua` | partial zip and its marker, the plugin's directory, the copy aside | check, fetch with resume, probe, back up, unpack, verify, restore, pin | power lost at any step, replies that are short or spoilt, steps that fail half-way |
| downloads, caches | `downloader.lua`, `abscache.lua` | files and an index on disk | fetch, extract, look up | a fetch that outlives its timeout |
| synthesis servers | `sanotts/snt_server.c`, `kokoro/`, `mbrola-wrapper.c` | request loop | synthesise | partial reads |
| players | `wav-play.c`, `kindle/gst-play.c`, `android*.lua` | one stream | play, signals | signals during writes |
| session recorder, diagnostics | `sessionrecorder.lua`, `bugreport.lua`, `debuglog.lua` | logs | record, report | none another component depends on |

How they interact: a page of text goes from the read-along controller to the
synthesis queue, whose WAV files the engine hands to the daemon through its
socket; the daemon's `status` answers (position, `done_count`) drive the
highlight and the next sentence.  Audiobooks go through the media engine, which
announces an external stream to the same daemon and reads the same clock.  The
60 s timer of `main.lua` takes the media engine's position into the journal of
the progress sync.  All of it shares one UI thread, so two handlers never
interleave inside each other; what interleaves are callbacks scheduled by
earlier handlers, the child processes, the daemon, the server and other
devices.

What makes each modelled component correct:

- **Daemon**: spans of queued clips never overlap; a clip completes when and
  only when the audible clock reaches its end; the clock never outruns the
  sink's intake, and never steps back under a listener; every accepted clip is
  heard and counted.
- **Progress sync**: the newest position recorded is on disk or on the server;
  a resend never puts an older position over a newer one; the newest position
  gets to the server in the end.
- **Synthesis queue**: no slot of the pool is lost, no pending sentence is
  orphaned, none waits for ever, and a file handed over belongs to the player.
- **Read-along** (controller, engine and client over queue and daemon): every
  sentence is spoken, once and in turn; one callback drives a session that has
  not stopped; a stopped session speaks no more and is started by start alone; a
  session left alone comes to an end.
- **Media playback** (session and engine over daemon or process): a player that
  says it plays does; what sounds is what the listener has come to; a part is
  left when it was heard, for the next; what is saved at a stop is the place.
- **Self-updater**: the plugin as it was is not lost before the new one is
  whole; success is not reported of a part, nor harm done by a failure; a zip is
  put together from one release; a download ends, but for one kind of server; and
  asking again leads to the release whatever earlier attempts left behind.

## 2. Modules

| module | models | kind |
|---|---|---|
| `AudioOut` | `audioout.c`, poll loop on the GStreamer output | detailed specification |
| `ClipPlaylist` | what the daemon promises a clip client | abstract specification |
| `MCAudioOut` | command sets of the instances | instances |
| `AudioOutProofs` | type correctness, spans and clock | proofs |
| `AudioOutFeedProofs` | the feed cursor, pauses, the end of a stream | proofs |
| `AudioOutRefinement` | `AudioOut` implements `ClipPlaylist` | proofs |
| `AbsSync` | `abssync.lua` and its callers | specification |
| `MCAbsSync` | sets of items | instances |
| `AbsSyncProofs` | types, order of what is sent, no loss | proofs |
| `PiperQueue` | `piperqueue.lua` and its callers | specification |
| `MCPiperQueue` | file names | instances |
| `PiperQueueProofs` | types, slots of the pool, markers, pending sentences | proofs |
| `ReadAlong` | `synccontroller.lua`, the playback half of `ttsengine.lua`, the timeouts of `audioout.lua`, over an outline of queue and daemon | specification, a composition |
| `MCReadAlong` | kinds of session | instances |
| `ReadAlongProofs` | types, silence after a stop and in a pause, turn, one voice, one driver, final stops | proofs |
| `MediaPlayback` | `mediasync.lua` and `mediaengine.lua` on a Kobo, the resume question of `main.lua` | specification |
| `MCMediaPlayback` | kinds of session | instances |
| `MediaPlaybackProofs` | types, life, silence, place and turn of a session | proofs |
| `Updater` | `updater.lua` | specification |
| `MCUpdater` | sizes of the zips | instances |
| `UpdaterProofs` | the copy, the partial zip, the end of an attempt, types | proofs |

### AudioOut

One iteration of the C program's poll loop is: commands, `feed_tick`,
`tick_bookkeeping`.  `pc` is the place in it: in `recv` any number of commands
are handled, one action each; a `Feed*` action begins the feed tick, and while
`pc = "feed"` each pass of the feed loop is an action of its own, because the
sink may take audio between two writes; `Bookkeep` is `refresh_clock` and
`tick_bookkeeping` in one piece, and an error on the bus is handled at `pc =
"bus"`.  Beside the loop run `Elapse` (real time), `Accept` (the streaming
thread's `probe_cb`) and `ExtWrite` (an ffmpeg that fills the fifo).

| variable | code |
|---|---|
| `pipe`, `gRate`, `pipeRate`, `fifoOpen` | `S.pipe`, `g_rate`, `S.pipe_rate`, `S.fifo_fd` |
| `queue`, `feedIdx`, `allFed`, `gapLeft`, `fedEnd` | `queue[]` and `queue_len`, `feed_idx`, `all_fed`, `gap_left_ms`, `fed_end_ms` |
| `doneCount`, `announceIdle` | `done_count`, `announce_idle` |
| `extActive`, `extDec`, `extTotal`, `extDone` | `external_active`, `ext_dec`, `external_total_ms`, `external_done` |
| `epochOff`, `base`, `frozen`, `anchorWait`, `age` | `epoch_off_ms`, `external_base_ms`, `external_frozen_ms`, `anchor_wait`, `wall_now` less the anchor |
| `probeBytes`, `probeLast`, `accBytes` | `probe_bytes`, `probe_last_buf`, the loop's copy |
| `lag` | real time that the tick's `wall_now` has not seen |

Audio and time share one unit; a byte is a unit of audio at the clip's rate.
The code takes differences of wall-clock values only, so the clock is the age of
the anchor.  `accepted` and `probeAtBuild` are history variables.

### ClipPlaylist

A playlist of spans on the listener's timeline, the listener's position, and a
count.  Spans are handed out after everything handed out and heard before; the
position only moves forward and takes along exactly the spans it passes; the one
other thing that can happen is that everything is dropped and the timeline
starts over.  `AudioOut` implements it with the spans of its queue, its audible
clock and `done_count`.

### AbsSync

`pc` is how far the running operation got: an operation blocks the UI thread, so
there is one, but a crash, another device and the loss of a request or a reply
come between its steps.  `recordProgress` changes the journal in memory and then
goes through `SaveOpen` (`io.open(path, "w")` empties the file) and `SaveWrite`;
`flush` is `FlushCollect`, `ServerTakes`, and one of `FlushSucceeds` and
`FlushFails`.  There are two journals in memory over one file, because
`_manualSync` of `absbrowse.lua` makes an instance of its own.  `recorded`,
`newest` and `delivered` are history: they name each entry so that "newest" does
not depend on the timestamps whose handling is in question.

### PiperQueue

Handlers run to completion; a handler that ends in `launchNext` leaves
`launching` up, and no other handler runs before a `Launch` action takes it
down (a batch dispatch leaves it up, as the recursion does).  What outlives a
handler is a scheduled closure: `polls` holds the `pollDone` closures with the
texts and files they close over, `checks` the number of `checkServersReady`.
An entry is named by its output file, so that the entry a closure holds and the
entry the same text has now are told apart; this is what most hazards of the
component turn on.  Servers (`server`, `requests`) and processes (`procs`) run
beside the thread and talk through `wav` and `done`, the WAV files and the
markers.  A WAV is the set of sentences heard in it.

A poll may find its marker, time out, or find its sentence gone; a poll that
reschedules itself changes nothing and is not a step.  Timing out is possible at
any time: how many reschedules that takes is left out.

### ReadAlong

The composition of controller, engine, client, queue and daemon.  A handler or
a timer runs to its end, but one handler calls others (`start` calls
`readNextSentence`, that calls `beginSentencePlayback`, a failure calls `stop`):
`pc` is the call being run, `again` the calls of `readNextSentence` that its
caller still has to make, and no timer fires before `pc` is `idle`.

| variable | code |
|---|---|
| `state`, `idx`, `gen`, `highest`, `turnGen` | `state`, `current_sentence_index`, `_play_generation`, `_highest_prefetched`, the generation of the page turn |
| `userPaused`, `overlayPaused`, `warmedUp` | the flags of the same meaning |
| `group` | the concatenated sentences in play and the boundary reached |
| `waits`, `synths`, `chain`, `turn` | the closures `UIManager` holds, with what they captured |
| `speaking`, `engPaused`, `playGen`, `poll`, `baseline`, `onComplete`, `active` | the engine's `is_speaking`, `is_paused`, `playback_generation`, completion poll, done_count baseline, callback, and whether it has used the daemon |
| `status` | what the queue holds for each sentence of the page |
| `up`, `clips`, `done`, `dPaused` | the daemon: running, its playlist, `done_count`, `paused` |

Of `PiperQueue` only the outcome for a sentence is kept (none, queued, ready,
failed), of `AudioOut` only what `ClipPlaylist` promises: clips leave in order
and are counted.  The daemon may die and not come up again (`StartFails`), a
command may time out although the daemon obeys it, the link may be lost.  `due`
is history: the sentence a listener who misses nothing hears next.

### MediaPlayback

A handler of `mediasync.lua` calls several of `mediaengine.lua` in one run, so
the engine is one record, `m`, and its functions are operators from record to
record (`Stopped`, `Plays`, `Paused`, `Resumes`, `Seeks`): an action composes
them in the order of the code.  `Plays` and `Seeks` give a set of outcomes, one
for each answer of the daemon.

| field | code |
|---|---|
| `path`, `playing`, `paused`, `offset`, `mark` | `current_path`, `is_playing`, `is_paused`, `_seek_offset`, `_paused_position` |
| `external`, `released`, `persistent` | `_audioout_external`, `_audioout_released_on_pause`, `_use_persistent_pipeline` |
| `cb` | `_on_complete` and `_on_fail`, by whether the session still has the generation they captured |
| `timers` | scheduled closures that would pass their generation test; what raises `play_generation` clears them |
| `sound`, `orphan` | the daemon's stream or the process, and what it plays; a process stopped before its id was read |

`place` is history: the part and position the listener has come to, by hearing
and by asking.  Positions are whole units, long against the half seconds of the
engine's timers.

A scenario fixes the backend, what may fail and what the user may do.  A
`patient` user waits until a pending restart or the reading of a process id is
over (0.3 to 0.5 s); the scenarios over the daemon have one that does not.

### Updater

One callback on the UI thread blocks from the user's consent to the last
message, so nothing of the plugin runs beside it; what comes between its steps
is the loss of power.  `pc` is the step; `Crash` leaves on the disk what the step
under way may have left (`Torn`), and forgets everything else.

| variable | code |
|---|---|
| `dir`, `backup` | `plugin_dir`, `backup_dir`, each file by the release it comes from, with the version `_meta.lua` names |
| `zip`, `marker` | the file at `zip_path`, its `.expected` file |
| `retries`, `total` | `retry_count`, `total_attempts` |
| `left`, `good`, `kept` | files the extraction or copy has still to write, `extract_ok`, `backup_dir` is not nil |
| `latest`, `rel` | the newest release on GitHub, `release` of the attempt |
| `loaded` | KOReader could load the plugin when it started |

Three files stand for the directory: `_meta.lua`, one that `CRITICAL_FILES`
lists, and one it does not.  A zip is a sequence of chunks named by the release
they come from.  `before`, `short` and `owed` are history: the directory when
the attempt began, whether the fallback copied anything but the whole release,
and whether there is a copy that nothing has replaced.

| action | `updater.lua` |
|---|---|
| `checkForUpdate` | 316-361 |
| `Guard`, `Mark`; `HasAll`, `ReplyWhole`, `RangeIgnored`, `ReplyShort`, `Drops`, `Spoils`, `DiskFull` | `downloadFile`: the stale-partial guard; one turn of its loop, by the reply |
| `Check`, `Probe`, `Backup` | 458-530 |
| `WriteFile`, `Unpacked`, `UnpackFails`; `Unzip`, `Copied`, `CopyStops` | extraction; its fallback |
| `Verify`, `Clean`, `Restore`, `Pin` | 589-653 |

## 3. What is checked

| run | asks | result |
|---|---|---|
| `clips` | two clips on one pipeline: spans, feed cursor, clock, refinement of `ClipPlaylist` | holds |
| `mixed` | clips at two rates and external streams on one daemon, with failing builds, unreadable files, bus errors | holds |
| `external` | seeks, pauses, resumes and the completion latch of an audiobook | holds |
| `live` | is every accepted clip heard and counted | holds |
| `sync_journal` | one item, a journal shorter than the session, restarts, manual syncs, another device | holds |
| `sync_items` | two items in one batch; delivery in the end | holds |
| `sync_torn` | a crash between the opening and the writing of the journal | violated |
| `pq_queue` | slots, pending sentences and order over stops, cleanups, deaths and stale polls | holds |
| `ra_read` | sessions of every voice over two pages, with failures of synthesis, daemon and link | holds |
| `ra_after_stop` | is a stop final while a sentence is synthesised on demand | violated |
| `media_play` | three parts over daemon and processes, with every command, refusals, stalls and a late headset | holds |
| `up_install` | two updates of an installed plugin with any two accidents, losses of power at every step included | holds |

The properties, by what they are for:

- `QueueIsUnheard`, `ImplementsPlaylist`: completion is derived from a clock
  that rebuilds, pauses and resumes re-anchor.  A base taken from the wrong copy
  completes clips in a burst or leaves one that never completes; a start taken
  from it makes spans overlap.
- `CursorSplitsQueue`: completion shifts the queue under the feed cursor.
- `ClipPositionNeverRewinds`, `PauseAndResumeKeepPosition`: what the highlight
  sees.
- `DoneMeansReached`: latch and epoch of an external stream are reset together.
- `AcceptedClipsAreCounted`: the lead gate, the fifo's backpressure, the intake
  clamp and the keepalive wait on one another.
- `DeliveriesInOrder`, `ProgressNotLost`: sending one
  entry of an item and marking all of them is right only while the one sent is
  the newest.
- `SlotsHaveOwners`: a busy slot has a poll that will free it.  The converse
  does not hold: `cleanQueue` zeroes the count while polls live on, whose later
  decrements make the pool look emptier than it is, floored at zero.
- `FinalizeIsForProcesses`, `PendingIsOwned`: the marker of a batch belongs to
  the poll that cuts its WAV, and every pending sentence to somebody.
- `PendingResolves`, `QueuedIsLaunched`: no sentence waits for ever, although
  neither servers nor processes owe an answer.

- `OneDriver`, `ReadingSettles`: a session of `ReadAlong` exists only in the
  closure that will continue it.  With none it is dead and says "playing", with
  two it reads two sentences; each closure must find out alone that it is stale.
- `InTurn`, `OneVoice`: the index, the group in play and the
  daemon's count are kept in three places and meet when a clip ends.
- `StopIsFinal`, `SilentWhenStopped`, `PausedIsQuiet` (both modules): what was
  on its way at a stop or a pause neither speaks nor starts a session again.
- `PlayingIsAlive`, `PlaybackEnds`: stop drops the callbacks, and every restart
  has to carry them over; the completion watcher has to live once.
- `PlaceKept`, `SavedIsPlace`: three marks stand for the place by turns.
- `AdvanceIsNext`: the end of a part is seen by several watchers and races the
  user's own change of part.
- `OneRelease`: the partial zip of every release has one path, and outlives
  attempts, crashes and the release itself.
- `CopyKept`, `UpdateIsAtomic`: the copy is made, used and deleted in different
  branches, by what several steps that may fail have reported.
- `DownloadEnds`: progress forgives failures, and each kind of request is limited
  by something else; one mixture of them by nothing (`Alternates`, below).
- `EventuallyCurrent`: each attempt starts from what the last one left; a file
  that is never accepted and never removed, or a version that is never written,
  would keep the user from the release for ever.

### Disagreements between the code and what is written about it

The two runs with a violation each show one; PROJECT.json quotes the lines.

1. A crash while the journal is saved loses it (`sync_torn`).
2. The callback of an on-demand synthesis is not cancelled by stop and does not
   ask whether the session stopped: it speaks, or turns the page (`ra_after_stop`).

Each of the following was met as a counterexample of TLC, and the passing runs
leave the situation out for that reason, by the scenario or by a condition in
the property:

- Daemon: the first clip at another rate than the daemon's default is paced with
  the old rate (`audioout.c:1379`, `g_rate` is not set on the lazy path of play;
  a property "`gRate` is `pipeRate` while clips are queued" fails with two
  `Rates`).  The rebuild after a bus error drops clips without counting them
  (`audioout.c:1772`; `AcceptedClipsAreCounted` fails with the fault `bus`), and leaves
  `external_done` standing over a clock that starts again (`DoneMeansReached`
  fails with `bus`).
- Sync: a manual sync updates the local position from newer remote progress but
  leaves the older entry in the journal, which the flush then pushes over it
  (`abssync.lua:257`, against `docs/AUDIOBOOKSHELF.md:237`).  Two items in a full
  journal push each other's unsent entries out (`ProgressNotLost` fails with two
  items and a journal of two).
- Queue: when `tryFinalize` settles an entry whose poll is still scheduled, the
  poll finds the sentence gone and removes the WAV the player was just given
  (`piperqueue.lua:1494`, against 1668).
- Read-along: Forward on the bar during the wait for the first sentence leaves
  the old wait valid, which plays sentence n while the index is n+1: n+1 is never
  spoken (`InTurn` fails with the command `bar_next`).  After a pause, a jump
  gives a clip to a daemon that is still paused (`audioout.c:1474`); the
  session stops after the poll's 6 s stall.  When espeak fails, both the callback
  and the return value make the controller read on, twice (`MayDouble`).
- Media: on the pipe of ffmpeg a seek while paused kills the process, and the
  resume that follows continues a process that is no more: "playing" over
  silence (`mediaengine.lua:3260`, against the comment at 3601;
  `PlayingIsAlive` fails with `toggle` and `seek_paused` in `Pipe`).
  A stop while paused without the daemon saves the position playback was
  started from (`SavedIsPlace` with `toggle` and `stop` in `Pipe`).  The play
  button of a stopped overlay book prefers the mark of an old pause or of the
  start to the last position (`PlaceKept` with `from = {1}` in `Overlay`, or
  one command more).  `nextChapter` moves the index before the question about a
  saved position is answered, so the end of the current part then passes over
  one (`AdvanceIsNext` with `next` and `cancel` in `Asked`).  A listener who
  seeks, before the headset comes, to where the silent pipe is by then is put
  back to the start by the reattachment (`PlaceKept` with `seek` in `Deaf`).
  Within the half second of a restart, a seek leaves a session playing without
  callbacks and a pause is undone (`PlayingIsAlive`, `PausedIsQuiet` with
  impatient users over processes); a stop within 0.3 s of a start leaves the
  process playing (the exemption in `SilentWhenStopped`).  The stall watchdog
  restarts where the stream began, also after a seek.

- Updater: the exit codes of the fallback's `unzip` and `cp` are ignored, and
  `verifyPluginDir` asks only whether files exist that the old installation has
  anyway; so a mixture of two releases is reported as "Updated" and gets the
  version of the new one (`updater.lua:550` and 589: "verify success by checking
  whether the destination directory was actually populated"; `UpdateIsAtomic`
  fails without its `short`, `EventuallyCurrent` without its `Stuck`).  After a
  loss of power while files are replaced nothing puts the copy back: the next
  attempt deletes it and copies the mixture (523; `CopyKept` is about the attempt
  that made the copy), and if `_meta.lua` was among the files written there is no
  next attempt, "up to date".  Nobody looks at the exit codes of the `rm` and `mv`
  that put the copy back either (616; `UpdateIsAtomic` fails if such an end counts
  as a failure), nor at a version that could not be written: that too is
  reported as "Updated" (644, 658; the outcome "unpinned").
- Updater: "Hard cap on total attempts so a connection that creeps forward one
  byte at a time cannot loop forever" (161-163).  A reply with a success code
  that ends early zeroes `retry_count` if it made progress and is not counted in
  `total_attempts` (254-256); one that ignores the Range header deletes the file
  and costs one retry (230-239).  By turns they loop for ever, on the UI thread:
  `DownloadEnds` fails without its `Alternates`, even with no accident at all.

Seen while modelling, without a run of their own:

- Updater: where `unzip -t` finds a damaged entry, `unzip -l` is asked next, which
  does not look at entries: the CRC check never decides (`updater.lua:495`, against
  the comment at 478); the extraction by libarchive does, its fallback does not.
  The body of an error reply counts as progress.  If no
  temporary directory can be written to, the plugin's own is taken, and cannot be
  copied into itself.  The marker is a size: it does not tell releases of one size
  apart.

- Media: `setVolume` and `setSpeed` seek to the current position to take effect
  (`mediaengine.lua:3951`), which the guard against seeks that change nothing
  drops while playing.  A process that ends early counts as the end of the part.
- Daemon: `probe_bytes` is not reset by a rebuild, so the first tick of a new
  stream takes the old intake for movement after a flush; the clock is anchored
  a buffer ahead; a bus rebuild resets the position of an external stream;
  `feed_tick` writes no silence while paused; decoded audio that a full fifo
  refuses is lost; a resume without a position steps an external stream back.
- Sync: of two entries of one second the older is sent; pruning drops unsent
  entries; an unmarked entry of the second instance is sent again; the resume
  offer prefers the remote position by distance, not by time; the unit of
  `lastUpdate` is the server's.
- Queue, on single-core devices: after `cleanQueue` and re-queueing, the poll of
  the old batch marks the new entries ready although their files do not exist;
  and a batch made again with another composition can leave its second sentence
  pending for ever.  `PendingIsOwned` and `PendingResolves` are therefore stated
  for devices with more than one core.  On all devices: an entry `tryFinalize`
  settled is marked failed by its poll's timeout; after all FIFOs refused, the
  entry that goes to the per-process path keeps the status "queued" and can be
  launched twice; one server's FIFO can hold more than `MAX_PIPELINE_DEPTH`;
  `cleanQueue` during start-up leaves a FIFO without a reader that counts as
  ready.

### Bounds

Unbounded counters are bounded in the guards by named constants; the number of
a user's commands in a session is the `max` of its scenario.

- `AudioOut`: `MaxClips = 2` clips in a history suffices for a clip being fed
  behind one being heard, and for a drop followed by a new one; `Horizon` is the
  end of the timeline, enough for both clips and a gap; `MaxLag = 1` tick of real time the
  loop has not seen; `MaxIntake` bounds the probe's counter, above the audio of
  both clips and their keepalive silence.  A clip of 2 units and a fifo of 2
  let a write be cut short; `FEED_CHUNK = 2` lets a feed loop cross the end of a
  clip.  `mixed` shrinks clips to 1 unit to afford rates, streams and faults.
- `AbsSync`: three records over a journal of two make pruning happen; three
  clock values separate an entry, an update by another device and a later
  entry; positions 2 and 4 are at the debounce and above it.
- `PiperQueue`: two sentences make batches of one and two; two file names, a
  name being taken again only when nothing knows it any more, let a text be
  queued anew while a closure of its former entry lives; one stop, cleanup or
  death (`MaxResets`), from any state; one server.  Liveness is followed for one
  of the two interchangeable sentences (`Watched`).  Symmetry is not used.
  `BATCH_SIZE` is 3 in the code, with two sentences a batch never exceeds two.

- `ReadAlong`: two pages of two sentences make every kind of successor (the next
  sentence, a group, the first of a page, the end of the book); three or four
  commands at any point of a session and one failure of the daemon or the link
  (`MAX_FAULTS`) let a stale closure of one session meet the next one and the
  one after it.  A daemon that does not come up again after that failure is not
  counted among them; the clip it would leave behind with a second failure (a
  play that times out once it is started after all) is beyond the bound, as it is
  outside `Sane`.
- `MediaPlayback`: three parts have a first, a middle and a last; a part of two
  units has a start, a middle and an end; four failures (`MAX_FAULTS`) exhaust
  the two retries of the stall watchdog and start it anew; six commands make
  seek, pause, seek, resume and change of part follow each other in every order.

- `Updater`: three releases of one, two and three chunks: a partial zip may be
  shorter, longer or as long as another release's; the second names the first's
  version.  Two retries and three failures in all (5 and 25 in the code) let progress
  forgive failures and the limit on all end it.  Two accidents (`MAX_FAULTS`)
  make a crash after a crash, and one after a failed extraction, copy, restore or
  pin; dropped connections, ignored Range headers and replies cut short are not
  counted among them and come without limit.

### Fairness

- Daemon: the loop never blocks for good, since `poll` times out after 10 ms (weak
  fairness of `Feed`, `Bookkeep`, `Bus`); time passes, in the poll, so it is
  enabled again and again rather than all the time (strong fairness of
  `Elapse`); a playing pipeline drains (weak fairness of `Sink`).
- Sync: the timer is rescheduled every 60 s and a started operation goes on (weak
  fairness); a server that is tried again and again answers some time (strong
  fairness of `ServerTakes` and `FlushSucceeds`).  Nothing is assumed of the
  device's user.
- Queue: a due `launchNext` returns (weak fairness of `Launch`: it is a call, not
  a callback); a poll ends, since it reschedules itself at most 900 times on a
  server and 300 for a process (strong fairness of the oldest poll: a due
  launch disables it for a moment).  No fairness for servers, processes or
  `checkServersReady`.
- Read-along: calls, timers and polls of the one thread run when due, the
  synthesiser settles each sentence (`PiperQueue` shows it with `PendingResolves`)
  and the daemon plays what it holds (`AcceptedClipsAreCounted`).  Weak fairness
  of each; none for the user, for a daemon that dies or for the link.
- Media: timers fire and a stream or process that is not held or stuck goes on
  (weak fairness).  None for the headset or the user.
- Updater: the callback runs on, and a user who is offered an update asks for it
  some time (weak fairness of `Step`).  That downloads succeed again and again if
  they are tried again and again is a hypothesis of `EventuallyCurrent`
  (`NetworkRecovers`); `DownloadEnds` asks of the network only that it is not of the
  one kind it names (`Alternates`).

Deadlock is checked in the runs of the daemon and of the queue.  It is not in
those of `AbsSync`, `ReadAlong`, `MediaPlayback` and `Updater`, where within the
bounds the device may simply be left alone, stopped or paused, or has an
installation that no longer loads.

## 4. What is proved

| theorem | for every | argument |
|---|---|---|
| `AudioOutProofs!TypeCorrect` | queue size, chunk, lead, slack, fifo size, command and fault set | `TypeOK` is inductive |
| `AudioOutProofs!QueueUnheard` | the same | `SpanInv`: spans ordered and unheard, over `TypeOK` |
| `AudioOutProofs!PositionNeverRewinds` | the same, without resumes that name no position | `PosInv`: what `frozen`, `base` and the intake are to each other |
| `AudioOutRefinement!DaemonImplementsPlaylist` | the same, without resumes that name no position | one lemma per kind of step: restart, enqueue, advance, stutter |
| `AudioOutFeedProofs!CursorSplits` | the same, files that can be read | `Split`: before the cursor all fed, after the clip at it none; `TypeOK` |
| `AudioOutFeedProofs!PositionKept` | the same as the first | from `TypeOK`: only `Pause` and `ResumeClips` touch the flag |
| `AudioOutFeedProofs!DoneIsReached` | the same, clients of streams only, resumes with a position, no error on the bus | `DoneInv`: a frozen clock is behind the intake, and a tick takes it forward |
| `AbsSyncProofs!TypesHold` | items, limits, uses; all faults | `TypeOK`, the file within the limit, ids among the recorded |
| `AbsSyncProofs!NeverResendsOlder` | the same, no two entries of one second | `JournalInv`: every copy of the journal is ordered, marked from the front, and reaches what the server has |
| `AbsSyncProofs!NothingIsLost` | the same, saves not torn, `RoomForAll` | `LossInv`: marks mean delivered, what was saved is still held |
| `PiperQueueProofs!SlotsOwned` | number of sentences, files, cores, servers; all faults | `Counting`: `slots` a number not above the number of polls |
| `PiperQueueProofs!Types`, `FinalizesProcesses`, `PendingOwned` | the same | `IInv`: `TypeOK`, and `Ownership` of entries by scheduled polls |
| `UpdaterProofs!CopyIsKept` | number and size of releases, devices, limits, faults | `CopyInv`: what `kept` and `owed` mean at each step |
| `UpdaterProofs!PartsAreOfOneRelease` | the same, of releases of different sizes (`Distinct`) | `ZipInv`: where the marker is, what the file holds |
| `UpdaterProofs!UpdatesAreAtomic` | the same as the first | `CopyInv`, and `WholeInv`: what is written while `left` shrinks |
| `UpdaterProofs!TypesHold` | the same as the first | `TypeOK` is inductive, part by part |
| `ReadAlongProofs!StoppedIsSilent` | book, voice, faults; an engine that has used the daemon, a daemon that can be started | `QuietInv`: a stop leaves neither clip nor request behind |
| `ReadAlongProofs!PausesAreQuiet` | the same, any daemon | `PauseInv`: the engine's flag and the daemon's move together |
| `ReadAlongProofs!EspeakStopIsFinal` | the same, voices other than piper | `FinalInv`: what is scheduled when the session has ended |
| `ReadAlongProofs!Types`, `SpeaksInTurn`, `SpeaksWithOneVoice`, `HangsOnOneDriver`, `StopsAreFinal` | the same, `Sane` scenarios | `IInv`: between handlers a session hangs on one of five closures (`Driven`), and each fixes where everything else is |
| `MediaPlaybackProofs!StoppedIsSilent` | parts, length, failures, scenarios | `Shaped`: who has the sound, by what the engine believes |
| `MediaPlaybackProofs!PlaysOn`, `PausesHold` | the same, `Orderly` scenarios | `Ordered`: what the session says and what the engine does |
| `MediaPlaybackProofs!HeardInPlace`, `Types` | the same, `Steady` scenarios | `InPlace`: sound, restart, mark and watchdogs agree on the place |
| `MediaPlaybackProofs!PartsInTurn` | the same, `Steady` and `Questionless` scenarios | `InRow`: the row is the part that plays |
| `MediaPlaybackProofs!StopSavesPlace` | the same, `Steady` scenarios that meet `Saves` | `Marked`: no older mark of a pause hides the place |

The assumptions are `Sizes`, `Inputs` and `Bounds` of `AudioOut`, `Limits` of
`AbsSync` and of `PiperQueue`, `SizeAssumption` of `Updater`, `BookAssumption` of
`ReadAlong`, `MediaAssumption` of `MediaPlayback` and `ScenarioAssumption` of both:
constants are natural numbers, sizes are not zero, scenarios are records of the
right fields.  The bounds
for checking are constants of the specification like the others, so a theorem
holds with any bound.

`QueueIsUnheard` alone is not inductive: that a new span ends beyond the clock
needs that spans are ordered and `fedEnd` is the last one's end, and that
completing clips leaves the rest unheard needs that ends are increasing.
`ClipPositionNeverRewinds` needs more: the clock is continued from `frozen` on
resume, frozen while the anchor is awaited and clamped to the intake, and its
three readings agree at the switches only because `frozen` is never above the
anchored reading (`FrozenBelowAnchor`, `FrozenBelowEpoch`), because the copy of
the intake never exceeds the intake (`IntakeLags`), and because without a
pipeline there is no queue (`NoPipe`).  A resume of an external stream
without a position sets the base to zero and re-anchors, which does step back:
hence the hypothesis, which mirrors that `mediaengine.lua` always gives one.

`OneRelease` holds only because a marker that is there always names the
release whose chunks the file has, between attempts as well: it is written after
the old file is removed and before the first request, and removed when the file
is complete.  `UpdateIsAtomic` needs to know of the attempt's earlier steps that
`kept` implies a copy of `before`,
and that the files not in `left` are the release's.

The theorem about streams (`DoneIsReached`) supposes a client that plays no
clips of its own in between, like `mediaengine.lua`; the runs with both kinds of
client check the clips.

`DeliveriesInOrder` says nothing of the journals, yet depends on all three.  What
flush picks for an item, the waiting entry with the greatest time, is its newest
entry only because entries are in the order of their times and marks never
leave a hole (`MarkedFirst`); it is not older than what the server has only
because every copy reaches that entry (`Reaches`), and the copy a manual sync
works on has the entries of main's while it runs (`Agree`).  Two entries of one
second break the first of these, hence the hypothesis.  `NothingIsLost` needs more:
a torn save empties the file, and the pruning drops the oldest entries of all
items alike, so that the only unsent entry of a book is lost after `JOURNAL_MAX` (100)
newer ones of other books; `RoomForAll` excludes this.  That a set of saved
ids has a maximum is proved from the well-foundedness of the naturals
(`LeastNat`), without induction.

**The queue.**  `PendingIsOwned` is not inductive: that the end of a poll leaves
no other entry without one needs that a poll has a file for each of its texts,
and with several cores one only (`Matched`), that a file it closed over is still
that text's or nobody's (`OwnTexts`), and that no two texts share a file
(`OwnFiles`).  `FinalizeIsForProcesses` adds `Settlers`: the marker of a pending
entry's file can only be there for a process of its own, although a rescue gives
a marker back.  What the loops that gather a batch return is stated by its
positions (`Batches`, `TextsAt`, `RemoveFirst`), so that the lemmas about it
need no induction.

**The read-along session.**  `IInv` says of each place of a handler (`Handed`,
for those that go on with the reading) and of each closure a resting session can
hang on (a wait, a synthesis, the chain, a page turn, a poll) what the index,
the group, the daemon's clips and its count are.  `InTurn`, `OneVoice`,
`OneDriver` and `StopIsFinal` are four readings of it: none of them is inductive
without the others, since a second driver is what would speak out of turn.  The
scenarios are `Sane`, and each clause of this leaves out what the code gets
wrong: an engine whose first play over the daemon fails leaves its clip behind,
one that could not start the daemon has forgotten that it ever used it
(`_audioout_active`) and does the same with the next play, and piper's on-demand
callback asks for no generation, so that after a jump, or after a stop with a
synthesis that may fail (the run `ra_after_stop`), it takes up a session that is
not its own.  For voices other than piper only the clauses about the daemon are
left, and `PausedIsQuiet` needs none.

**The audiobook session.**  Each function of the engine gets a lemma that says
what it leaves (`Halts`, `Starts`, `Due`, `Waits`, `Moves`, ...), and the actions are
proved about from these alone.  `SilentWhenStopped` needs no hypothesis.  For the
others TLC finds a violation as soon as a clause is dropped, and the clause names
what the code does there:

- `Orderly`, for `PlayingIsAlive` and `PausedIsQuiet`: no question is dismissed (at
  the end of a part the engine is done before the session asks about the next,
  and with the question gone it says "playing" on); with the
  ffmpeg pipe no seek in a pause (it stops the process that resume would
  continue); a user who waits for the engine or never meets a pending restart
  (which a pause does not see); no pause while the headset is awaited (the
  watcher restarts in a pause too).
- `Steady`, for `PlaceKept` and `TypeOK`: in addition, no play button on a stopped
  overlay book (it goes back to the mark of an old pause); no seek with a stream
  that does not start or a headset that is awaited (the watchdogs restart from
  where the stream was started).
- `Questionless`, for `AdvanceIsNext`: no command moves to a part with a saved
  position (the row moves before the question is answered, while the old part
  plays on, and may end).
- `Saves`, for `SavedIsPlace`: a pause and a stop meet over the daemon only, which is
  marked at every pause; no stop while the headset is awaited (what is
  played into the dead route counts as heard).

Every session of the run `media_play` is `Orderly`.  `Overlay` is not `Steady`, and
`Hasty` and `Fidgety` are not `Questionless`: there the properties are
model-checked within the few commands of the scenario and not proved.

Only model-checked: liveness (`AcceptedClipsAreCounted`, `EventuallyDelivered`,
`PendingResolves`, `QueuedIsLaunched`, `ReadingSettles`, `PlaybackEnds`,
`DownloadEnds`, `EventuallyCurrent`), which is beyond the prover used, like
enabledness; the sessions the hypotheses above leave out; and of external
streams all but `DoneMeansReached`.

## 5. What is not modelled

- Daemon: volume, ping and shutdown; the acceptance pacing watchdog, whose flag
  only `status` reads; framing of commands; the ALSA output; the
  teardown of a pipeline that hangs.
- Sync: `is_finished` (every caller passes false), positions of multi-file
  books, functions without a caller, the log-in.
- Queue: command lines, voices, WAV cutting, timing of words, the statistics of
  the real-time factor; a WAV that a killed process leaves half-written (a kill
  is taken to leave none or all of it); kills are taken to be effective,
  although `snt_jp_server` is not among the names `killOrphanProcesses` kills;
  a server that dies while it starts is one that never comes up.
- Read-along: text carried over a page break and sentences skipped after it,
  rotation and remapping of the place, the chapter list and reading from a chosen
  place, the scrubber; the deferral of a jump while the bar settles; the delay of
  the prefetch and its flush when the queue is full; the thresholds at which
  piper is abandoned and the fallback to smaller models (the voice of a scenario
  is given); the replay after an early death and the guard against a broken
  firmware; word highlighting; the players other than the daemon (gst, aplay,
  PocketBook, Kindle, Android).
- Media: shuffle, loop, chapters, jumps inside an overlay book, highlighting and
  page following, speed and volume, mpv, mplayer, aplay, Kindle and Android
  backends, the path over BlueALSA, a daemon that dies and the wall-clock
  backstop, pause by sleep and rotation, the tracking for Audiobookshelf (which
  is `AbsSync`'s).
- Updater: the choice of the temporary directory, the free-space check and other
  returns that change nothing; a release without a size; a marker that cannot be
  written; the removal of the copy and `mv` are one step each (`mv` is a rename,
  the copy being on the same file system where the code chooses the place).
- The lexicon tables (53 000 lines), vendored front ends and numerics of the
  synthesis programs (`sanotts/`, `sanotts-jp/`, `kokoro/`, the ONNX header).
  They keep no state between requests, and a model of them would be a copy.
- The components with the status `not_modelled` in PROJECT.json, with reasons.

## 6. Plan

In this order, most important first:

1. `BtManager`: reconnects while the radio is switched off.
2. `Downloader`: a fetch whose process outlives its timeout meets the next one.
3. `AudioOutAlsa`, `PcmGap`, `WavPlay`: the second output, sample arithmetic
   against a reference definition, the signal handlers of the players.

Theorems next: `Types` of `ReadAlong` and of `MediaPlayback` from fewer
hypotheses than the other properties need, and what is left of `AdvanceIsNext`
while a question is open.
