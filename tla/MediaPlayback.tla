--------------------------- MODULE MediaPlayback ---------------------------
(***************************************************************************)
(* An audiobook in parts: the session (mediasync.lua start, stop, pause,   *)
(* resume, the playlist and the end of a part), the engine below it        *)
(* (mediaengine.lua load, play, pause, resume, stop, seek and its timers)  *)
(* on a Kobo, and the question main.lua asks before a part with a saved    *)
(* position.                                                               *)
(*                                                                         *)
(* The engine plays through one of two things: the audioout daemon         *)
(* (AudioOut, external mode; the "persistent pipeline" of the MTK devices) *)
(* or a process of its own, a "pipe".  A handler of the plugin runs to its *)
(* end, so what it does is composed of operators from the engine's record  *)
(* to the engine's record; Plays and Seeks give the set of outcomes.       *)
(*                                                                         *)
(* Every timer holds the play_generation of its making and returns when    *)
(* that is no longer the engine's.  The record therefore keeps only the    *)
(* live timers: what increases the generation drops them all.              *)
(*                                                                         *)
(* Positions are whole units of time longer than the engine's timers: the  *)
(* user may act between any two of them, the position does not move while  *)
(* a restart is pending.                                                   *)
(***************************************************************************)
EXTENDS Integers, Sequences

CONSTANTS
  PARTS,        \* the parts of the playlist are 1..PARTS
  LEN,          \* the length of a part
  SCENARIOS,    \* the kinds of session: see Scenario
  MAX_FAULTS    \* refusals and stalls of the daemon (bounds the model only)

ASSUME MediaAssumption == /\ PARTS \in Nat \ {0}
                          /\ LEN \in Nat \ {0}
                          /\ MAX_FAULTS \in Nat

Commands == {"choose", "pick", "toggle", "seek", "seek_paused", "skip", "next", "prev",
             "stop", "resume_at", "from_start", "cancel"}

\* The backend below the daemon; whether the device has the MTK sink; whether
\* the headset is connected from the start; whether the user waits for the
\* engine to have settled before the next command; whether the audio belongs
\* to a book with an overlay, and where playback is started in that; the parts
\* with a saved position; what may fail; the commands and their number (which
\* bounds the model only).
Scenario == [backend : {"ffmpeg_pipe", "gst_play"}, mtk : BOOLEAN,
             headset : BOOLEAN, patient : BOOLEAN, overlay : BOOLEAN,
             from : SUBSET (0..LEN),
             saved : SUBSET (1..PARTS), fails : SUBSET {"refuse", "stall"},
             cmds : SUBSET Commands, max : Nat]

ASSUME ScenarioAssumption == SCENARIOS \subseteq Scenario

VARIABLES
  scen,       \* the scenario, fixed
  state,      \* MediaSync.state
  idx,        \* current_playlist_idx
  advancing,  \* _track_advance_pending
  prompts,    \* the questions that are open, the last on top: the part and its
              \* saved position
  saved,      \* audio_positions: the position saved for a part, 0 none
  m,          \* the engine, its live timers and what is to be heard
  headset,    \* a headset is connected
  cmds, faults,
  place       \* history: the part and position the listener has come to

sync == <<state, idx, advancing, prompts, saved>>
vars == <<scen, sync, m, headset, cmds, faults, place>>

Part == 1..PARTS
Pos  == 0..LEN + 1
NoPos == -1

\* What makes the sound: the daemon, a pipe, a pipe that has ended or nothing.
\* held by SIGSTOP; its process id known to the engine; stuck at its start;
\* deaf: it plays into a route without a headset.
Silence == [via |-> "none", part |-> 0, pos |-> 0, held |-> FALSE,
            pid |-> FALSE, stuck |-> FALSE, deaf |-> FALSE]

\* The live timers.  restart: the callbacks the pending restart will pass to
\* play; watch: completion watchers; reattach and stall: the position their
\* watcher restarts from.
NoTimers == [restart |-> "none", watch |-> 0, reattach |-> NoPos, stall |-> NoPos]

\* on_complete and on_fail: none, those of the session's chain_generation, or
\* those of an earlier one.  "bare" is a restart that will pass none.
Stale(cb) == IF cb = "live" THEN "stale" ELSE cb

Init ==
  /\ scen \in SCENARIOS
  /\ state = "stopped" /\ idx = 0 /\ advancing = FALSE /\ prompts = <<>>
  /\ saved = [p \in Part |-> IF p \in scen.saved THEN 1 ELSE 0]
  /\ m = [path |-> 0, playing |-> FALSE, paused |-> FALSE, offset |-> 0,
          mark |-> NoPos, cb |-> "none", external |-> FALSE, released |-> FALSE,
          persistent |-> scen.mtk, retries |-> 0, timers |-> NoTimers,
          sound |-> Silence, orphan |-> FALSE]
  /\ headset = scen.headset
  /\ cmds = 0 /\ faults = 0
  /\ place = [part |-> 0, pos |-> 0]

-----------------------------------------------------------------------------
(* The engine: operators from its record to its record.                    *)

\* Mutant: a skip is not cut off at the beginning
UptoUnfloored(n) == IF n > LEN + 1 THEN LEN + 1 ELSE n

Upto(n) == IF n < 0 THEN 0 ELSE IF n > LEN + 1 THEN LEN + 1 ELSE n

\* getPosition.  While the daemon plays, the session's loops keep offset at
\* what it returns (Hears).
GetPosition(e) ==
  IF e.playing /\ ~(e.paused /\ e.mark # NoPos) /\ e.sound.via # "none"
  THEN e.sound.pos
  ELSE IF e.mark # NoPos THEN e.mark ELSE e.offset

Tracked(e) == e.sound.via = "pipe" => e.sound.pid

\* Mutant: stop leaves the generation alone
StoppedTimersLive(e) ==
  [e EXCEPT !.playing = FALSE, !.paused = FALSE, !.released = FALSE,
            !.external = FALSE, !.cb = "none", !.sound = Silence,
            !.orphan = @ \/ ~Tracked(e)]

\* stop.  A process whose id is not known yet is not killed.
Stopped(e) ==
  [e EXCEPT !.playing = FALSE, !.paused = FALSE, !.released = FALSE,
            !.external = FALSE, !.cb = "none", !.timers = NoTimers,
            !.sound = Silence, !.orphan = @ \/ ~Tracked(e)]

\* The sound a start makes: at the engine's offset.
Sound(e, via) ==
  [Silence EXCEPT !.via = via, !.part = e.path, !.pos = e.offset,
                  !.deaf = scen.mtk /\ ~headset]

\* _playAudiooutExternal, accepted by the daemon; its stream may be stuck.
PlayDaemon(e, stuck) ==
  [e EXCEPT !.playing = TRUE, !.external = TRUE,
            !.sound = [Sound(e, "daemon") EXCEPT !.stuck = stuck],
            !.timers = [NoTimers EXCEPT !.watch = 1, !.stall = e.offset]]

\* A pipe.  The one of ffmpeg first kills every other.
PlayPipe(e) ==
  [e EXCEPT !.playing = TRUE, !.sound = Sound(e, "pipe"),
            !.orphan = @ /\ scen.backend = "gst_play",
            !.timers = [NoTimers EXCEPT !.watch = 1,
                          !.reattach = IF e.persistent THEN e.offset ELSE NoPos]]

\* What may come of a call: the engine, and the failures it took.
Sure(e)  == {[e |-> e, f |-> 0]}
Fault(f, e) ==
  {r \in {[e |-> e, f |-> 1]} : f \in scen.fails /\ faults < MAX_FAULTS}

\* play.  A daemon that refuses although a headset is there is not tried
\* again in this session.
Plays(e, cb) ==
  LET s == [Stopped(e) EXCEPT !.cb = cb] IN
  IF s.persistent /\ headset
  THEN Sure(PlayDaemon(s, FALSE))
       \cup Fault("stall", PlayDaemon(s, TRUE))
       \cup Fault("refuse", PlayPipe([s EXCEPT !.persistent = FALSE]))
  ELSE Sure(PlayPipe(s))

\* Mutant: the position is not marked before the daemon is released
PausedUnmarked(e) ==
  IF ~e.playing \/ e.paused THEN e
  ELSE IF e.external
  THEN [e EXCEPT !.paused = TRUE, !.external = FALSE, !.released = TRUE, !.sound = Silence]
  ELSE [e EXCEPT !.paused = TRUE, !.sound.held = e.sound.pid]

\* pause.  On the MTK sink the daemon is released; a process is stopped if
\* its id is known.
Paused(e) ==
  IF ~e.playing \/ e.paused THEN e
  ELSE IF e.external
  THEN [e EXCEPT !.paused = TRUE, !.mark = GetPosition(e), !.offset = GetPosition(e),
                 !.external = FALSE, !.released = TRUE, !.sound = Silence]
  ELSE [e EXCEPT !.paused = TRUE, !.sound.held = e.sound.pid]

\* resume.  The pipe of ffmpeg is continued only if there is one.
Resumes(e) ==
  IF ~(e.playing /\ e.paused) THEN Sure(e)
  ELSE IF e.released
  THEN Plays([e EXCEPT !.mark = NoPos, !.offset = IF e.mark = NoPos THEN 0 ELSE e.mark],
             e.cb)
  ELSE IF e.sound.pid \/ scen.backend = "ffmpeg_pipe"
  THEN Sure([e EXCEPT !.paused = FALSE, !.sound.held = FALSE])
  ELSE Plays(e, e.cb)

\* The callbacks handed to a timer that restarts.
Kept(cb) == IF cb = "none" THEN "bare" ELSE cb

\* Mutant: the callbacks are read after stop has dropped them
RestartedBare(e, target, was) ==
  LET s == Stopped([e EXCEPT !.offset = target]) IN
  IF was THEN [s EXCEPT !.timers.restart = Kept(s.cb)]
  ELSE [s EXCEPT !.playing = TRUE, !.paused = TRUE, !.cb = e.cb]

\* Mutant: a seek while paused starts to play
RestartedAlways(e, target, was) ==
  [Stopped([e EXCEPT !.offset = target]) EXCEPT !.timers.restart = Kept(e.cb)]

\* seek, the restart with an offset: paused, or soon to play again.
Restarted(e, target, was) ==
  LET s == Stopped([e EXCEPT !.offset = target]) IN
  IF was THEN [s EXCEPT !.timers.restart = Kept(e.cb)]
  ELSE [s EXCEPT !.playing = TRUE, !.paused = TRUE, !.cb = e.cb]

\* seek, in the daemon's stream.  The generation stays, so does the old watcher.
SoughtInPlace(e, target, was) ==
  [e EXCEPT !.offset = target, !.mark = target, !.sound.pos = target,
            !.playing = TRUE, !.paused = ~was, !.timers.watch = @ + 1]

Seeks(e, target) ==
  LET was == e.playing /\ ~e.paused
      x   == IF e.paused \/ e.external THEN [e EXCEPT !.mark = target] ELSE e IN
  IF was /\ GetPosition(e) = target THEN Sure(e)
  ELSE IF e.external
  THEN Sure(SoughtInPlace(x, target, was))
       \cup Fault("refuse", Restarted(x, target, was))
  ELSE Sure(Restarted(x, target, was))

\* _restartAt.
RestartAt(e, pos) ==
  [Stopped([e EXCEPT !.offset = pos]) EXCEPT !.timers.restart = Kept(e.cb)]

-----------------------------------------------------------------------------
(* The session.                                                            *)

\* A new chain_generation.
Bump(e) == [e EXCEPT !.cb = Stale(@), !.timers.restart = Stale(@)]

Becomes(results) == \E r \in results : m' = r.e /\ faults' = faults + r.f

\* MediaSync.stop.
SyncStop(e) ==
  /\ state' = "stopped" /\ m' = Stopped(Bump(e))
  /\ UNCHANGED <<idx, advancing, faults>>

\* Mutant: the part is not looked up in the playlist
StartPartUnlisted(p, pos, e) ==
  LET s == IF state = "stopped" THEN e ELSE Stopped(e)
      l == [Bump(s) EXCEPT !.path = p, !.playing = FALSE, !.paused = FALSE,
                           !.offset = pos, !.mark = pos] IN
  /\ state' = "playing" /\ advancing' = FALSE
  /\ place' = [part |-> p, pos |-> pos]
  /\ Becomes(Plays(l, "live")) /\ UNCHANGED idx

\* Mutant: the advance stays pending
StartPartPending(p, pos, e) ==
  LET s == IF state = "stopped" THEN e ELSE Stopped(e)
      l == [Bump(s) EXCEPT !.path = p, !.playing = FALSE, !.paused = FALSE,
                           !.offset = pos, !.mark = pos] IN
  /\ state' = "playing" /\ idx' = p
  /\ place' = [part |-> p, pos |-> pos]
  /\ Becomes(Plays(l, "live")) /\ UNCHANGED advancing

\* MediaSync.start of a part at a position, on an engine as e.
StartPart(p, pos, e) ==
  LET s == IF state = "stopped" THEN e ELSE Stopped(e)
      l == [Bump(s) EXCEPT !.path = p, !.playing = FALSE, !.paused = FALSE,
                           !.offset = pos, !.mark = pos] IN
  /\ state' = "playing" /\ idx' = p /\ advancing' = FALSE
  /\ place' = [part |-> p, pos |-> pos]
  /\ Becomes(Plays(l, "live"))

\* _playAudioFile: a part with a saved position is asked about first.
PlayFile(p, i, adv, e) ==
  IF saved[p] > 0 /\ ~scen.overlay
  THEN /\ prompts' = Append(prompts, [part |-> p, pos |-> saved[p]]) /\ idx' = i /\ advancing' = adv /\ m' = e
       /\ UNCHANGED <<state, faults, place>>
  ELSE StartPart(p, 0, e) /\ UNCHANGED prompts

\* switchToPlaylistFile.
SwitchTo(p, adv, e) == PlayFile(p, p, adv, e) /\ UNCHANGED saved

\* _onPlaybackComplete.
OnPlaybackComplete(e) ==
  IF advancing
  THEN m' = e /\ UNCHANGED <<sync, faults, place>>
  ELSE IF idx < PARTS
  THEN SwitchTo(idx + 1, TRUE, Bump(e))
  ELSE SyncStop(e) /\ UNCHANGED <<prompts, saved, place>>

-----------------------------------------------------------------------------
(* What the engine's timers and its sources of sound do.                   *)

Settled == m.timers.restart = "none" /\ Tracked(m)

\* The watcher's test: the daemon has come to the end and is not paused, the
\* process has ended.
AtEnd == \/ m.sound.via = "daemon" /\ m.external /\ ~m.paused /\ m.sound.pos >= LEN
         \/ m.sound.via = "ended"

\* A completion watcher finds the part at its end.
PartEnds ==
  LET e == [m EXCEPT !.playing = FALSE, !.paused = FALSE, !.cb = "none",
                     !.timers.watch = @ - 1,
                     !.sound = IF @.via = "ended" THEN Silence ELSE @] IN
  /\ m.timers.watch > 0 /\ m.playing /\ AtEnd
  /\ IF m.cb = "live" THEN OnPlaybackComplete(e)
     ELSE m' = e /\ UNCHANGED <<sync, faults, place>>
  /\ UNCHANGED <<scen, headset, cmds>>

\* A completion watcher finds the engine stopped.
WatchEnds ==
  /\ m.timers.watch > 0 /\ ~m.playing
  /\ m' = [m EXCEPT !.timers.watch = @ - 1]
  /\ UNCHANGED <<scen, sync, headset, cmds, faults, place>>

\* The restart of a seek or of a watchdog.
RestartFires ==
  /\ m.timers.restart # "none"
  /\ Becomes(Plays(m, IF m.timers.restart = "bare" THEN "none" ELSE m.timers.restart))
  /\ UNCHANGED <<scen, sync, headset, cmds, place>>

\* try_capture_pid.
PidCaptured ==
  /\ ~Tracked(m)
  /\ m' = [m EXCEPT !.sound.pid = TRUE]
  /\ UNCHANGED <<scen, sync, headset, cmds, faults, place>>

\* The headset is there: what was played into the dead route is played again.
\* The watcher is slower than try_capture_pid.
Reattaches ==
  /\ m.timers.reattach # NoPos /\ m.playing /\ headset /\ Tracked(m)
  /\ m' = RestartAt(m, m.timers.reattach)
  /\ UNCHANGED <<scen, sync, headset, cmds, faults, place>>

\* The stall watchdog, at the end of its patience: two restarts, then a message.
StallSeen ==
  /\ m.timers.stall # NoPos /\ m.playing /\ ~m.paused /\ m.external /\ m.sound.stuck
  /\ m' = IF m.retries < 2
          THEN RestartAt([m EXCEPT !.retries = @ + 1], m.timers.stall)
          ELSE [m EXCEPT !.retries = 0, !.timers.stall = NoPos]
  /\ UNCHANGED <<scen, sync, headset, cmds, faults, place>>

\* The stall watchdog is content, or its stream is gone.
StallWatchEnds ==
  /\ m.timers.stall # NoPos
  /\ \/ m.playing /\ m.external /\ ~m.paused /\ ~m.sound.stuck
        /\ m' = [m EXCEPT !.retries = 0, !.timers.stall = NoPos]
     \/ ~(m.playing /\ m.external)
        /\ m' = [m EXCEPT !.timers.stall = NoPos]
  /\ UNCHANGED <<scen, sync, headset, cmds, faults, place>>

\* A unit of the part is played.  The loops of the session read the daemon's
\* position several times in that time and leave it in offset.
Hears ==
  /\ m.sound.via \in {"daemon", "pipe"} /\ Tracked(m)
  /\ ~m.sound.held /\ ~m.sound.stuck /\ m.sound.pos < LEN
  /\ m' = [m EXCEPT !.sound.pos = @ + 1,
                    !.offset = IF m.external /\ state = "playing"
                               THEN m.sound.pos + 1 ELSE @]
  /\ place' = IF m.sound.deaf THEN place ELSE [place EXCEPT !.pos = @ + 1]
  /\ UNCHANGED <<scen, sync, headset, cmds, faults>>

\* The process of a pipe ends with the part.
PipeEnds ==
  /\ m.sound.via = "pipe" /\ m.sound.pid /\ ~m.sound.held /\ m.sound.pos >= LEN
  /\ m' = [m EXCEPT !.sound.via = "ended"]
  /\ UNCHANGED <<scen, sync, headset, cmds, faults, place>>

OrphanEnds ==
  /\ m.orphan
  /\ m' = [m EXCEPT !.orphan = FALSE]
  /\ UNCHANGED <<scen, sync, headset, cmds, faults, place>>

HeadsetConnects ==
  /\ ~headset /\ headset' = TRUE
  /\ UNCHANGED <<scen, sync, m, cmds, faults, place>>

-----------------------------------------------------------------------------
(* What the user does.                                                     *)

Command(c) ==
  /\ c \in scen.cmds /\ cmds < scen.max /\ cmds' = cmds + 1
  /\ scen.patient => Settled
  /\ UNCHANGED <<scen, headset>>

Bare == prompts = <<>>      \* no question covers the player

\* A file is chosen, with its folder for a playlist, or, in a book with an
\* overlay, playback is started from a place in it.
UserChooses(p) ==
  /\ Command("choose") /\ Bare
  /\ IF scen.overlay
     THEN \E pos \in scen.from : StartPart(p, pos, m) /\ UNCHANGED <<prompts, saved>>
     ELSE PlayFile(p, idx, advancing, m) /\ UNCHANGED saved

UserAnswers ==
  LET n == Len(prompts)
      q == prompts[n] IN
  /\ ~Bare
  /\ prompts' = SubSeq(prompts, 1, n - 1)
  /\ \/ /\ Command("resume_at")
        /\ StartPart(q.part, q.pos, m)
        /\ UNCHANGED saved
     \/ /\ Command("from_start")
        /\ StartPart(q.part, 0, m)
        /\ saved' = [saved EXCEPT ![q.part] = 0]
     \/ /\ Command("cancel")
        /\ UNCHANGED <<state, idx, advancing, saved, m, faults, place>>

UserPauses ==
  /\ Command("toggle") /\ state = "playing"
  /\ state' = "paused" /\ m' = Paused(m)
  /\ UNCHANGED <<idx, advancing, prompts, saved, faults, place>>

UserResumes ==
  /\ Command("toggle") /\ state = "paused"
  /\ state' = "playing" /\ Becomes(Resumes(m))
  /\ UNCHANGED <<idx, advancing, prompts, saved, place>>

\* The play button of a bar that outlived the session.
PlayFromStopped ==
  /\ Command("toggle") /\ state = "stopped" /\ scen.overlay /\ m.path # 0
  /\ LET pos == IF m.mark # NoPos THEN m.mark ELSE m.offset IN
     Becomes(Plays([m EXCEPT !.offset = IF pos > 0 THEN pos ELSE @], "live"))
  /\ state' = "playing"
  /\ UNCHANGED <<idx, advancing, prompts, saved, place>>

SeekTo(target, want) ==
  /\ state # "stopped" /\ Bare
  /\ Becomes(Seeks(m, target))
  /\ place' = [place EXCEPT !.pos = want]
  /\ UNCHANGED sync

\* The scrubber.
UserSeeks(target) ==
  /\ Command(IF state = "paused" THEN "seek_paused" ELSE "seek")
  /\ SeekTo(target, target)

\* skipBack and skipForward, from where the listener is.
UserSkips(d) ==
  /\ Command("skip") /\ state # "paused"
  /\ SeekTo(Upto(GetPosition(m) + d), Upto(place.pos + d))

\* nextChapter and prevChapter: a key of the headset does not wait for an
\* answer.
UserSwitches(d) ==
  /\ Command(IF d = 1 THEN "next" ELSE "prev") /\ state # "stopped"
  /\ idx + d \in Part
  /\ SwitchTo(idx + d, advancing, m)

\* Mutant: the position is read when the engine has stopped
UserStopsFirst ==
  LET e   == Stopped(Bump(m))
      pos == GetPosition(e) IN
  /\ Command("stop") /\ state # "stopped"
  /\ saved' = [saved EXCEPT ![m.path] = IF pos > 0 THEN pos ELSE @]
  /\ state' = "stopped" /\ m' = e
  /\ UNCHANGED <<idx, advancing, prompts, faults, place>>

\* A row of the playlist.
UserPicks(p) ==
  /\ Command("pick") /\ state # "stopped" /\ Bare
  /\ SwitchTo(p, advancing, m)

\* stopReadAlong.  What it kills besides the engine's process are those of
\* gst-launch.
UserStops ==
  LET pos == GetPosition(m) IN
  /\ Command("stop") /\ state # "stopped"
  /\ saved' = [saved EXCEPT ![m.path] = IF pos > 0 THEN pos ELSE @]
  /\ state' = "stopped"
  /\ m' = [Stopped(Bump(m)) EXCEPT
             !.orphan = @ /\ ~(scen.mtk /\ scen.backend = "ffmpeg_pipe")]
  /\ UNCHANGED <<idx, advancing, prompts, faults, place>>

-----------------------------------------------------------------------------
Timer  == PartEnds \/ WatchEnds \/ RestartFires \/ PidCaptured \/ Reattaches
            \/ StallSeen \/ StallWatchEnds
Device == Hears \/ PipeEnds \/ OrphanEnds \/ HeadsetConnects
User ==
  \/ \E p \in Part : UserChooses(p) \/ UserPicks(p)
  \/ UserAnswers
  \/ UserPauses
  \/ UserResumes
  \/ PlayFromStopped
  \/ \E target \in 0..LEN : UserSeeks(target)
  \/ \E d \in {-1, 1} : UserSkips(d) \/ UserSwitches(d)
  \/ UserStops

Next == Timer \/ Device \/ User

Spec == Init /\ [][Next]_vars

\* Timers of the one user interface thread fire; a source of sound that is
\* not held or stuck goes on.
Fairness == WF_vars(Timer) /\ WF_vars(Hears) /\ WF_vars(PipeEnds)

FairSpec == Spec /\ Fairness

-----------------------------------------------------------------------------
(* Properties.                                                             *)

Callbacks == {"none", "live", "stale"}

\* Every variable stays in its range: positions within the part and the
\* place one after it, at most the two restarts the watchdog has.
TypeOK ==
  /\ state \in {"stopped", "playing", "paused"} /\ idx \in 0..PARTS
  /\ advancing \in BOOLEAN
  /\ prompts \in Seq([part : Part, pos : Pos])
  /\ saved \in [Part -> Pos]
  /\ m.path \in 0..PARTS /\ m.offset \in Pos /\ m.mark \in Pos \cup {NoPos}
  /\ m.cb \in Callbacks /\ m.timers.restart \in Callbacks \cup {"bare"}
  /\ m.timers.watch \in Nat /\ m.retries \in 0..2
  /\ {m.timers.reattach, m.timers.stall} \subseteq Pos \cup {NoPos}
  /\ m.sound.via \in {"none", "daemon", "pipe", "ended"} /\ m.sound.pos \in Pos
  /\ place \in [part : 0..PARTS, pos : Pos]

\* A session that says it plays does: something sounds and the session will be
\* told of its end, or a restart is due, or a question is open.  Seeks, pauses,
\* changes of part and restarts in any order do not leave a player that shows
\* "playing" over silence.
PlayingIsAlive ==
  state = "playing" =>
    \/ m.playing /\ ~m.paused /\ m.cb = "live" /\ m.sound.via # "none"
    \/ m.timers.restart = "live"
    \/ prompts # <<>>

\* Sound that goes on.
Sounding == m.sound.via \in {"daemon", "pipe"} /\ ~m.sound.held /\ m.sound.pos < LEN

\* A paused session is quiet and stays so: no timer of the engine is about
\* to play.
PausedIsQuiet ==
  state = "paused" => ~Sounding /\ m.timers.restart = "none"

\* stop is final: neither a restart of a seek or a watchdog, nor a process the
\* engine has lost sight of, sounds in a stopped session.  (A user who stops
\* within a third of a second outruns try_capture_pid.)
SilentWhenStopped ==
  state = "stopped" => /\ ~Sounding /\ m.timers.restart = "none"
                       /\ m.orphan => ~scen.patient

\* What is heard is what the listener has come to: after seeks, skips, pauses,
\* restarts, refusals of the daemon and changes of part, sound goes on from
\* there.
PlaceKept ==
  m.sound.via \in {"daemon", "pipe"} /\ ~m.sound.deaf =>
    [part |-> m.sound.part, pos |-> m.sound.pos] = place

\* Unless the listener asks for it, a part is left for the next one only, and
\* only when it was heard to its end.
AdvanceIsNext ==
  [][ (cmds' = cmds /\ (m'.path # m.path \/ Len(prompts') > Len(prompts))
        /\ ~m.sound.deaf) =>
      /\ place.part = m.path /\ place.pos >= LEN
      /\ idx' = place.part + 1 ]_vars

\* The position saved at a stop is the place the listener has come to (with a
\* question open, the engine has forgotten it).
SavedIsPlace ==
  [][ (state # "stopped" /\ state' = "stopped" /\ cmds' # cmds /\ prompts = <<>>
        /\ place.pos > 0)
        => saved'[place.part] = place.pos ]_vars

\* Left alone, playback comes to the end of the book, to a question, or to a
\* stream that never starts.
PlaybackEnds ==
  <>[](state # "playing" \/ prompts # <<>> \/ m.sound.stuck)
=============================================================================
