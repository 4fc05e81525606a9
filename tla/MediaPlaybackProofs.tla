------------------------ MODULE MediaPlaybackProofs ------------------------
(***************************************************************************)
(* Proofs about MediaPlayback.                                             *)
(***************************************************************************)
EXTENDS MediaPlayback, SequenceTheorems, TLAPS

-----------------------------------------------------------------------------
(* The engine's record.                                                    *)

TimerSet == [restart : Callbacks \cup {"bare"}, watch : Nat,
             reattach : Pos \cup {NoPos}, stall : Pos \cup {NoPos}]

SoundSet == [via : {"none", "daemon", "pipe", "ended"}, part : 0..PARTS, pos : Pos,
             held : BOOLEAN, pid : BOOLEAN, stuck : BOOLEAN, deaf : BOOLEAN]

Engine == [path : 0..PARTS, playing : BOOLEAN, paused : BOOLEAN, offset : Pos,
           mark : Pos \cup {NoPos}, cb : Callbacks, external : BOOLEAN, released : BOOLEAN,
           persistent : BOOLEAN, retries : 0..2, timers : TimerSet, sound : SoundSet,
           orphan : BOOLEAN]

\* What stop does to the engine e, whatever else is then changed in it.
Off(x, e) ==
  /\ x.path = e.path /\ x.retries = e.retries /\ x.persistent = e.persistent
  /\ ~x.external /\ ~x.released /\ x.sound = Silence
  /\ x.timers.watch = 0 /\ x.timers.reattach = NoPos /\ x.timers.stall = NoPos
  /\ x.orphan => e.orphan \/ ~Tracked(e)

\* stop.
Halts(x, e) ==
  /\ Off(x, e) /\ x.timers = NoTimers
  /\ ~x.playing /\ ~x.paused /\ x.cb = "none"
  /\ x.offset = e.offset /\ x.mark = e.mark

\* A restart from a position is pending.
Due(x, e, pos) ==
  /\ Off(x, e) /\ ~x.playing /\ ~x.paused /\ x.cb = "none"
  /\ x.timers.restart = Kept(e.cb) /\ x.offset = pos

\* Paused at a position, with nothing to be heard.
Waits(x, e, pos) ==
  /\ Off(x, e) /\ x.timers = NoTimers
  /\ x.playing /\ x.paused /\ x.cb = e.cb /\ x.offset = pos

\* play.
Starts(x, e, cb) ==
  /\ x.path = e.path /\ x.offset = e.offset /\ x.mark = e.mark /\ x.retries = e.retries
  /\ x.playing /\ ~x.paused /\ ~x.released /\ x.cb = cb
  /\ x.timers.restart = "none" /\ x.timers.watch = 1
  /\ x.sound.part = e.path /\ x.sound.pos = e.offset
  /\ ~x.sound.held /\ ~x.sound.pid /\ x.sound.deaf = (scen.mtk /\ ~headset)
  /\ x.orphan => e.orphan \/ ~Tracked(e)
  /\ \/ /\ e.persistent /\ headset /\ x.persistent
        /\ x.external /\ x.sound.via = "daemon"
        /\ x.timers.reattach = NoPos /\ x.timers.stall = e.offset
        /\ x.sound.stuck => "stall" \in scen.fails
     \/ /\ e.persistent /\ headset => "refuse" \in scen.fails
        /\ x.persistent = (e.persistent /\ ~headset)
        /\ ~x.external /\ x.sound.via = "pipe" /\ ~x.sound.stuck
        /\ x.timers.reattach = (IF x.persistent THEN e.offset ELSE NoPos)
        /\ x.timers.stall = NoPos

-----------------------------------------------------------------------------
(* What the operators of the engine return.                                *)

\* Silence and no timers are a sound and timers.
LEMMA Nothing == NoTimers \in TimerSet /\ Silence \in SoundSet
BY MediaAssumption DEF NoTimers, Silence, TimerSet, SoundSet, Callbacks, Pos, NoPos

\* stop returns an engine.
LEMMA StoppedType ==
  ASSUME NEW e \in Engine
  PROVE  Stopped(e) \in Engine
BY Nothing DEF Stopped, Engine, Tracked, Callbacks

\* stop leaves an engine that is off.
LEMMA StoppedIs ==
  ASSUME NEW e \in Engine
  PROVE  Halts(Stopped(e), e)
BY DEF Stopped, Engine, Halts, Off, NoTimers

\* A start makes a sound.
LEMMA SoundType ==
  ASSUME NEW e \in Engine, NEW via \in {"daemon", "pipe"}, scen \in Scenario, headset \in BOOLEAN
  PROVE  Sound(e, via) \in SoundSet
BY Nothing DEF Sound, Engine, SoundSet, Scenario

\* A start through the daemon, of an engine at rest.
LEMMA PlayDaemonIs ==
  ASSUME NEW e \in Engine, NEW stuck \in BOOLEAN, ~e.released, ~e.paused,
         scen \in Scenario, headset \in BOOLEAN
  PROVE  /\ PlayDaemon(e, stuck) \in Engine
         /\ e.persistent /\ headset /\ (stuck => "stall" \in scen.fails)
              => Starts(PlayDaemon(e, stuck), e, e.cb)
<1> DEFINE x == PlayDaemon(e, stuck)
           y == [Sound(e, "daemon") EXCEPT !.stuck = stuck]
           t == [NoTimers EXCEPT !.watch = 1, !.stall = e.offset]
<1>1. /\ y \in SoundSet /\ y.part = e.path /\ y.pos = e.offset /\ ~y.held /\ ~y.pid
      /\ y.deaf = (scen.mtk /\ ~headset) /\ y.via = "daemon" /\ y.stuck = stuck
  <2>1. y \in SoundSet
    BY SoundType DEF SoundSet
  <2>2. /\ y.part = e.path /\ y.pos = e.offset /\ ~y.held /\ ~y.pid
        /\ y.deaf = (scen.mtk /\ ~headset) /\ y.via = "daemon" /\ y.stuck = stuck
    BY DEF Sound, Silence
  <2> QED  BY <2>1, <2>2
<1>2. /\ t \in TimerSet /\ t.restart = "none" /\ t.watch = 1 /\ t.reattach = NoPos
      /\ t.stall = e.offset
  BY Nothing DEF NoTimers, TimerSet, Engine
<1>3. x = [e EXCEPT !.playing = TRUE, !.external = TRUE, !.sound = y, !.timers = t]
  BY DEF PlayDaemon
<1> HIDE DEF x, y, t
<1>4. x \in Engine
  BY <1>1, <1>2, <1>3 DEF Engine
<1>5. /\ x.playing /\ x.external /\ x.sound = y /\ x.timers = t
      /\ x.path = e.path /\ x.offset = e.offset /\ x.mark = e.mark /\ x.retries = e.retries
      /\ x.paused = e.paused /\ x.released = e.released /\ x.cb = e.cb
      /\ x.persistent = e.persistent /\ x.orphan = e.orphan
  BY <1>3 DEF Engine
<1>6. e.persistent /\ headset /\ (stuck => "stall" \in scen.fails) => Starts(x, e, e.cb)
  BY <1>1, <1>2, <1>5 DEF Starts
<1> QED  BY <1>4, <1>6 DEF x

\* A start of a pipe, of an engine at rest.
LEMMA PlayPipeIs ==
  ASSUME NEW e \in Engine, ~e.released, ~e.paused, ~e.external,
         scen \in Scenario, headset \in BOOLEAN
  PROVE  /\ PlayPipe(e) \in Engine
         /\ ~(e.persistent /\ headset) => Starts(PlayPipe(e), e, e.cb)
<1> DEFINE x == PlayPipe(e)
           y == Sound(e, "pipe")
           t == [NoTimers EXCEPT !.watch = 1,
                          !.reattach = IF e.persistent THEN e.offset ELSE NoPos]
<1>1. /\ y \in SoundSet /\ y.part = e.path /\ y.pos = e.offset /\ ~y.held /\ ~y.pid
      /\ y.deaf = (scen.mtk /\ ~headset) /\ y.via = "pipe" /\ ~y.stuck
  <2>1. y \in SoundSet
    BY SoundType
  <2>2. /\ y.part = e.path /\ y.pos = e.offset /\ ~y.held /\ ~y.pid
        /\ y.deaf = (scen.mtk /\ ~headset) /\ y.via = "pipe" /\ ~y.stuck
    BY DEF Sound, Silence
  <2> QED  BY <2>1, <2>2
<1>2. /\ t \in TimerSet /\ t.restart = "none" /\ t.watch = 1 /\ t.stall = NoPos
      /\ t.reattach = (IF e.persistent THEN e.offset ELSE NoPos)
  BY Nothing DEF NoTimers, TimerSet, Engine
<1>3. x = [e EXCEPT !.playing = TRUE, !.sound = y,
                    !.orphan = @ /\ scen.backend = "gst_play", !.timers = t]
  BY DEF PlayPipe
<1> HIDE DEF x, y, t
<1>4. x \in Engine
  BY <1>1, <1>2, <1>3 DEF Engine
<1>5. /\ x.playing /\ x.external = e.external /\ x.sound = y /\ x.timers = t
      /\ x.path = e.path /\ x.offset = e.offset /\ x.mark = e.mark /\ x.retries = e.retries
      /\ x.paused = e.paused /\ x.released = e.released /\ x.cb = e.cb
      /\ x.persistent = e.persistent /\ (x.orphan => e.orphan)
  BY <1>3 DEF Engine
<1>6. ASSUME ~(e.persistent /\ headset)  PROVE Starts(x, e, e.cb)
  BY <1>1, <1>2, <1>5, <1>6 DEF Starts, Engine
<1> QED  BY <1>4, <1>6 DEF x

\* play: a start of the engine it is called on, with the callbacks it is given.
LEMMA PlaysIs ==
  ASSUME NEW e \in Engine, NEW cb \in Callbacks, scen \in Scenario, headset \in BOOLEAN,
         NEW r \in Plays(e, cb)
  PROVE  r.e \in Engine /\ Starts(r.e, e, cb)
<1> DEFINE s == [Stopped(e) EXCEPT !.cb = cb]
           u == [s EXCEPT !.persistent = FALSE]
<1>1. /\ s \in Engine /\ s.cb = cb /\ ~s.released /\ ~s.paused /\ ~s.external
      /\ s.path = e.path /\ s.offset = e.offset /\ s.mark = e.mark /\ s.retries = e.retries
      /\ s.persistent = e.persistent /\ (s.orphan => e.orphan \/ ~Tracked(e))
  <2>1. Stopped(e) \in Engine /\ Halts(Stopped(e), e)
    BY StoppedType, StoppedIs
  <2> HIDE DEF Stopped
  <2>2. s \in Engine
    BY <2>1 DEF Engine
  <2> QED  BY <2>1, <2>2 DEF Engine, Halts, Off
<1>2. r \in IF s.persistent /\ headset
            THEN Sure(PlayDaemon(s, FALSE))
                 \cup Fault("stall", PlayDaemon(s, TRUE))
                 \cup Fault("refuse", PlayPipe(u))
            ELSE Sure(PlayPipe(s))
  BY DEF Plays
<1> HIDE DEF s
<1>3. /\ u \in Engine /\ u.cb = cb /\ ~u.released /\ ~u.paused /\ ~u.external
      /\ u.path = e.path /\ u.offset = e.offset /\ u.mark = e.mark /\ u.retries = e.retries
      /\ ~u.persistent /\ (u.orphan => e.orphan \/ ~Tracked(e))
  BY <1>1 DEF Engine
<1> HIDE DEF u
<1>4. ASSUME NEW x \in Engine, Starts(x, s, cb)  PROVE Starts(x, e, cb)
  <2>1. x.orphan => e.orphan \/ ~Tracked(e)
    <3>1. x.orphan => s.orphan \/ ~Tracked(s)
      BY <1>4 DEF Starts
    <3>2. Tracked(s)
      BY StoppedIs DEF Halts, Off, Tracked, Silence, s
    <3> QED  BY <3>1, <3>2, <1>1
  <2> QED  BY <2>1, <1>1, <1>4 DEF Starts
<1>5. CASE s.persistent /\ headset /\ r = [e |-> PlayDaemon(s, FALSE), f |-> 0]
  BY <1>1, <1>4, <1>5, PlayDaemonIs
<1>6. CASE s.persistent /\ headset /\ r = [e |-> PlayDaemon(s, TRUE), f |-> 1] /\ "stall" \in scen.fails
  BY <1>1, <1>4, <1>6, PlayDaemonIs
<1>7. CASE s.persistent /\ headset /\ r = [e |-> PlayPipe(u), f |-> 1] /\ "refuse" \in scen.fails
  <2>1. r.e \in Engine /\ Starts(r.e, u, cb)
    BY <1>3, <1>7, PlayPipeIs
  <2>2. Tracked(u)
    BY StoppedIs DEF Halts, Off, Tracked, Silence, s, u
  <2> QED  BY <2>1, <2>2, <1>1, <1>3, <1>7 DEF Starts
<1>8. CASE ~(s.persistent /\ headset) /\ r = [e |-> PlayPipe(s), f |-> 0]
  BY <1>1, <1>4, <1>8, PlayPipeIs
<1> QED
  BY <1>2, <1>5, <1>6, <1>7, <1>8 DEF Sure, Fault

\* The position is one of the part's.
LEMMA GetPositionType ==
  ASSUME NEW e \in Engine
  PROVE  GetPosition(e) \in Pos
BY DEF GetPosition, Engine, SoundSet, NoPos

\* What pause does to a playing engine: it releases the daemon, or holds the
\* process.
Releases(x, e) ==
  /\ x.released /\ ~x.external /\ x.sound = Silence
  /\ x.mark = GetPosition(e) /\ x.offset = GetPosition(e)

Holds(x, e) ==
  /\ x.released = e.released /\ x.external = e.external
  /\ x.mark = e.mark /\ x.offset = e.offset
  /\ x.sound.via = e.sound.via /\ x.sound.part = e.sound.part /\ x.sound.pos = e.sound.pos
  /\ x.sound.pid = e.sound.pid /\ x.sound.stuck = e.sound.stuck /\ x.sound.deaf = e.sound.deaf
  /\ x.sound.held = e.sound.pid

\* pause: nothing when it does not play.
LEMMA PausedIs ==
  ASSUME NEW e \in Engine
  PROVE  /\ Paused(e) \in Engine
         /\ ~e.playing \/ e.paused => Paused(e) = e
         /\ e.playing /\ ~e.paused =>
              /\ Paused(e).playing /\ Paused(e).paused
              /\ Paused(e).path = e.path /\ Paused(e).cb = e.cb /\ Paused(e).orphan = e.orphan
              /\ Paused(e).persistent = e.persistent /\ Paused(e).retries = e.retries
              /\ Paused(e).timers = e.timers
              /\ IF e.external THEN Releases(Paused(e), e) ELSE Holds(Paused(e), e)
<1>1. CASE ~e.playing \/ e.paused
  BY <1>1 DEF Paused
<1>2. CASE e.playing /\ ~e.paused /\ e.external
  <2> DEFINE g == GetPosition(e)
             x == [e EXCEPT !.paused = TRUE, !.mark = g, !.offset = g,
                            !.external = FALSE, !.released = TRUE, !.sound = Silence]
  <2>1. g \in Pos /\ Paused(e) = x
    BY <1>2, GetPositionType DEF Paused
  <2> HIDE DEF g
  <2>2. x \in Engine
    BY <2>1, Nothing DEF Engine
  <2>3. x.playing /\ x.paused /\ x.path = e.path /\ x.cb = e.cb /\ x.orphan = e.orphan
        /\ x.persistent = e.persistent /\ x.retries = e.retries /\ x.timers = e.timers
    BY <1>2 DEF Engine
  <2>4. Releases(x, e)
    BY DEF Releases, Engine, g
  <2> QED  BY <1>2, <2>1, <2>2, <2>3, <2>4
<1>3. CASE e.playing /\ ~e.paused /\ ~e.external
  <2> DEFINE y == [e.sound EXCEPT !.held = e.sound.pid]
             x == [e EXCEPT !.paused = TRUE, !.sound = y]
  <2>1. y \in SoundSet /\ y.via = e.sound.via /\ y.part = e.sound.part /\ y.pos = e.sound.pos
        /\ y.pid = e.sound.pid /\ y.stuck = e.sound.stuck /\ y.deaf = e.sound.deaf
        /\ y.held = e.sound.pid
    BY DEF Engine, SoundSet
  <2>2. Paused(e) = x
    BY <1>3 DEF Paused, Engine
  <2> HIDE DEF y
  <2>3. x \in Engine
    BY <2>1 DEF Engine
  <2>4. x.playing /\ x.paused /\ x.path = e.path /\ x.cb = e.cb /\ x.orphan = e.orphan
        /\ x.persistent = e.persistent /\ x.retries = e.retries /\ x.timers = e.timers
    BY <1>3 DEF Engine
  <2>5. Holds(x, e)
    BY <2>1 DEF Holds, Engine
  <2> QED  BY <1>3, <2>2, <2>3, <2>4, <2>5
<1> QED  BY <1>1, <1>2, <1>3 DEF Engine

\* The process goes on.
Continues(x, e) ==
  /\ x.path = e.path /\ x.playing = e.playing /\ ~x.paused /\ x.offset = e.offset
  /\ x.mark = e.mark /\ x.cb = e.cb /\ x.external = e.external /\ x.released = e.released
  /\ x.persistent = e.persistent /\ x.retries = e.retries /\ x.timers = e.timers
  /\ x.sound.via = e.sound.via /\ x.sound.part = e.sound.part /\ x.sound.pos = e.sound.pos
  /\ x.sound.pid = e.sound.pid /\ x.sound.stuck = e.sound.stuck /\ x.sound.deaf = e.sound.deaf
  /\ ~x.sound.held /\ x.orphan = e.orphan

\* The engine that a resume of a released daemon starts again.
FromMark(e) == [e EXCEPT !.mark = NoPos, !.offset = IF e.mark = NoPos THEN 0 ELSE e.mark]

\* resume: a start from the mark, the process that goes on, or a new start.
LEMMA ResumesIs ==
  ASSUME NEW e \in Engine, scen \in Scenario, headset \in BOOLEAN, NEW r \in Resumes(e)
  PROVE  /\ r.e \in Engine
         /\ \/ ~(e.playing /\ e.paused) /\ r.e = e
            \/ e.playing /\ e.paused /\ e.released /\ Starts(r.e, FromMark(e), e.cb)
            \/ e.playing /\ e.paused /\ ~e.released
                 /\ (e.sound.pid \/ scen.backend = "ffmpeg_pipe") /\ Continues(r.e, e)
            \/ e.playing /\ e.paused /\ ~e.released
                 /\ ~e.sound.pid /\ scen.backend # "ffmpeg_pipe" /\ Starts(r.e, e, e.cb)
<1>1. CASE ~(e.playing /\ e.paused)
  BY <1>1 DEF Resumes, Sure
<1>2. CASE e.playing /\ e.paused /\ e.released
  <2>1. FromMark(e) \in Engine /\ e.cb \in Callbacks
    <3> DEFINE q == IF e.mark = NoPos THEN 0 ELSE e.mark
    <3>1. q \in Pos
      BY MediaAssumption DEF Engine, Pos, NoPos
    <3>2. FromMark(e) = [e EXCEPT !.mark = NoPos, !.offset = q]
      BY DEF FromMark
    <3> HIDE DEF q
    <3> QED  BY <3>1, <3>2 DEF Engine
  <2>2. r \in Plays(FromMark(e), e.cb)
    BY <1>2 DEF Resumes, FromMark
  <2> QED  BY <1>2, <2>1, <2>2, PlaysIs
<1>3. CASE e.playing /\ e.paused /\ ~e.released /\ (e.sound.pid \/ scen.backend = "ffmpeg_pipe")
  <2> DEFINE y == [e.sound EXCEPT !.held = FALSE]
             x == [e EXCEPT !.paused = FALSE, !.sound = y]
  <2>1. y \in SoundSet /\ y.via = e.sound.via /\ y.part = e.sound.part /\ y.pos = e.sound.pos
        /\ y.pid = e.sound.pid /\ y.stuck = e.sound.stuck /\ y.deaf = e.sound.deaf
        /\ ~y.held
    BY DEF Engine, SoundSet
  <2>2. r.e = x
    BY <1>3 DEF Resumes, Sure, Engine
  <2> HIDE DEF y
  <2>3. x \in Engine
    BY <2>1 DEF Engine
  <2>4. Continues(x, e)
    BY <2>1 DEF Continues, Engine
  <2> QED  BY <1>3, <2>2, <2>3, <2>4
<1>4. CASE e.playing /\ e.paused /\ ~e.released /\ ~(e.sound.pid \/ scen.backend = "ffmpeg_pipe")
  <2>1. r \in Plays(e, e.cb) /\ e.cb \in Callbacks
    BY <1>4 DEF Resumes, Engine
  <2> QED  BY <1>4, <2>1, PlaysIs
<1> QED  BY <1>1, <1>2, <1>3, <1>4

\* The seek in the daemon's stream.
Moves(x, e, target) ==
  /\ x.path = e.path /\ x.offset = target /\ x.mark = target /\ x.cb = e.cb
  /\ x.playing /\ x.paused = ~(e.playing /\ ~e.paused)
  /\ x.external /\ x.released = e.released /\ x.persistent = e.persistent
  /\ x.retries = e.retries /\ x.orphan = e.orphan
  /\ x.timers.restart = e.timers.restart /\ x.timers.watch = e.timers.watch + 1
  /\ x.timers.reattach = e.timers.reattach /\ x.timers.stall = e.timers.stall
  /\ x.sound.via = e.sound.via /\ x.sound.part = e.sound.part /\ x.sound.pos = target
  /\ x.sound.held = e.sound.held /\ x.sound.pid = e.sound.pid
  /\ x.sound.stuck = e.sound.stuck /\ x.sound.deaf = e.sound.deaf

\* An engine at an offset is one.
LEMMA AtOffset ==
  ASSUME NEW e \in Engine, NEW pos \in Pos
  PROVE  /\ [e EXCEPT !.offset = pos] \in Engine
         /\ [e EXCEPT !.mark = pos] \in Engine
BY DEF Engine

\* A restart is due, after a stop.
LEMMA DueIs ==
  ASSUME NEW e \in Engine, NEW pos \in Pos
  PROVE  LET x == [Stopped([e EXCEPT !.offset = pos]) EXCEPT !.timers.restart = Kept(e.cb)]
         IN  x \in Engine /\ Due(x, e, pos) /\ x.mark = e.mark
<1> DEFINE o == [e EXCEPT !.offset = pos]
           s == Stopped(o)
           t == [NoTimers EXCEPT !.restart = Kept(e.cb)]
           x == [s EXCEPT !.timers.restart = Kept(e.cb)]
<1>1. /\ o \in Engine /\ o.path = e.path /\ o.retries = e.retries
      /\ o.persistent = e.persistent /\ o.orphan = e.orphan /\ o.sound = e.sound
      /\ o.offset = pos /\ o.mark = e.mark
  BY DEF Engine
<1>2. s \in Engine /\ Halts(s, o)
  BY <1>1, StoppedType, StoppedIs
<1>3. Tracked(o) <=> Tracked(e)
  BY <1>1 DEF Tracked
<1>4. /\ t \in TimerSet /\ t.restart = Kept(e.cb) /\ t.watch = 0
      /\ t.reattach = NoPos /\ t.stall = NoPos
  BY DEF TimerSet, NoTimers, Kept, Engine, Callbacks, Pos, NoPos
<1> HIDE DEF o, s
<1>5. x = [s EXCEPT !.timers = t]
  BY <1>2 DEF Halts, Engine
<1> HIDE DEF x, t
<1>6. x \in Engine
  BY <1>2, <1>4, <1>5 DEF Engine
<1>7. Due(x, e, pos) /\ x.mark = e.mark
  BY <1>1, <1>2, <1>3, <1>4, <1>5 DEF Due, Halts, Off, Engine
<1> QED  BY <1>6, <1>7 DEF x, s, o

\* The restart of a seek: due, or paused.
LEMMA RestartedIs ==
  ASSUME NEW e \in Engine, NEW pos \in Pos, NEW was \in BOOLEAN
  PROVE  LET x == Restarted(e, pos, was)
         IN  /\ x \in Engine /\ x.mark = e.mark
             /\ IF was THEN Due(x, e, pos) ELSE Waits(x, e, pos)
<1>1. CASE was
  BY <1>1, DueIs DEF Restarted
<1>2. CASE ~was
  <2> DEFINE o == [e EXCEPT !.offset = pos]
             s == Stopped(o)
             x == [s EXCEPT !.playing = TRUE, !.paused = TRUE, !.cb = e.cb]
  <2>1. /\ o \in Engine /\ o.path = e.path /\ o.retries = e.retries
        /\ o.persistent = e.persistent /\ o.orphan = e.orphan /\ o.sound = e.sound
        /\ o.offset = pos /\ o.mark = e.mark
    BY DEF Engine
  <2>2. s \in Engine /\ Halts(s, o)
    BY <2>1, StoppedType, StoppedIs
  <2>3. Tracked(o) <=> Tracked(e)
    BY <2>1 DEF Tracked
  <2>4. Restarted(e, pos, was) = x
    BY <1>2 DEF Restarted
  <2> HIDE DEF o, s
  <2>5. x \in Engine
    BY <2>2 DEF Engine
  <2>6. Waits(x, e, pos) /\ x.mark = e.mark
    BY <2>1, <2>2, <2>3 DEF Waits, Halts, Off, Engine
  <2> QED  BY <1>2, <2>4, <2>5, <2>6
<1> QED  BY <1>1, <1>2

\* The seek in the stream returns an engine that has moved.
LEMMA SoughtIs ==
  ASSUME NEW e \in Engine, NEW target \in Pos, e.external, NEW was \in BOOLEAN,
         was = (e.playing /\ ~e.paused)
  PROVE  LET x == SoughtInPlace([e EXCEPT !.mark = target], target, was)
         IN  x \in Engine /\ Moves(x, e, target)
<1> DEFINE k == [e EXCEPT !.mark = target]
           y == [k.sound EXCEPT !.pos = target]
           z == ~was
           t == [k.timers EXCEPT !.watch = @ + 1]
           x == [k EXCEPT !.offset = target, !.mark = target, !.sound = y,
                          !.playing = TRUE, !.paused = z, !.timers = t]
<1>1. /\ k \in Engine /\ k.timers = e.timers /\ k.sound = e.sound
      /\ k.path = e.path /\ k.cb = e.cb /\ k.external = e.external /\ k.released = e.released
      /\ k.persistent = e.persistent /\ k.retries = e.retries /\ k.orphan = e.orphan
  BY DEF Engine
<1>2. SoughtInPlace(k, target, was) = x
  BY <1>1 DEF SoughtInPlace, Engine
<1> HIDE DEF k
<1>3. /\ y \in SoundSet /\ y.pos = target /\ y.via = e.sound.via /\ y.part = e.sound.part
      /\ y.held = e.sound.held /\ y.pid = e.sound.pid /\ y.stuck = e.sound.stuck
      /\ y.deaf = e.sound.deaf
  BY <1>1 DEF Engine, SoundSet
<1>4. /\ t \in TimerSet /\ t.watch = e.timers.watch + 1 /\ t.restart = e.timers.restart
      /\ t.reattach = e.timers.reattach /\ t.stall = e.timers.stall
  BY <1>1 DEF Engine, TimerSet
<1>8. z \in BOOLEAN /\ z = ~(e.playing /\ ~e.paused)
  OBVIOUS
<1> HIDE DEF y, t, z
<1>5. x \in Engine
  <2>1. k \in Engine /\ y \in SoundSet /\ t \in TimerSet /\ z \in BOOLEAN
    BY <1>1, <1>3, <1>4, <1>8
  <2> QED  BY <2>1 DEF Engine
<1>6. Moves(x, e, target)
  BY <1>1, <1>3, <1>4, <1>8 DEF Moves, Engine
<1> QED  BY <1>2, <1>5, <1>6 DEF k

\* seek: nothing, in the daemon's stream, or a restart.
LEMMA SeeksIs ==
  ASSUME NEW e \in Engine, NEW target \in Pos, NEW r \in Seeks(e, target)
  PROVE  /\ r.e \in Engine
         /\ \/ e.playing /\ ~e.paused /\ GetPosition(e) = target /\ r.e = e
            \/ e.external /\ Moves(r.e, e, target)
            \/ /\ e.external => "refuse" \in scen.fails
               /\ r.e.mark = IF e.paused \/ e.external THEN target ELSE e.mark
               /\ IF e.playing /\ ~e.paused THEN Due(r.e, e, target) ELSE Waits(r.e, e, target)
<1> DEFINE was == e.playing /\ ~e.paused
           k == [e EXCEPT !.mark = target]
           x == IF e.paused \/ e.external THEN k ELSE e
<1>1. /\ k \in Engine /\ k.path = e.path /\ k.cb = e.cb /\ k.retries = e.retries
      /\ k.persistent = e.persistent /\ k.orphan = e.orphan /\ k.sound = e.sound
      /\ k.mark = target
  BY DEF Engine
<1>2. was \in BOOLEAN
  BY DEF Engine
<1>3. r \in IF was /\ GetPosition(e) = target THEN Sure(e)
            ELSE IF e.external
            THEN Sure(SoughtInPlace(x, target, was))
                 \cup Fault("refuse", Restarted(x, target, was))
            ELSE Sure(Restarted(x, target, was))
  BY DEF Seeks
<1>4. /\ x \in Engine /\ x.path = e.path /\ x.cb = e.cb /\ x.retries = e.retries
      /\ x.persistent = e.persistent /\ x.orphan = e.orphan /\ x.sound = e.sound
      /\ x.mark = IF e.paused \/ e.external THEN target ELSE e.mark
  BY <1>1
<1>5. CASE was /\ GetPosition(e) = target /\ r = [e |-> e, f |-> 0]
  BY <1>5
<1>6. CASE e.external /\ r = [e |-> SoughtInPlace(x, target, was), f |-> 0]
  <2>1. x = k
    BY <1>6
  <2> HIDE DEF was, x
  <2>2. r.e \in Engine /\ Moves(r.e, e, target)
    BY <1>2, <1>6, <2>1, SoughtIs DEF was
  <2> QED  BY <1>6, <2>2
<1>7. ASSUME e.external => "refuse" \in scen.fails,
             NEW f, r = [e |-> Restarted(x, target, was), f |-> f]
      PROVE  /\ r.e \in Engine
             /\ r.e.mark = IF e.paused \/ e.external THEN target ELSE e.mark
             /\ IF was THEN Due(r.e, e, target) ELSE Waits(r.e, e, target)
  <2> HIDE DEF x, was
  <2>1. /\ r.e \in Engine /\ r.e.mark = x.mark
        /\ IF was THEN Due(r.e, x, target) ELSE Waits(r.e, x, target)
    BY <1>2, <1>4, <1>7, RestartedIs
  <2>2. Tracked(x) <=> Tracked(e)
    BY <1>4 DEF Tracked
  <2> QED  BY <1>2, <1>4, <2>1, <2>2 DEF Due, Waits, Off
<1> HIDE DEF x
<1> QED  BY <1>3, <1>5, <1>6, <1>7 DEF Sure, Fault

-----------------------------------------------------------------------------
(* What the operators of the session do.                                   *)

\* A new chain makes callbacks stale, and nothing else.
LEMMA BumpIs ==
  ASSUME NEW e \in Engine
  PROVE  LET x == Bump(e)
         IN  /\ x \in Engine /\ x.cb = Stale(e.cb) /\ x.timers.restart = Stale(e.timers.restart)
             /\ x.timers.watch = e.timers.watch /\ x.timers.reattach = e.timers.reattach
             /\ x.timers.stall = e.timers.stall
             /\ x.path = e.path /\ x.playing = e.playing /\ x.paused = e.paused
             /\ x.offset = e.offset /\ x.mark = e.mark /\ x.external = e.external
             /\ x.released = e.released /\ x.persistent = e.persistent
             /\ x.retries = e.retries /\ x.sound = e.sound /\ x.orphan = e.orphan
<1> DEFINE t == [e.timers EXCEPT !.restart = Stale(@)]
           c == Stale(e.cb)
<1>1. /\ t \in TimerSet /\ t.restart = Stale(e.timers.restart) /\ t.watch = e.timers.watch
      /\ t.reattach = e.timers.reattach /\ t.stall = e.timers.stall
  BY DEF TimerSet, Engine, Stale, Callbacks
<1>2. c \in Callbacks
  BY DEF Engine, Stale, Callbacks
<1>3. Bump(e) = [e EXCEPT !.cb = c, !.timers = t]
  BY DEF Bump, Engine
<1> HIDE DEF t, c
<1>4. Bump(e) \in Engine
  BY <1>1, <1>2, <1>3 DEF Engine
<1> QED  BY <1>1, <1>3, <1>4 DEF Engine, c

\* The engine at a part and a position.
At(e, p, pos) == [e EXCEPT !.path = p, !.offset = pos, !.mark = pos]

\* A part, or none.
LEMMA PartRange == \A p \in Part : p \in 0..PARTS
BY MediaAssumption DEF Part

\* It is an engine.
LEMMA AtIs ==
  ASSUME NEW e \in Engine, NEW p \in Part, NEW pos \in Pos
  PROVE  LET x == At(e, p, pos)
         IN  /\ x \in Engine /\ x.path = p /\ x.offset = pos /\ x.mark = pos
             /\ x.persistent = e.persistent /\ x.retries = e.retries /\ x.orphan = e.orphan
             /\ x.sound = e.sound
<1>1. p \in 0..PARTS
  BY PartRange
<1> QED  BY <1>1 DEF At, Engine

\* What a start of the session leaves: state, idx, advancing, the place and the
\* engine.
Plain(p, pos, e) ==
  /\ state' = "playing" /\ idx' = p /\ advancing' = FALSE
  /\ place' = [part |-> p, pos |-> pos]
  /\ m' \in Engine /\ Starts(m', At(e, p, pos), "live")

\* MediaSync.start of a part at a position.
LEMMA StartPartIs ==
  ASSUME NEW p \in Part, NEW pos \in Pos, NEW e \in Engine, scen \in Scenario,
         headset \in BOOLEAN, StartPart(p, pos, e)
  PROVE  Plain(p, pos, e)
<1> DEFINE s == IF state = "stopped" THEN e ELSE Stopped(e)
           b == Bump(s)
           l == [b EXCEPT !.path = p, !.playing = FALSE, !.paused = FALSE,
                          !.offset = pos, !.mark = pos]
<1>1. /\ s \in Engine /\ s.persistent = e.persistent /\ s.retries = e.retries
      /\ s.orphan \/ ~Tracked(s) => e.orphan \/ ~Tracked(e)
  <2>1. CASE state = "stopped"
    BY <2>1
  <2>2. CASE state # "stopped"
    <3>1. s = Stopped(e)
      BY <2>2
    <3>2. s \in Engine /\ Halts(s, e)
      BY <3>1, StoppedType, StoppedIs
    <3> QED  BY <3>2 DEF Halts, Off, Tracked, Silence
  <2> QED  BY <2>1, <2>2
<1> HIDE DEF s
<1>2. /\ b \in Engine /\ b.persistent = s.persistent /\ b.retries = s.retries
      /\ b.orphan = s.orphan /\ b.sound = s.sound
  BY <1>1, BumpIs
<1>3. state' = "playing" /\ idx' = p /\ advancing' = FALSE
      /\ place' = [part |-> p, pos |-> pos] /\ \E r \in Plays(l, "live") : m' = r.e
  BY DEF StartPart, Becomes, s
<1> HIDE DEF b
<1>4. /\ l \in Engine /\ l.path = p /\ l.offset = pos /\ l.mark = pos
      /\ l.persistent = b.persistent /\ l.retries = b.retries /\ l.orphan = b.orphan
      /\ l.sound = b.sound
  <2>1. p \in 0..PARTS
    BY PartRange
  <2> QED  BY <1>2, <2>1 DEF Engine
<1> HIDE DEF l
<1>5. m' \in Engine /\ Starts(m', l, "live")
  BY <1>3, <1>4, PlaysIs DEF Callbacks
<1>6. Tracked(l) <=> Tracked(s)
  BY <1>2, <1>4 DEF Tracked
<1>7. Tracked(At(e, p, pos)) <=> Tracked(e)
  BY AtIs DEF Tracked
<1>8. Starts(m', At(e, p, pos), "live")
  BY <1>1, <1>2, <1>4, <1>5, <1>6, <1>7, AtIs DEF Starts
<1> QED  BY <1>3, <1>5, <1>8 DEF Plain

\* The saved positions of the parts, and the questions.
Prompt == [part : Part, pos : Pos]

\* A question about the part p, and the engine as e.
Asks(p, adv, e) ==
  /\ saved[p] > 0 /\ ~scen.overlay
  /\ prompts' = Append(prompts, [part |-> p, pos |-> saved[p]])
  /\ advancing' = adv /\ m' = e
  /\ UNCHANGED <<state, place>>

\* A part is asked about or started, at its beginning.
LEMMA PlayFileIs ==
  ASSUME NEW p \in Part, NEW i, NEW adv, NEW e \in Engine, scen \in Scenario,
         headset \in BOOLEAN, PlayFile(p, i, adv, e)
  PROVE  \/ Asks(p, adv, e) /\ idx' = i
         \/ ~(saved[p] > 0 /\ ~scen.overlay) /\ Plain(p, 0, e) /\ prompts' = prompts
<1>1. 0 \in Pos
  BY MediaAssumption DEF Pos
<1>2. CASE saved[p] > 0 /\ ~scen.overlay
  BY <1>2 DEF PlayFile, Asks
<1>3. CASE ~(saved[p] > 0 /\ ~scen.overlay)
  BY <1>1, <1>3, StartPartIs DEF PlayFile
<1> QED  BY <1>2, <1>3

-----------------------------------------------------------------------------
(* Types, and what the engine's own steps do.                              *)

\* Every variable has its type.
Typed ==
  /\ scen \in Scenario /\ headset \in BOOLEAN /\ cmds \in Nat
  /\ state \in {"stopped", "playing", "paused"} /\ idx \in 0..PARTS
  /\ advancing \in BOOLEAN
  /\ prompts \in Seq(Prompt)
  /\ saved \in [Part -> Pos]
  /\ m \in Engine
  /\ place \in [part : 0..PARTS, pos : Nat]

\* What most of the engine's own steps leave alone.
Keeps(x, e) ==
  /\ x.path = e.path /\ x.mark = e.mark /\ x.external = e.external
  /\ x.released = e.released /\ x.persistent = e.persistent
  /\ x.timers.restart = e.timers.restart /\ x.timers.reattach = e.timers.reattach

Goes(x, e) ==
  /\ x.playing = e.playing /\ x.paused = e.paused /\ x.cb = e.cb

SameSound(y, s) ==
  /\ y.part = s.part /\ y.held = s.held /\ y.stuck = s.stuck /\ y.deaf = s.deaf

\* The end of a part: the engine without callbacks, and without the process.
Over(x, e) ==
  /\ Keeps(x, e) /\ ~x.playing /\ ~x.paused /\ x.cb = "none"
  /\ x.offset = e.offset /\ x.retries = e.retries /\ x.orphan = e.orphan
  /\ x.timers.watch = e.timers.watch - 1 /\ x.timers.stall = e.timers.stall
  /\ x.sound = IF e.sound.via = "ended" THEN Silence ELSE e.sound

\* The engine that a completion watcher leaves at the end of a part.
Finished(e) ==
  [e EXCEPT !.playing = FALSE, !.paused = FALSE, !.cb = "none",
            !.timers.watch = @ - 1,
            !.sound = IF @.via = "ended" THEN Silence ELSE @]

\* It is over.
LEMMA FinishedIs ==
  ASSUME NEW e \in Engine, e.timers.watch > 0
  PROVE  Finished(e) \in Engine /\ Over(Finished(e), e)
<1> DEFINE t == [e.timers EXCEPT !.watch = @ - 1]
           y == IF e.sound.via = "ended" THEN Silence ELSE e.sound
           x == [e EXCEPT !.playing = FALSE, !.paused = FALSE, !.cb = "none",
                          !.timers = t, !.sound = y]
<1>1. /\ t \in TimerSet /\ t.watch = e.timers.watch - 1 /\ t.restart = e.timers.restart
      /\ t.reattach = e.timers.reattach /\ t.stall = e.timers.stall
  BY DEF Engine, TimerSet
<1>2. y \in SoundSet /\ y = IF e.sound.via = "ended" THEN Silence ELSE e.sound
  BY Nothing DEF Engine
<1>3. Finished(e) = x
  BY DEF Finished, Engine
<1> HIDE DEF t, y
<1>4. x \in Engine
  BY <1>1, <1>2 DEF Engine, Callbacks
<1>5. Over(x, e)
  BY <1>1, <1>2 DEF Over, Keeps, Engine
<1> QED  BY <1>3, <1>4, <1>5

\* A watcher goes.
LEMMA WatchEndsIs ==
  ASSUME Typed, WatchEnds
  PROVE  /\ m' \in Engine /\ Keeps(m', m) /\ Goes(m', m) /\ m'.sound = m.sound
         /\ m'.offset = m.offset /\ m'.retries = m.retries /\ m'.orphan = m.orphan
         /\ m'.timers.watch = m.timers.watch - 1 /\ m'.timers.stall = m.timers.stall
<1> DEFINE t == [m.timers EXCEPT !.watch = @ - 1]
<1>1. /\ t \in TimerSet /\ t.watch = m.timers.watch - 1 /\ t.restart = m.timers.restart
      /\ t.reattach = m.timers.reattach /\ t.stall = m.timers.stall
  <2>1. m.timers \in TimerSet /\ m.timers.watch > 0
    BY DEF Typed, Engine, WatchEnds
  <2> QED  BY <2>1 DEF TimerSet
<1>2. m' = [m EXCEPT !.timers = t] /\ m \in Engine
  BY DEF WatchEnds, Typed, Engine
<1> HIDE DEF t
<1>3. m' \in Engine
  BY <1>1, <1>2 DEF Engine
<1> QED  BY <1>1, <1>2, <1>3 DEF Keeps, Goes, Engine

\* The process id is known.
LEMMA PidCapturedIs ==
  ASSUME Typed, PidCaptured
  PROVE  /\ m' \in Engine /\ Keeps(m', m) /\ Goes(m', m) /\ m'.timers = m.timers
         /\ m'.offset = m.offset /\ m'.retries = m.retries /\ m'.orphan = m.orphan
         /\ SameSound(m'.sound, m.sound) /\ m'.sound.via = m.sound.via
         /\ m'.sound.pos = m.sound.pos /\ m'.sound.pid
<1> DEFINE y == [m.sound EXCEPT !.pid = TRUE]
<1>1. /\ y \in SoundSet /\ SameSound(y, m.sound) /\ y.via = m.sound.via
      /\ y.pos = m.sound.pos /\ y.pid
  BY DEF Typed, Engine, SoundSet, SameSound
<1>2. m' = [m EXCEPT !.sound = y] /\ m \in Engine
  BY DEF PidCaptured, Typed, Engine
<1> HIDE DEF y
<1>3. m' \in Engine
  BY <1>1, <1>2 DEF Engine
<1> QED  BY <1>1, <1>2, <1>3 DEF Keeps, Goes, Engine

\* A unit is heard.
LEMMA HearsIs ==
  ASSUME Typed, Hears
  PROVE  /\ m' \in Engine /\ Keeps(m', m) /\ Goes(m', m) /\ m'.timers = m.timers
         /\ m'.retries = m.retries /\ m'.orphan = m.orphan
         /\ m'.offset = IF m.external /\ state = "playing" THEN m.sound.pos + 1 ELSE m.offset
         /\ SameSound(m'.sound, m.sound) /\ m'.sound.via = m.sound.via
         /\ m'.sound.pid = m.sound.pid /\ m'.sound.pos = m.sound.pos + 1
<1> DEFINE y == [m.sound EXCEPT !.pos = @ + 1]
           o == IF m.external /\ state = "playing" THEN m.sound.pos + 1 ELSE m.offset
<1>1. m \in Engine /\ m.sound \in SoundSet /\ m.offset \in Pos
  BY DEF Typed, Engine
<1>2. m.sound.pos \in Pos /\ m.sound.pos < LEN
  BY <1>1 DEF SoundSet, Hears
<1>3. m.sound.pos + 1 \in Pos
  BY <1>2, MediaAssumption DEF Pos
<1>4. /\ y \in SoundSet /\ SameSound(y, m.sound) /\ y.via = m.sound.via
      /\ y.pid = m.sound.pid /\ y.pos = m.sound.pos + 1
  BY <1>1, <1>3 DEF SoundSet, SameSound
<1>5. o \in Pos
  BY <1>1, <1>3
<1>6. m' = [m EXCEPT !.sound = y, !.offset = o]
  BY <1>1 DEF Hears, Engine
<1>7. o = IF m.external /\ state = "playing" THEN m.sound.pos + 1 ELSE m.offset
  OBVIOUS
<1> HIDE DEF y, o
<1>8. m' \in Engine
  BY <1>1, <1>4, <1>5, <1>6 DEF Engine
<1> QED  BY <1>1, <1>4, <1>6, <1>7, <1>8 DEF Keeps, Goes, Engine

\* A process ends.
LEMMA PipeEndsIs ==
  ASSUME Typed, PipeEnds
  PROVE  /\ m' \in Engine /\ Keeps(m', m) /\ Goes(m', m) /\ m'.timers = m.timers
         /\ m'.offset = m.offset /\ m'.retries = m.retries /\ m'.orphan = m.orphan
         /\ SameSound(m'.sound, m.sound) /\ m'.sound.via = "ended"
         /\ m'.sound.pos = m.sound.pos /\ m'.sound.pid = m.sound.pid
<1> DEFINE y == [m.sound EXCEPT !.via = "ended"]
<1>1. /\ y \in SoundSet /\ SameSound(y, m.sound) /\ y.via = "ended"
      /\ y.pos = m.sound.pos /\ y.pid = m.sound.pid
  BY DEF Typed, Engine, SoundSet, SameSound
<1>2. m' = [m EXCEPT !.sound = y] /\ m \in Engine
  BY DEF PipeEnds, Typed, Engine
<1> HIDE DEF y
<1>3. m' \in Engine
  BY <1>1, <1>2 DEF Engine
<1> QED  BY <1>1, <1>2, <1>3 DEF Keeps, Goes, Engine

\* A process that was lost sight of ends.
LEMMA OrphanEndsIs ==
  ASSUME Typed, OrphanEnds
  PROVE  /\ m' \in Engine /\ Keeps(m', m) /\ Goes(m', m) /\ m'.timers = m.timers
         /\ m'.offset = m.offset /\ m'.retries = m.retries /\ ~m'.orphan
         /\ m'.sound = m.sound
<1>1. m' = [m EXCEPT !.orphan = FALSE] /\ m \in Engine
  BY DEF OrphanEnds, Typed
<1> QED  BY <1>1 DEF Keeps, Goes, Engine

\* The stall watchdog ends.
Unwatched(x, e) ==
  /\ Keeps(x, e) /\ Goes(x, e) /\ x.sound = e.sound
  /\ x.offset = e.offset /\ x.orphan = e.orphan
  /\ x.timers.watch = e.timers.watch /\ x.timers.stall = NoPos

\* It is an engine without the watchdog.
LEMMA UnwatchedIs ==
  ASSUME NEW e \in Engine, NEW n \in 0..2
  PROVE  LET x == [e EXCEPT !.retries = n, !.timers.stall = NoPos]
         IN  x \in Engine /\ Unwatched(x, e)
<1> DEFINE t == [e.timers EXCEPT !.stall = NoPos]
           x == [e EXCEPT !.retries = n, !.timers = t]
<1>1. /\ t \in TimerSet /\ t.watch = e.timers.watch /\ t.restart = e.timers.restart
      /\ t.reattach = e.timers.reattach /\ t.stall = NoPos
  BY DEF Engine, TimerSet
<1>2. [e EXCEPT !.retries = n, !.timers.stall = NoPos] = x
  BY DEF Engine
<1> HIDE DEF t
<1>3. x \in Engine
  BY <1>1 DEF Engine
<1>4. Unwatched(x, e)
  BY <1>1 DEF Unwatched, Keeps, Goes, Engine
<1> QED  BY <1>2, <1>3, <1>4

\* The stall watchdog is content, or its stream is gone.
LEMMA StallWatchEndsIs ==
  ASSUME Typed, StallWatchEnds
  PROVE  m' \in Engine /\ Unwatched(m', m)
<1>1. m \in Engine /\ m.retries \in 0..2 /\ 0 \in 0..2
  BY DEF Typed, Engine
<1>2. CASE m' = [m EXCEPT !.retries = 0, !.timers.stall = NoPos]
  BY <1>1, <1>2, UnwatchedIs
<1>3. CASE m' = [m EXCEPT !.timers.stall = NoPos]
  <2>1. m' = [m EXCEPT !.retries = m.retries, !.timers.stall = NoPos]
    BY <1>1, <1>3 DEF Engine
  <2> QED  BY <1>1, <2>1, UnwatchedIs
<1> QED  BY <1>2, <1>3 DEF StallWatchEnds

\* The restart that a watchdog makes due.
LEMMA RestartAtIs ==
  ASSUME NEW e \in Engine, NEW pos \in Pos
  PROVE  /\ RestartAt(e, pos) \in Engine /\ Due(RestartAt(e, pos), e, pos)
         /\ RestartAt(e, pos).mark = e.mark
BY DueIs DEF RestartAt

\* The stall watchdog restarts twice, then it ends.
LEMMA StallSeenIs ==
  ASSUME Typed, StallSeen
  PROVE  /\ m' \in Engine
         /\ \/ Unwatched(m', m)
            \/ /\ Off(m', [m EXCEPT !.retries = @ + 1]) /\ m'.mark = m.mark
               /\ ~m'.playing /\ ~m'.paused /\ m'.cb = "none"
               /\ m'.timers.restart = Kept(m.cb) /\ m'.offset = m.timers.stall
               /\ m'.path = m.path /\ m'.persistent = m.persistent
               /\ m'.orphan => m.orphan \/ ~Tracked(m)
<1>1. m \in Engine /\ m.retries \in 0..2 /\ m.timers.stall \in Pos
  BY DEF Typed, Engine, TimerSet, StallSeen
<1>2. CASE m.retries < 2
  <2> DEFINE e == [m EXCEPT !.retries = @ + 1]
  <2>1. m.retries + 1 \in 0..2
    BY <1>1, <1>2
  <2>2. /\ e \in Engine /\ e.cb = m.cb /\ e.mark = m.mark /\ e.path = m.path
        /\ e.persistent = m.persistent /\ e.orphan = m.orphan /\ e.sound = m.sound
    BY <1>1, <2>1 DEF Engine
  <2>3. m' = RestartAt(e, m.timers.stall)
    BY <1>2 DEF StallSeen
  <2>4. Tracked(e) <=> Tracked(m)
    BY <2>2 DEF Tracked
  <2> HIDE DEF e
  <2>5. m' \in Engine /\ Due(m', e, m.timers.stall) /\ m'.mark = e.mark
    BY <1>1, <2>2, <2>3, RestartAtIs
  <2> QED  BY <2>2, <2>4, <2>5 DEF Due, Off, e
<1>3. CASE ~(m.retries < 2)
  <2>1. m' = [m EXCEPT !.retries = 0, !.timers.stall = NoPos] /\ 0 \in 0..2
    BY <1>3 DEF StallSeen
  <2> QED  BY <1>1, <2>1, UnwatchedIs
<1> QED  BY <1>2, <1>3

\* The headset restarts what was played without it.
LEMMA ReattachesIs ==
  ASSUME Typed, Reattaches
  PROVE  /\ m' \in Engine /\ Due(m', m, m.timers.reattach) /\ m'.mark = m.mark
<1>1. m \in Engine /\ m.timers.reattach \in Pos /\ m' = RestartAt(m, m.timers.reattach)
  BY DEF Typed, Engine, TimerSet, Reattaches
<1> QED  BY <1>1, RestartAtIs

\* A restart that was due.
LEMMA RestartFiresIs ==
  ASSUME Typed, RestartFires
  PROVE  /\ m' \in Engine
         /\ Starts(m', m, IF m.timers.restart = "bare" THEN "none" ELSE m.timers.restart)
<1> DEFINE c == IF m.timers.restart = "bare" THEN "none" ELSE m.timers.restart
<1>1. m \in Engine /\ c \in Callbacks /\ scen \in Scenario /\ headset \in BOOLEAN
  BY DEF Typed, Engine, TimerSet, Callbacks
<1>2. \E r \in Plays(m, c) : m' = r.e
  BY DEF RestartFires, Becomes
<1> HIDE DEF c
<1> QED  BY <1>1, <1>2, PlaysIs DEF c

\* What a completion watcher does that finds the part at its end: the chain is
\* not told, it has been told already, the next part is asked about or started,
\* or the session stops.
LEMMA PartEndsIs ==
  ASSUME Typed, PartEnds
  PROVE  /\ Finished(m) \in Engine /\ Over(Finished(m), m)
         /\ m.playing /\ AtEnd
         /\ \/ /\ m.cb # "live" \/ advancing
               /\ m' = Finished(m) /\ UNCHANGED <<sync, place>>
            \/ /\ m.cb = "live" /\ ~advancing /\ idx < PARTS
               /\ UNCHANGED saved
               /\ Bump(Finished(m)) \in Engine
               /\ \/ Asks(idx + 1, TRUE, Bump(Finished(m))) /\ idx' = idx + 1
                  \/ /\ ~(saved[idx + 1] > 0 /\ ~scen.overlay)
                     /\ Plain(idx + 1, 0, Bump(Finished(m))) /\ prompts' = prompts
            \/ /\ m.cb = "live" /\ ~advancing /\ ~(idx < PARTS)
               /\ state' = "stopped" /\ UNCHANGED <<idx, advancing, prompts, saved, place>>
               /\ m' \in Engine /\ Halts(m', Bump(Finished(m)))
<1>1. m \in Engine /\ m.timers.watch > 0 /\ m.playing /\ AtEnd
  BY DEF Typed, PartEnds
<1>2. Finished(m) \in Engine /\ Over(Finished(m), m)
  BY <1>1, FinishedIs
<1>3. /\ IF m.cb = "live" THEN OnPlaybackComplete(Finished(m))
         ELSE m' = Finished(m) /\ UNCHANGED <<sync, faults, place>>
  BY DEF PartEnds, Finished
<1>4. Bump(Finished(m)) \in Engine
  BY <1>2, BumpIs
<1>5. CASE m.cb # "live" \/ advancing
  BY <1>1, <1>2, <1>3, <1>5 DEF OnPlaybackComplete
<1>6. CASE m.cb = "live" /\ ~advancing /\ idx < PARTS
  <2>1. idx + 1 \in Part /\ scen \in Scenario /\ headset \in BOOLEAN
    BY <1>6, MediaAssumption DEF Typed, Part
  <2>2. PlayFile(idx + 1, idx + 1, TRUE, Bump(Finished(m))) /\ UNCHANGED saved
    BY <1>3, <1>6 DEF OnPlaybackComplete, SwitchTo
  <2>3. \/ Asks(idx + 1, TRUE, Bump(Finished(m))) /\ idx' = idx + 1
        \/ /\ ~(saved[idx + 1] > 0 /\ ~scen.overlay)
           /\ Plain(idx + 1, 0, Bump(Finished(m))) /\ prompts' = prompts
    BY <1>4, <2>1, <2>2, PlayFileIs
  <2> QED  BY <1>1, <1>2, <1>4, <1>6, <2>2, <2>3
<1>7. CASE m.cb = "live" /\ ~advancing /\ ~(idx < PARTS)
  <2>1. SyncStop(Finished(m)) /\ UNCHANGED <<prompts, saved, place>>
    BY <1>3, <1>7 DEF OnPlaybackComplete
  <2>2. m' = Stopped(Bump(Finished(m))) /\ state' = "stopped" /\ UNCHANGED <<idx, advancing>>
    BY <2>1 DEF SyncStop
  <2>3. m' \in Engine /\ Halts(m', Bump(Finished(m)))
    BY <1>4, <2>2, StoppedType, StoppedIs
  <2> QED  BY <1>1, <1>2, <1>7, <2>1, <2>2, <2>3
<1> QED  BY <1>5, <1>6, <1>7

\* What the user's commands do.  A choice: a start, or a question.
LEMMA UserChoosesIs ==
  ASSUME Typed, NEW p \in Part, UserChooses(p)
  PROVE  /\ saved' = saved
         /\ \/ Asks(p, advancing, m) /\ idx' = idx
            \/ /\ prompts' = prompts
               /\ \E pos \in Pos : Plain(p, pos, m) /\ (pos # 0 => pos \in scen.from)
<1>1. m \in Engine /\ scen \in Scenario /\ headset \in BOOLEAN /\ 0 \in Pos
  BY MediaAssumption DEF Typed, Pos
<1>2. CASE scen.overlay
  <2>1. PICK pos \in scen.from : StartPart(p, pos, m) /\ UNCHANGED <<prompts, saved>>
    BY <1>2 DEF UserChooses
  <2>2. pos \in Pos
    BY <1>1, MediaAssumption DEF Scenario, Pos
  <2> QED  BY <1>1, <2>1, <2>2, StartPartIs
<1>3. CASE ~scen.overlay
  <2>1. PlayFile(p, idx, advancing, m) /\ UNCHANGED saved
    BY <1>3 DEF UserChooses
  <2> QED  BY <1>1, <2>1, PlayFileIs
<1> QED  BY <1>2, <1>3

\* A row of the playlist, the next part or the one before.
LEMMA SwitchToIs ==
  ASSUME Typed, NEW p \in Part, SwitchTo(p, advancing, m)
  PROVE  /\ saved' = saved
         /\ \/ Asks(p, advancing, m) /\ idx' = p
            \/ Plain(p, 0, m) /\ prompts' = prompts
<1>1. m \in Engine /\ scen \in Scenario /\ headset \in BOOLEAN
  BY DEF Typed
<1> QED  BY <1>1, PlayFileIs DEF SwitchTo

\* A question is answered: the last one goes, and its part is started.
LEMMA UserAnswersIs ==
  ASSUME Typed, UserAnswers
  PROVE  /\ prompts # <<>> /\ prompts[Len(prompts)] \in Prompt
         /\ prompts' \in Seq(Prompt)
         /\ \/ "cancel" \in scen.cmds
                 /\ UNCHANGED <<state, idx, advancing, saved, m, place>>
            \/ /\ saved' \in [Part -> Pos]
               /\ saved' = saved \/ \E p \in Part : saved' = [saved EXCEPT ![p] = 0]
               /\ \E p \in Part, pos \in Pos : Plain(p, pos, m)
<1> DEFINE n == Len(prompts)
           q == prompts[n]
<1>1. prompts # <<>> /\ prompts \in Seq(Prompt)
  BY DEF Typed, UserAnswers, Bare
<1>2. n \in 1..n /\ q \in Prompt
  BY <1>1
<1>3. prompts' = SubSeq(prompts, 1, n - 1)
  BY DEF UserAnswers
<1>4. prompts' \in Seq(Prompt)
  BY <1>1, <1>2, <1>3
<1>5. /\ m \in Engine /\ scen \in Scenario /\ headset \in BOOLEAN /\ 0 \in Pos
      /\ saved \in [Part -> Pos] /\ q.part \in Part /\ q.pos \in Pos
  BY <1>2, MediaAssumption DEF Typed, Pos, Prompt
<1>6. \/ StartPart(q.part, q.pos, m) /\ saved' = saved
      \/ StartPart(q.part, 0, m) /\ saved' = [saved EXCEPT ![q.part] = 0]
      \/ "cancel" \in scen.cmds /\ UNCHANGED <<state, idx, advancing, saved, m, place>>
  BY DEF UserAnswers, Command
<1> HIDE DEF q
<1>7. CASE StartPart(q.part, q.pos, m) /\ saved' = saved
  <2>1. Plain(q.part, q.pos, m)
    BY <1>5, <1>7, StartPartIs
  <2> QED  BY <1>1, <1>2, <1>4, <1>5, <1>7, <2>1 DEF q
<1>8. CASE StartPart(q.part, 0, m) /\ saved' = [saved EXCEPT ![q.part] = 0]
  <2>1. Plain(q.part, 0, m)
    BY <1>5, <1>8, StartPartIs
  <2>2. saved' \in [Part -> Pos]
    BY <1>5, <1>8
  <2> QED  BY <1>1, <1>2, <1>4, <1>5, <1>8, <2>1, <2>2 DEF q
<1>9. CASE "cancel" \in scen.cmds /\ UNCHANGED <<state, idx, advancing, saved, m, place>>
  BY <1>1, <1>2, <1>4, <1>9 DEF q
<1> QED  BY <1>6, <1>7, <1>8, <1>9

\* The engine that the play button starts when the session has stopped.
FromStop ==
  [m EXCEPT !.offset = LET pos == IF m.mark # NoPos THEN m.mark ELSE m.offset
                       IN IF pos > 0 THEN pos ELSE @]

\* The play button when the session has stopped.
LEMMA PlayFromStoppedIs ==
  ASSUME Typed, PlayFromStopped
  PROVE  FromStop \in Engine /\ m' \in Engine /\ Starts(m', FromStop, "live")
<1> DEFINE pos == IF m.mark # NoPos THEN m.mark ELSE m.offset
           o   == IF pos > 0 THEN pos ELSE m.offset
<1>1. m \in Engine /\ scen \in Scenario /\ headset \in BOOLEAN
  BY DEF Typed
<1>2. o \in Pos
  BY <1>1 DEF Engine
<1>3. FromStop = [m EXCEPT !.offset = o]
  BY <1>1 DEF FromStop, Engine
<1>4. \E r \in Plays([m EXCEPT !.offset = o], "live") : m' = r.e
  BY <1>1 DEF PlayFromStopped, Becomes, Engine
<1>5. FromStop \in Engine
  BY <1>1, <1>2, <1>3, AtOffset
<1> QED  BY <1>1, <1>3, <1>4, <1>5, PlaysIs DEF Callbacks

\* A seek of the user.
LEMMA SeekToIs ==
  ASSUME Typed, NEW target \in Pos, NEW want, SeekTo(target, want)
  PROVE  /\ m' \in Engine
         /\ \/ m.playing /\ ~m.paused /\ GetPosition(m) = target /\ m' = m
            \/ m.external /\ Moves(m', m, target)
            \/ /\ m.external => "refuse" \in scen.fails
               /\ m'.mark = IF m.paused \/ m.external THEN target ELSE m.mark
               /\ IF m.playing /\ ~m.paused THEN Due(m', m, target) ELSE Waits(m', m, target)
<1>1. m \in Engine
  BY DEF Typed
<1>2. PICK r \in Seeks(m, target) : m' = r.e
  BY DEF SeekTo, Becomes
<1> QED  BY <1>1, <1>2, SeeksIs

\* The position of a skip is within the part.
LEMMA UptoType == \A n \in Int : Upto(n) \in Pos
BY MediaAssumption DEF Upto, Pos

\* So a skip goes to a position of the part.
LEMMA SkipTargets ==
  ASSUME Typed, NEW d \in {-1, 1}
  PROVE  Upto(GetPosition(m) + d) \in Pos /\ Upto(place.pos + d) \in Pos
<1>1. GetPosition(m) \in Pos
  BY GetPositionType DEF Typed
<1>2. place.pos \in Nat
  BY DEF Typed
<1>3. d \in Int
  OBVIOUS
<1> HIDE DEF GetPosition, Upto
<1>4. GetPosition(m) + d \in Int /\ place.pos + d \in Int
  BY <1>1, <1>2, <1>3 DEF Pos
<1> QED  BY <1>4, UptoType

\* A stop of the user.
LEMMA UserStopsIs ==
  ASSUME Typed, UserStops
  PROVE  /\ m' \in Engine /\ Bump(m) \in Engine /\ Halts(m', Bump(m))
         /\ saved' \in [Part -> Pos] /\ state' = "stopped"
         /\ saved' = [saved EXCEPT ![m.path] =
                        IF GetPosition(m) > 0 THEN GetPosition(m) ELSE @]
<1> DEFINE x == Stopped(Bump(m))
           o == x.orphan /\ ~(scen.mtk /\ scen.backend = "ffmpeg_pipe")
           g == GetPosition(m)
<1>1. m \in Engine /\ Bump(m) \in Engine
  BY BumpIs DEF Typed
<1>2. x \in Engine /\ Halts(x, Bump(m))
  BY <1>1, StoppedType, StoppedIs
<1>3. m' = [Stopped(Bump(m)) EXCEPT
              !.orphan = @ /\ ~(scen.mtk /\ scen.backend = "ffmpeg_pipe")]
  BY DEF UserStops
<1> HIDE DEF x
<1>4. m' = [x EXCEPT !.orphan = o]
  BY <1>2, <1>3 DEF x, Engine
<1>5. o \in BOOLEAN /\ (o => x.orphan)
  BY <1>2 DEF Engine
<1> HIDE DEF o
<1>6. m' \in Engine /\ Halts(m', Bump(m))
  BY <1>2, <1>4, <1>5 DEF Engine, Halts, Off
<1>7. saved' = [saved EXCEPT ![m.path] = IF g > 0 THEN g ELSE @] /\ state' = "stopped"
  BY DEF UserStops
<1>8. g \in Pos /\ saved \in [Part -> Pos]
  BY <1>1, GetPositionType DEF Typed
<1> HIDE DEF g
<1>9. saved' \in [Part -> Pos]
  BY <1>7, <1>8
<1> QED  BY <1>1, <1>6, <1>7, <1>9 DEF g

-----------------------------------------------------------------------------
(* The types are kept.                                                     *)

\* What is left of the types when the engine has its own.
Context ==
  /\ state \in {"stopped", "playing", "paused"} /\ idx \in 0..PARTS
  /\ advancing \in BOOLEAN
  /\ prompts \in Seq(Prompt)
  /\ saved \in [Part -> Pos]
  /\ place \in [part : 0..PARTS, pos : Nat]

\* A position is a number.
LEMMA PosNat == Pos \subseteq Nat
BY DEF Pos

\* A start keeps the types.
LEMMA PlainTyped ==
  ASSUME Context, NEW p \in Part, NEW pos \in Pos, NEW e, Plain(p, pos, e),
         prompts' \in Seq(Prompt), saved' \in [Part -> Pos]
  PROVE  Context'
<1>1. p \in 0..PARTS /\ pos \in Nat
  BY PartRange, PosNat
<1> QED  BY <1>1 DEF Context, Plain

\* So does a question.
LEMMA AsksTyped ==
  ASSUME Context, NEW p \in Part, NEW adv \in BOOLEAN, NEW e, Asks(p, adv, e),
         idx' \in 0..PARTS, saved' = saved
  PROVE  Context' /\ prompts' # <<>>
<1>1. [part |-> p, pos |-> saved[p]] \in Prompt
  BY DEF Context, Prompt
<1>2. prompts' \in Seq(Prompt) /\ prompts' # <<>>
  BY <1>1 DEF Asks, Context
<1> QED  BY <1>2 DEF Context, Asks

\* The timers keep the types.
LEMMA TimerTyped ==
  ASSUME Typed, Timer
  PROVE  m' \in Engine /\ Context'
<1>1. Context
  BY DEF Typed, Context
<1>2. CASE PartEnds
  <2>1. CASE m' = Finished(m) /\ UNCHANGED <<sync, place>>
    <3>1. m' \in Engine
      BY <1>2, <2>1, PartEndsIs
    <3> QED  BY <1>1, <2>1, <3>1 DEF Context, sync
  <2>2. ASSUME idx < PARTS, saved' = saved, Asks(idx + 1, TRUE, Bump(Finished(m))),
               Bump(Finished(m)) \in Engine, idx' = idx + 1
        PROVE  m' \in Engine /\ Context'
    <3>1. idx + 1 \in Part /\ idx + 1 \in 0..PARTS
      BY <1>1, <2>2, MediaAssumption DEF Context, Part
    <3>2. m' = Bump(Finished(m))
      BY <2>2 DEF Asks
    <3> QED  BY <1>1, <2>2, <3>1, <3>2, AsksTyped
  <2>3. ASSUME idx < PARTS, saved' = saved, prompts' = prompts,
               Plain(idx + 1, 0, Bump(Finished(m)))
        PROVE  m' \in Engine /\ Context'
    <3>1. idx + 1 \in Part /\ 0 \in Pos
      BY <1>1, <2>3, MediaAssumption DEF Context, Part, Pos
    <3>2. prompts' \in Seq(Prompt) /\ saved' \in [Part -> Pos]
      BY <1>1, <2>3 DEF Context
    <3>3. m' \in Engine
      BY <2>3 DEF Plain
    <3> QED  BY <1>1, <2>3, <3>1, <3>2, <3>3, PlainTyped
  <2>4. ASSUME state' = "stopped", UNCHANGED <<idx, advancing, prompts, saved, place>>,
               m' \in Engine
        PROVE  m' \in Engine /\ Context'
    BY <1>1, <2>4 DEF Context
  <2> QED  BY <1>2, <2>1, <2>2, <2>3, <2>4, PartEndsIs
<1>3. CASE WatchEnds
  <2>1. UNCHANGED <<sync, place>> /\ m' \in Engine
    BY <1>3, WatchEndsIs DEF WatchEnds
  <2> QED  BY <1>1, <2>1 DEF Context, sync
<1>4. CASE RestartFires
  <2>1. UNCHANGED <<sync, place>> /\ m' \in Engine
    BY <1>4, RestartFiresIs DEF RestartFires
  <2> QED  BY <1>1, <2>1 DEF Context, sync
<1>5. CASE PidCaptured
  <2>1. UNCHANGED <<sync, place>> /\ m' \in Engine
    BY <1>5, PidCapturedIs DEF PidCaptured
  <2> QED  BY <1>1, <2>1 DEF Context, sync
<1>6. CASE Reattaches
  <2>1. UNCHANGED <<sync, place>> /\ m' \in Engine
    BY <1>6, ReattachesIs DEF Reattaches
  <2> QED  BY <1>1, <2>1 DEF Context, sync
<1>7. CASE StallSeen
  <2>1. UNCHANGED <<sync, place>> /\ m' \in Engine
    BY <1>7, StallSeenIs DEF StallSeen
  <2> QED  BY <1>1, <2>1 DEF Context, sync
<1>8. CASE StallWatchEnds
  <2>1. UNCHANGED <<sync, place>> /\ m' \in Engine
    BY <1>8, StallWatchEndsIs DEF StallWatchEnds
  <2> QED  BY <1>1, <2>1 DEF Context, sync
<1> QED  BY <1>2, <1>3, <1>4, <1>5, <1>6, <1>7, <1>8 DEF Timer

\* So do the device's steps.
LEMMA DeviceTyped ==
  ASSUME Typed, Device
  PROVE  m' \in Engine /\ Context'
<1>1. Context
  BY DEF Typed, Context
<1>2. CASE Hears
  <2>1. UNCHANGED sync /\ m' \in Engine
    BY <1>2, HearsIs DEF Hears
  <2>2. place' \in [part : 0..PARTS, pos : Nat]
    BY <1>1, <1>2 DEF Hears, Context
  <2> QED  BY <1>1, <2>1, <2>2 DEF Context, sync
<1>3. CASE PipeEnds
  <2>1. UNCHANGED <<sync, place>> /\ m' \in Engine
    BY <1>3, PipeEndsIs DEF PipeEnds
  <2> QED  BY <1>1, <2>1 DEF Context, sync
<1>4. CASE OrphanEnds
  <2>1. UNCHANGED <<sync, place>> /\ m' \in Engine
    BY <1>4, OrphanEndsIs DEF OrphanEnds
  <2> QED  BY <1>1, <2>1 DEF Context, sync
<1>5. CASE HeadsetConnects
  <2>1. UNCHANGED <<sync, place, m>> /\ m \in Engine
    BY <1>5 DEF HeadsetConnects, Typed
  <2> QED  BY <1>1, <2>1 DEF Context, sync
<1> QED  BY <1>2, <1>3, <1>4, <1>5 DEF Device

\* So do the user's commands.
LEMMA UserTyped ==
  ASSUME Typed, User
  PROVE  m' \in Engine /\ Context'
<1>1. /\ Context /\ m \in Engine /\ scen \in Scenario /\ headset \in BOOLEAN
      /\ prompts \in Seq(Prompt) /\ saved \in [Part -> Pos] /\ idx \in 0..PARTS
      /\ advancing \in BOOLEAN /\ 0 \in Pos
  BY MediaAssumption DEF Typed, Context, Pos
<1>2. ASSUME NEW p \in Part, UserChooses(p)  PROVE m' \in Engine /\ Context'
  <2>1. CASE Asks(p, advancing, m) /\ idx' = idx /\ saved' = saved
    BY <1>1, <2>1, AsksTyped DEF Asks
  <2>2. CASE \E pos \in Pos : Plain(p, pos, m) /\ saved' = saved /\ prompts' = prompts
    BY <1>1, <2>2, PlainTyped DEF Plain
  <2> QED  BY <1>2, <2>1, <2>2, UserChoosesIs
<1>3. ASSUME NEW p \in Part, SwitchTo(p, advancing, m)  PROVE m' \in Engine /\ Context'
  <2>1. CASE Asks(p, advancing, m) /\ idx' = p /\ saved' = saved
    <3>1. idx' \in 0..PARTS
      BY <2>1, PartRange
    <3> QED  BY <1>1, <2>1, <3>1, AsksTyped DEF Asks
  <2>2. CASE Plain(p, 0, m) /\ saved' = saved /\ prompts' = prompts
    BY <1>1, <2>2, PlainTyped DEF Plain
  <2> QED  BY <1>3, <2>1, <2>2, SwitchToIs
<1>4. CASE UserAnswers
  <2>1. CASE UNCHANGED <<state, idx, advancing, saved, m, place>>
    BY <1>1, <1>4, <2>1, UserAnswersIs DEF Context
  <2>2. ASSUME NEW p \in Part, NEW pos \in Pos, Plain(p, pos, m), saved' \in [Part -> Pos]
        PROVE  m' \in Engine /\ Context'
    <3>1. prompts' \in Seq(Prompt)
      BY <1>4, UserAnswersIs
    <3> QED  BY <1>1, <2>2, <3>1, PlainTyped DEF Plain
  <2> QED  BY <1>4, <2>1, <2>2, UserAnswersIs
<1>5. CASE UserPauses
  <2>1. m' = Paused(m) /\ state' = "paused" /\ UNCHANGED <<idx, advancing, prompts, saved, place>>
    BY <1>5 DEF UserPauses
  <2>2. m' \in Engine
    BY <1>1, <2>1, PausedIs
  <2> QED  BY <1>1, <2>1, <2>2 DEF Context
<1>6. CASE UserResumes
  <2>1. (\E r \in Resumes(m) : m' = r.e) /\ state' = "playing"
        /\ UNCHANGED <<idx, advancing, prompts, saved, place>>
    BY <1>6 DEF UserResumes, Becomes
  <2>2. m' \in Engine
    BY <1>1, <2>1, ResumesIs
  <2> QED  BY <1>1, <2>1, <2>2 DEF Context
<1>7. CASE PlayFromStopped
  <2>1. state' = "playing" /\ UNCHANGED <<idx, advancing, prompts, saved, place>>
    BY <1>7 DEF PlayFromStopped
  <2>2. m' \in Engine
    BY <1>7, PlayFromStoppedIs
  <2> QED  BY <1>1, <2>1, <2>2 DEF Context
<1>8. ASSUME NEW target \in Pos, NEW want \in Pos, SeekTo(target, want)
      PROVE  m' \in Engine /\ Context'
  <2>1. m' \in Engine
    BY <1>8, SeekToIs
  <2>2. UNCHANGED sync /\ place' = [place EXCEPT !.pos = want]
    BY <1>8 DEF SeekTo
  <2>3. place' \in [part : 0..PARTS, pos : Nat]
    BY <1>1, <2>2, PosNat DEF Context
  <2> QED  BY <1>1, <2>1, <2>2, <2>3 DEF Context, sync
<1>9. ASSUME NEW target \in 0..LEN, UserSeeks(target)  PROVE m' \in Engine /\ Context'
  <2>1. target \in Pos /\ SeekTo(target, target)
    BY <1>9, MediaAssumption DEF UserSeeks, Pos
  <2> QED  BY <1>8, <2>1
<1>10. ASSUME NEW d \in {-1, 1}, UserSkips(d)  PROVE m' \in Engine /\ Context'
  <2>1. Upto(GetPosition(m) + d) \in Pos /\ Upto(place.pos + d) \in Pos
    BY <1>10, SkipTargets
  <2>2. SeekTo(Upto(GetPosition(m) + d), Upto(place.pos + d))
    BY <1>10 DEF UserSkips
  <2> QED  BY <1>8, <2>1, <2>2
<1>11. ASSUME NEW d \in {-1, 1}, UserSwitches(d)  PROVE m' \in Engine /\ Context'
  BY <1>3, <1>11 DEF UserSwitches
<1>12. ASSUME NEW p \in Part, UserPicks(p)  PROVE m' \in Engine /\ Context'
  BY <1>3, <1>12 DEF UserPicks
<1>13. CASE UserStops
  <2>1. /\ m' \in Engine /\ saved' \in [Part -> Pos] /\ state' = "stopped"
        /\ UNCHANGED <<idx, advancing, prompts, place>>
    BY <1>13, UserStopsIs DEF UserStops
  <2> QED  BY <1>1, <2>1 DEF Context
<1> QED
  BY <1>2, <1>4, <1>5, <1>6, <1>7, <1>9, <1>10, <1>11, <1>12, <1>13 DEF User

\* The scenario, the headset and the number of commands.
LEMMA Rest ==
  ASSUME Typed, Next
  PROVE  scen' = scen /\ headset' \in BOOLEAN /\ cmds' \in Nat
<1>1. headset \in BOOLEAN /\ cmds \in Nat
  BY DEF Typed
<1>2. CASE Timer
  BY <1>1, <1>2 DEF Timer, PartEnds, WatchEnds, RestartFires, PidCaptured, Reattaches,
       StallSeen, StallWatchEnds
<1>3. CASE Device
  BY <1>1, <1>3 DEF Device, Hears, PipeEnds, OrphanEnds, HeadsetConnects
<1>4. CASE User
  <2>1. PICK c : Command(c)
    BY <1>4 DEF User, UserChooses, UserPicks, UserAnswers, UserPauses, UserResumes,
         PlayFromStopped, UserSeeks, UserSkips, UserSwitches, UserStops
  <2> QED  BY <1>1, <2>1 DEF Command
<1> QED  BY <1>2, <1>3, <1>4 DEF Next

\* The invariant of the types.
LEMMA TypedInvariant == Spec => []Typed
<1>1. Init => Typed
  <2> SUFFICES ASSUME Init PROVE Typed
    OBVIOUS
  <2>1. scen \in Scenario /\ headset \in BOOLEAN /\ cmds \in Nat /\ scen.mtk \in BOOLEAN
    BY ScenarioAssumption DEF Init, Scenario
  <2>2. saved \in [Part -> Pos] /\ 0 \in Pos /\ 0 \in 0..PARTS /\ 0 \in 0..2
    BY MediaAssumption DEF Init, Pos
  <2>3. m \in Engine
    BY <2>1, <2>2, Nothing DEF Init, Engine, Callbacks
  <2>4. place \in [part : 0..PARTS, pos : Nat]
    BY <2>2 DEF Init
  <2>5. state \in {"stopped", "playing", "paused"} /\ idx \in 0..PARTS
        /\ advancing \in BOOLEAN /\ prompts \in Seq(Prompt)
    <3>1. <<>> \in Seq(Prompt)
      OBVIOUS
    <3> QED  BY <2>2, <3>1 DEF Init
  <2> QED  BY <2>1, <2>2, <2>3, <2>4, <2>5 DEF Typed
<1>2. Typed /\ [Next]_vars => Typed'
  <2> SUFFICES ASSUME Typed, [Next]_vars PROVE Typed'
    OBVIOUS
  <2>1. CASE Next
    <3>1. m' \in Engine /\ Context'
      BY <2>1, TimerTyped, DeviceTyped, UserTyped DEF Next
    <3>2. scen' = scen /\ headset' \in BOOLEAN /\ cmds' \in Nat /\ scen \in Scenario
      BY <2>1, Rest DEF Typed
    <3> QED  BY <3>1, <3>2 DEF Typed, Context
  <2>2. CASE UNCHANGED vars
    BY <2>2 DEF Typed, vars, sync
  <2> QED  BY <2>1, <2>2
<1> QED  BY <1>1, <1>2, PTL DEF Spec

-----------------------------------------------------------------------------
(* A stopped session.                                                      *)

\* Who has the sound: a restart that is due comes out of silence, the daemon's
\* stream is the one the engine knows, a released daemon means a pause, and a
\* process belongs to a playing engine.
Shape(x) ==
  /\ x.timers.restart # "none" => ~x.playing /\ x.sound.via = "none"
  /\ x.external <=> x.sound.via = "daemon"
  /\ x.released => x.playing /\ x.paused /\ x.sound.via = "none"
  /\ x.sound.via \in {"pipe", "ended"} => x.playing
  /\ x.sound.via = "none" =>
       ~x.sound.held /\ ~x.sound.pid /\ ~x.sound.stuck /\ ~x.sound.deaf

\* No timer, no sound.
Still(x) ==
  /\ ~x.playing /\ x.sound.via = "none"
  /\ x.timers.restart = "none" /\ x.timers.watch = 0
  /\ x.timers.reattach = NoPos /\ x.timers.stall = NoPos

Shaped ==
  /\ Shape(m)
  /\ state = "stopped" => Still(m)
  /\ scen.patient => ~m.orphan

\* The results of the operators have the shape.
LEMMA StartsShape ==
  ASSUME NEW x, NEW e, NEW cb, Starts(x, e, cb)
  PROVE  Shape(x) /\ (~e.orphan /\ Tracked(e) => ~x.orphan)
BY DEF Starts, Shape

\* An engine that is off, playing only if it is paused, has the shape.
LEMMA OffShape ==
  ASSUME NEW x, NEW e, Off(x, e), x.timers.restart # "none" => ~x.playing
  PROVE  Shape(x) /\ (~e.orphan /\ Tracked(e) => ~x.orphan)
BY DEF Off, Shape, Silence

\* What stop leaves has the shape.
LEMMA HaltsShape ==
  ASSUME NEW x, NEW e, Halts(x, e)
  PROVE  Shape(x) /\ Still(x) /\ (~e.orphan /\ Tracked(e) => ~x.orphan)
BY DEF Halts, Off, Shape, Still, Silence, NoTimers

\* What an end of a part leaves is known to the engine.
LEMMA FinishedShape ==
  ASSUME Typed, Shape(m), PartEnds
  PROVE  LET b == Bump(Finished(m))
         IN  /\ Shape(Finished(m)) /\ Tracked(Finished(m)) /\ Finished(m).orphan = m.orphan
             /\ Shape(b) /\ Tracked(b) /\ b.orphan = m.orphan
             /\ ~Finished(m).playing /\ ~b.playing
<1> DEFINE f == Finished(m)
           b == Bump(f)
<1>1. f \in Engine /\ Over(f, m) /\ m.playing /\ AtEnd
  BY PartEndsIs
<1> HIDE DEF f
<1>2. /\ b.sound = f.sound /\ b.orphan = f.orphan /\ b.playing = f.playing
      /\ b.paused = f.paused /\ b.external = f.external /\ b.released = f.released
      /\ b.timers.restart = Stale(f.timers.restart)
  BY <1>1, BumpIs
<1> HIDE DEF b
<1>3. Shape(f) /\ Tracked(f) /\ f.orphan = m.orphan /\ ~f.playing
  BY <1>1 DEF Over, Keeps, Shape, Tracked, AtEnd, Silence
<1>4. Shape(b) /\ Tracked(b) /\ b.orphan = m.orphan /\ ~b.playing
  BY <1>2, <1>3 DEF Shape, Tracked, Stale
<1> QED  BY <1>3, <1>4 DEF f, b

\* The timers keep the shape.
LEMMA TimerShaped ==
  ASSUME Typed, Shaped, Timer
  PROVE  Shape(m') /\ (state' = "stopped" => Still(m')) /\ (scen.patient => ~m'.orphan)
<1>1. Shape(m) /\ (state = "stopped" => Still(m)) /\ (scen.patient => ~m.orphan) /\ m \in Engine
      /\ m.timers.watch \in Nat
  BY DEF Shaped, Typed, Engine, TimerSet
<1>2. CASE PartEnds
  <2> DEFINE f == Finished(m)
             b == Bump(Finished(m))
  <2>1. /\ Shape(f) /\ Tracked(f) /\ f.orphan = m.orphan /\ Shape(b) /\ Tracked(b)
        /\ b.orphan = m.orphan
    BY <1>1, <1>2, FinishedShape
  <2>2. m.playing /\ state # "stopped"
    BY <1>1, <1>2 DEF PartEnds, Still
  <2>3. \/ m' = f /\ state' = state
        \/ m' = b /\ state' = state
        \/ state' = "playing" /\ \E p \in Part : Starts(m', At(b, p, 0), "live") /\ b \in Engine
        \/ state' = "stopped" /\ Halts(m', b)
    <3>1. idx < PARTS => idx + 1 \in Part
      BY MediaAssumption DEF Typed, Part
    <3> HIDE DEF Still, Shape
    <3> QED  BY <1>2, <3>1, PartEndsIs DEF Asks, Plain, sync
  <2> HIDE DEF f, b
  <2>4. CASE m' = f /\ state' = state
    BY <1>1, <2>1, <2>2, <2>4
  <2>5. CASE m' = b /\ state' = state
    BY <1>1, <2>1, <2>2, <2>5
  <2>6. ASSUME state' = "playing", NEW p \in Part, Starts(m', At(b, p, 0), "live"), b \in Engine
        PROVE  Shape(m') /\ (state' = "stopped" => Still(m')) /\ (scen.patient => ~m'.orphan)
    <3>1. At(b, p, 0).orphan = b.orphan /\ At(b, p, 0).sound = b.sound
      BY <2>6, AtIs, MediaAssumption DEF Pos
    <3>2. Tracked(At(b, p, 0))
      BY <2>1, <3>1 DEF Tracked
    <3> QED  BY <1>1, <2>1, <2>6, <3>1, <3>2, StartsShape
  <2>7. CASE state' = "stopped" /\ Halts(m', b)
    BY <1>1, <2>1, <2>7, HaltsShape
  <2> QED  BY <2>3, <2>4, <2>5, <2>6, <2>7
<1>3. CASE WatchEnds
  <2>1. state' = state /\ state # "stopped"
    BY <1>1, <1>3 DEF WatchEnds, sync, Still
  <2> QED  BY <1>1, <1>3, <2>1, WatchEndsIs DEF Keeps, Goes, Shape
<1>4. CASE RestartFires
  <2>1. state' = state /\ m.timers.restart # "none"
    BY <1>4 DEF RestartFires, sync
  <2>2. state # "stopped" /\ Tracked(m)
    BY <1>1, <2>1 DEF Shape, Still, Tracked
  <2>3. Starts(m', m, IF m.timers.restart = "bare" THEN "none" ELSE m.timers.restart)
    BY <1>4, RestartFiresIs
  <2> QED  BY <1>1, <2>1, <2>2, <2>3, StartsShape
<1>5. CASE PidCaptured
  <2>1. state' = state /\ ~Tracked(m)
    BY <1>5 DEF PidCaptured, sync
  <2> QED  BY <1>1, <1>5, <2>1, PidCapturedIs DEF Keeps, Goes, Shape, Still, Tracked
<1>6. CASE Reattaches
  <2>1. state' = state /\ m.playing /\ Tracked(m)
    BY <1>6 DEF Reattaches, sync
  <2>2. Due(m', m, m.timers.reattach)
    BY <1>6, ReattachesIs
  <2> QED  BY <1>1, <2>1, <2>2, OffShape DEF Due, Still
<1>7. CASE StallSeen
  <2>1. state' = state /\ m.playing /\ m.external
    BY <1>7 DEF StallSeen, sync
  <2>2. Tracked(m) /\ state # "stopped"
    BY <1>1, <2>1 DEF Shape, Tracked, Still
  <2>3. CASE Unwatched(m', m)
    BY <1>1, <2>1, <2>2, <2>3 DEF Unwatched, Keeps, Goes, Shape
  <2>4. ASSUME NEW e, Off(m', e), ~m'.playing, m'.orphan => m.orphan \/ ~Tracked(m)
        PROVE  Shape(m') /\ (state' = "stopped" => Still(m')) /\ (scen.patient => ~m'.orphan)
    BY <1>1, <2>1, <2>2, <2>4, OffShape
  <2> QED  BY <1>7, <2>3, <2>4, StallSeenIs
<1>8. CASE StallWatchEnds
  <2>1. state' = state /\ m.timers.stall # NoPos
    BY <1>8 DEF StallWatchEnds, sync
  <2>2. Unwatched(m', m) /\ state # "stopped"
    BY <1>1, <1>8, <2>1, StallWatchEndsIs DEF Still
  <2> QED  BY <1>1, <2>1, <2>2 DEF Unwatched, Keeps, Goes, Shape
<1> QED  BY <1>2, <1>3, <1>4, <1>5, <1>6, <1>7, <1>8 DEF Timer

\* So do the device's steps.
LEMMA DeviceShaped ==
  ASSUME Typed, Shaped, Device
  PROVE  Shape(m') /\ (state' = "stopped" => Still(m')) /\ (scen.patient => ~m'.orphan)
<1>1. Shape(m) /\ (state = "stopped" => Still(m)) /\ (scen.patient => ~m.orphan)
  BY DEF Shaped
<1>2. CASE Hears
  <2>1. state' = state /\ m.sound.via \in {"daemon", "pipe"}
    BY <1>2 DEF Hears, sync
  <2> QED  BY <1>1, <1>2, <2>1, HearsIs DEF Keeps, Goes, Shape, Still
<1>3. CASE PipeEnds
  <2>1. state' = state /\ m.sound.via = "pipe"
    BY <1>3 DEF PipeEnds, sync
  <2> QED  BY <1>1, <1>3, <2>1, PipeEndsIs DEF Keeps, Goes, Shape, Still
<1>4. CASE OrphanEnds
  <2>1. state' = state
    BY <1>4 DEF OrphanEnds, sync
  <2> QED  BY <1>1, <1>4, <2>1, OrphanEndsIs DEF Keeps, Goes, Shape, Still
<1>5. CASE HeadsetConnects
  BY <1>1, <1>5 DEF HeadsetConnects, sync
<1> QED  BY <1>2, <1>3, <1>4, <1>5 DEF Device

\* A start by the session has the shape.
LEMMA PlainShape ==
  ASSUME NEW p \in Part, NEW pos \in Pos, NEW e \in Engine, Plain(p, pos, e),
         scen.patient => ~e.orphan /\ Tracked(e)
  PROVE  Shape(m') /\ state' = "playing" /\ (scen.patient => ~m'.orphan)
<1>1. At(e, p, pos).orphan = e.orphan /\ At(e, p, pos).sound = e.sound
  BY AtIs
<1>2. Tracked(At(e, p, pos)) <=> Tracked(e)
  BY <1>1 DEF Tracked
<1> QED  BY <1>1, <1>2, StartsShape DEF Plain

\* A user who waits has the engine settled.
LEMMA CommandSettled ==
  ASSUME Shaped, NEW c, Command(c)
  PROVE  scen.patient => ~m.orphan /\ Tracked(m) /\ m.timers.restart = "none"
BY DEF Shaped, Command, Settled

\* Every step of the user is a command.
LEMMA UserCommands ==
  ASSUME User
  PROVE  \E c : Command(c)
BY DEF User, UserChooses, UserPicks, UserAnswers, UserPauses, UserResumes,
       PlayFromStopped, UserSeeks, UserSkips, UserSwitches, UserStops

\* So do the user's commands.
LEMMA UserShaped ==
  ASSUME Typed, Shaped, User
  PROVE  Shape(m') /\ (state' = "stopped" => Still(m')) /\ (scen.patient => ~m'.orphan)
<1>1. /\ Shape(m) /\ (state = "stopped" => Still(m)) /\ (scen.patient => ~m.orphan /\ Tracked(m))
      /\ m \in Engine /\ 0 \in Pos /\ scen \in Scenario /\ headset \in BOOLEAN
  BY UserCommands, CommandSettled, MediaAssumption DEF Shaped, Typed, Pos
<1> DEFINE Goal == Shape(m') /\ (state' = "stopped" => Still(m')) /\ (scen.patient => ~m'.orphan)
<1>2. ASSUME NEW p \in Part, NEW pos \in Pos, Plain(p, pos, m)  PROVE Goal
  BY <1>1, <1>2, PlainShape
<1>3. ASSUME NEW p, Asks(p, advancing, m)  PROVE Goal
  BY <1>1, <1>3 DEF Asks
<1>4. ASSUME NEW p \in Part, UserChooses(p)  PROVE Goal
  <2> HIDE DEF Goal
  <2> QED  BY <1>2, <1>3, <1>4, UserChoosesIs
<1>5. ASSUME NEW p \in Part, SwitchTo(p, advancing, m)  PROVE Goal
  <2> HIDE DEF Goal
  <2> QED  BY <1>1, <1>2, <1>3, <1>5, SwitchToIs
<1>6. ASSUME UserAnswers  PROVE Goal
  <2>1. CASE UNCHANGED <<state, idx, advancing, saved, m, place>>
    BY <1>1, <2>1
  <2> HIDE DEF Goal
  <2> QED  BY <1>2, <1>6, <2>1, UserAnswersIs
<1>7. ASSUME UserPauses  PROVE Goal
  <2>1. m' = Paused(m) /\ state' = "paused"
    BY <1>7 DEF UserPauses
  <2>2. CASE ~m.playing \/ m.paused
    BY <1>1, <2>1, <2>2, PausedIs
  <2>3. CASE m.playing /\ ~m.paused
    <3>1. /\ m'.playing /\ m'.paused /\ m'.timers = m.timers /\ m'.orphan = m.orphan
          /\ IF m.external THEN Releases(m', m) ELSE Holds(m', m)
      BY <1>1, <2>1, <2>3, PausedIs
    <3>2. CASE m.external
      BY <1>1, <2>1, <2>3, <3>1, <3>2 DEF Releases, Shape, Silence
    <3>3. CASE ~m.external
      BY <1>1, <2>1, <2>3, <3>1, <3>3 DEF Holds, Shape
    <3> QED  BY <3>2, <3>3
  <2> QED  BY <2>2, <2>3
<1>8. ASSUME UserResumes  PROVE Goal
  <2>1. state' = "playing" /\ state = "paused" /\ \E r \in Resumes(m) : m' = r.e
    BY <1>8 DEF UserResumes, Becomes
  <2>2. \/ m' = m
        \/ m.playing /\ m.paused /\ m.released /\ Starts(m', FromMark(m), m.cb)
        \/ m.playing /\ m.paused /\ ~m.released /\ Continues(m', m)
        \/ m.playing /\ m.paused /\ ~m.released /\ Starts(m', m, m.cb)
    BY <1>1, <2>1, ResumesIs
  <2>3. CASE m' = m
    BY <1>1, <2>1, <2>3
  <2>4. CASE Starts(m', FromMark(m), m.cb)
    <3>1. FromMark(m).orphan = m.orphan /\ FromMark(m).sound = m.sound
      BY <1>1 DEF FromMark, Engine
    <3>2. Tracked(FromMark(m)) <=> Tracked(m)
      BY <3>1 DEF Tracked
    <3> QED  BY <1>1, <2>1, <2>4, <3>1, <3>2, StartsShape
  <2>5. CASE m.playing /\ m.paused /\ ~m.released /\ Continues(m', m)
    BY <1>1, <2>1, <2>5 DEF Continues, Shape
  <2>6. CASE Starts(m', m, m.cb)
    BY <1>1, <2>1, <2>6, StartsShape
  <2> QED  BY <2>2, <2>3, <2>4, <2>5, <2>6
<1>9. ASSUME PlayFromStopped  PROVE Goal
  <2>1. state' = "playing" /\ Starts(m', FromStop, "live")
    BY <1>9, PlayFromStoppedIs DEF PlayFromStopped
  <2>2. FromStop.orphan = m.orphan /\ FromStop.sound = m.sound
    BY <1>1 DEF FromStop, Engine
  <2>3. Tracked(FromStop) <=> Tracked(m)
    BY <2>2 DEF Tracked
  <2> QED  BY <1>1, <2>1, <2>2, <2>3, StartsShape
<1>10. ASSUME NEW target \in Pos, NEW want \in Pos, SeekTo(target, want)  PROVE Goal
  <2>1. state' = state /\ state # "stopped"
    BY <1>10 DEF SeekTo, sync
  <2>2. CASE m' = m
    BY <1>1, <2>1, <2>2
  <2>3. CASE m.external /\ Moves(m', m, target)
    BY <1>1, <2>1, <2>3 DEF Moves, Shape
  <2>4. CASE Due(m', m, target)
    BY <1>1, <2>1, <2>4, OffShape DEF Due
  <2>5. CASE Waits(m', m, target)
    BY <1>1, <2>1, <2>5, OffShape DEF Waits, NoTimers
  <2> QED  BY <1>10, <2>2, <2>3, <2>4, <2>5, SeekToIs
<1>11. ASSUME NEW target \in 0..LEN, UserSeeks(target)  PROVE Goal
  <2>1. target \in Pos /\ SeekTo(target, target)
    BY <1>11, MediaAssumption DEF UserSeeks, Pos
  <2> QED  BY <1>10, <2>1
<1>12. ASSUME NEW d \in {-1, 1}, UserSkips(d)  PROVE Goal
  <2> HIDE DEF Goal
  <2>1. SeekTo(Upto(GetPosition(m) + d), Upto(place.pos + d))
    BY <1>12 DEF UserSkips
  <2>2. Upto(GetPosition(m) + d) \in Pos /\ Upto(place.pos + d) \in Pos
    BY <1>12, SkipTargets
  <2> QED  BY <1>10, <2>1, <2>2
<1>13. ASSUME NEW d \in {-1, 1}, UserSwitches(d)  PROVE Goal
  <2> HIDE DEF Goal
  <2> QED  BY <1>5, <1>13 DEF UserSwitches
<1>14. ASSUME NEW p \in Part, UserPicks(p)  PROVE Goal
  <2> HIDE DEF Goal
  <2> QED  BY <1>5, <1>14 DEF UserPicks
<1>15. ASSUME UserStops  PROVE Goal
  <2>1. state' = "stopped" /\ Halts(m', Bump(m))
    BY <1>15, UserStopsIs
  <2>2. Bump(m).orphan = m.orphan /\ Bump(m).sound = m.sound
    BY <1>1, BumpIs
  <2>3. Tracked(Bump(m)) <=> Tracked(m)
    BY <2>2 DEF Tracked
  <2> QED  BY <1>1, <2>1, <2>2, <2>3, HaltsShape
<1> HIDE DEF Goal
<1> QED
  <2>1. Goal
    BY <1>4, <1>6, <1>7, <1>8, <1>9, <1>11, <1>12, <1>13, <1>14, <1>15 DEF User
  <2> QED  BY <2>1 DEF Goal

\* The session's shape is kept by every step.
LEMMA ShapedInvariant == Spec => []Shaped
<1>1. Init => Shaped
  <2> SUFFICES ASSUME Init PROVE Shaped
    OBVIOUS
  <2>1. /\ ~m.playing /\ ~m.external /\ ~m.released /\ ~m.orphan
        /\ m.timers = NoTimers /\ m.sound = Silence
    BY DEF Init
  <2> QED  BY <2>1 DEF Shaped, Shape, Still, NoTimers, Silence
<1>2. Typed /\ Shaped /\ [Next]_vars => Shaped'
  <2> SUFFICES ASSUME Typed, Shaped, [Next]_vars PROVE Shaped'
    OBVIOUS
  <2>1. CASE Next
    <3>1. Shape(m') /\ (state' = "stopped" => Still(m')) /\ (scen.patient => ~m'.orphan)
      BY <2>1, TimerShaped, DeviceShaped, UserShaped DEF Next
    <3>2. scen' = scen
      BY <2>1, Rest
    <3> QED  BY <3>1, <3>2 DEF Shaped
  <2>2. CASE UNCHANGED vars
    BY <2>2 DEF Shaped, vars, sync
  <2> QED  BY <2>1, <2>2
<1> QED  BY <1>1, <1>2, TypedInvariant, PTL DEF Spec

\* stop is final: nothing sounds in a stopped session and no restart is due,
\* and a user who waits for the engine leaves no process behind.
THEOREM StoppedIsSilent == Spec => []SilentWhenStopped
<1>1. Shaped => SilentWhenStopped
  BY DEF Shaped, SilentWhenStopped, Still, Sounding
<1> QED  BY <1>1, ShapedInvariant, PTL

-----------------------------------------------------------------------------
(* A session that plays, and one that is paused.  What the two properties  *)
(* need of the commands and the failures that may meet in a session is     *)
(* said by Orderly; each of its clauses leaves out a session in which the  *)
(* code does break them.                                                   *)

\* The daemon has a headset and never refuses: there are no pipes.
Direct(s) == s.mtk /\ s.headset /\ "refuse" \notin s.fails

Hurries == {"toggle", "seek", "seek_paused", "skip"}

\* A question is answered.  Under the pipe of ffmpeg, resume continues a
\* process that a seek in the pause has stopped.  Who does not wait for the
\* engine finds a restart pending, which a pause does not see and a seek takes
\* for one.  A session that waits for its headset is restarted in a pause too.
Orderly(s) ==
  /\ "cancel" \notin s.cmds
  /\ s.backend = "ffmpeg_pipe" => ~({"toggle", "seek_paused"} \subseteq s.cmds)
  /\ s.patient \/ s.cmds \cap Hurries = {} \/ (Direct(s) /\ "stall" \notin s.fails)
  /\ s.mtk /\ ~s.headset => "toggle" \notin s.cmds

\* What the engine plays through.
Route(x, h) ==
  /\ Direct(scen) => x.persistent /\ h /\ x.sound.via \in {"none", "daemon"}
  /\ ~scen.mtk => ~x.persistent
  /\ scen.mtk /\ scen.headset => h
  /\ x.timers.reattach # NoPos => scen.mtk /\ ~scen.headset
  /\ x.sound.stuck => "stall" \in scen.fails
  /\ Direct(scen) /\ "stall" \notin scen.fails => x.timers.restart = "none"

\* An engine that plays will tell the session of the end, and a pause holds
\* what it has not released.
Calm(x) ==
  /\ x.playing => x.cb = "live"
  /\ x.timers.restart \in {"none", "live"}
  /\ x.playing /\ ~x.paused => x.sound.via # "none"
  /\ x.external => ~x.paused
  /\ x.sound.via = "pipe" /\ x.paused => x.sound.held
  /\ x.sound.held => x.paused
  /\ x.sound.via = "ended" => x.sound.pid
  /\ x.playing /\ x.paused =>
       \/ x.released
       \/ x.sound.via \in {"pipe", "ended"} /\ x.sound.pid
       \/ x.sound.via = "none" /\ scen.backend = "gst_play"
  /\ x.paused => "toggle" \in scen.cmds

\* What the session says and what the engine does.
Session ==
  /\ m.external /\ ~m.playing => m.sound.pos >= LEN /\ prompts # <<>>
  /\ state = "paused" => /\ m.playing => m.paused
                         /\ m.timers.restart = "none"
                         /\ "toggle" \in scen.cmds
                         /\ prompts = <<>> => m.playing
  /\ advancing => prompts # <<>>
  /\ state = "playing" /\ prompts = <<>> =>
       (m.playing /\ ~m.paused) \/ m.timers.restart = "live"

Ordered ==
  /\ Orderly(scen) /\ scen \in Scenario
  /\ Route(m, headset) /\ Calm(m) /\ Session

\* What a start needs of the engine it starts.
Ready(e) ==
  /\ Direct(scen) => e.persistent /\ headset
  /\ ~scen.mtk => ~e.persistent
  /\ scen.mtk /\ scen.headset => headset

\* A start is in order.
LEMMA StartsOrdered ==
  ASSUME NEW x, NEW e, Starts(x, e, "live"), Ready(e), scen \in Scenario, headset \in BOOLEAN,
         e.persistent \in BOOLEAN
  PROVE  Route(x, headset) /\ Calm(x) /\ x.playing /\ ~x.paused /\ x.timers.restart = "none"
<1>1. Route(x, headset)
  BY DEF Starts, Route, Ready, Direct, Scenario
<1>2. Calm(x)
  BY DEF Starts, Calm
<1> QED  BY <1>1, <1>2 DEF Starts

\* So is an engine that is off, if what is due is.
LEMMA OffOrdered ==
  ASSUME NEW x, NEW e, Off(x, e), Ready(e),
         x.playing => x.cb = "live" /\ x.paused,
         x.paused => scen.backend = "gst_play" /\ "toggle" \in scen.cmds,
         x.timers.restart \in {"none", "live"},
         Direct(scen) /\ "stall" \notin scen.fails => x.timers.restart = "none"
  PROVE  Route(x, headset) /\ Calm(x)
<1>1. Route(x, headset)
  BY DEF Off, Route, Ready, Silence
<1>2. Calm(x)
  BY DEF Off, Calm, Silence
<1> QED  BY <1>1, <1>2

\* The engine of an ordered session is ready.
LEMMA OrderedReady ==
  ASSUME Ordered, Typed
  PROVE  /\ \A e : e.persistent = m.persistent => Ready(e)
         /\ m.persistent \in BOOLEAN /\ scen \in Scenario /\ headset \in BOOLEAN
BY DEF Ordered, Route, Ready, Typed, Engine

\* A command that moves finds the engine settled.
LEMMA HurriesSettled ==
  ASSUME Ordered, NEW c \in Hurries, Command(c)
  PROVE  m.timers.restart = "none" /\ Tracked(m) /\ c \in scen.cmds
<1>1. c \in scen.cmds /\ (scen.patient => Settled)
  BY DEF Command
<1>2. CASE scen.patient
  BY <1>1, <1>2 DEF Settled
<1>3. CASE ~scen.patient
  <2>1. Direct(scen) /\ "stall" \notin scen.fails
    BY <1>1, <1>3 DEF Ordered, Orderly
  <2> QED  BY <1>1, <2>1 DEF Ordered, Route, Tracked
<1> QED  BY <1>2, <1>3

\* What the engine at the end of a part keeps of the order.
LEMMA FinishedOrdered ==
  ASSUME Typed, Shaped, Ordered, PartEnds
  PROVE  LET b == Bump(Finished(m))
         IN  /\ Route(b, headset) /\ Calm(b) /\ ~b.playing /\ b.timers.restart = "none"
             /\ b.persistent = m.persistent
             /\ b.external => b.sound.pos >= LEN
<1> DEFINE f == Finished(m)
           b == Bump(f)
<1>1. f \in Engine /\ Over(f, m) /\ m.playing /\ AtEnd
  BY PartEndsIs
<1>2. Route(m, headset) /\ Calm(m) /\ Shape(m)
  BY DEF Ordered, Shaped
<1> HIDE DEF f
<1>3. /\ b.sound = f.sound /\ b.playing = f.playing
      /\ b.paused = f.paused /\ b.external = f.external /\ b.persistent = f.persistent
      /\ b.timers.restart = Stale(f.timers.restart) /\ b.timers.reattach = f.timers.reattach
  BY <1>1, BumpIs
<1> HIDE DEF b
<1>4. /\ ~f.playing /\ ~f.paused /\ f.timers.restart = "none" /\ f.external = m.external
      /\ f.persistent = m.persistent /\ f.timers.reattach = m.timers.reattach
      /\ f.sound = IF m.sound.via = "ended" THEN Silence ELSE m.sound
  BY <1>1, <1>2 DEF Over, Keeps, Shape
<1>5. m.external => ~m.paused /\ m.sound.via = "daemon" /\ m.sound.pos >= LEN
  BY <1>1, <1>2 DEF AtEnd, Calm, Shape
<1>6. b.timers.restart = "none"
  BY <1>3, <1>4 DEF Stale
<1>7. Route(b, headset)
  BY <1>2, <1>3, <1>4, <1>6 DEF Route, Silence
<1>8. b.sound.via \in {"none", "daemon"} /\ (b.sound.held => m.sound.held /\ m.external)
      /\ (b.external => b.sound = m.sound)
  BY <1>1, <1>2, <1>3, <1>4, <1>5 DEF AtEnd, Silence
<1>9. Calm(b)
  BY <1>2, <1>3, <1>4, <1>5, <1>6, <1>8 DEF Calm
<1> QED  BY <1>3, <1>4, <1>5, <1>6, <1>7, <1>8, <1>9 DEF b, f

\* The timers keep the order.
LEMMA TimerOrdered ==
  ASSUME Typed, Shaped, Ordered, Timer
  PROVE  Route(m', headset') /\ Calm(m') /\ Session'
<1>1. /\ Route(m, headset) /\ Calm(m) /\ Session /\ Shape(m) /\ (state = "stopped" => Still(m))
      /\ Orderly(scen) /\ scen \in Scenario /\ headset \in BOOLEAN /\ m.persistent \in BOOLEAN
      /\ prompts \in Seq(Prompt)
  BY DEF Ordered, Shaped, Typed, Engine
<1>2. headset' = headset /\ scen' = scen
  BY DEF Timer, PartEnds, WatchEnds, RestartFires, PidCaptured, Reattaches, StallSeen,
     StallWatchEnds
<1> DEFINE Goal == Route(m', headset) /\ Calm(m') /\ Session'
<1>3. ASSUME PartEnds  PROVE Goal
  <2> DEFINE b == Bump(Finished(m))
  <2>1. /\ Route(b, headset) /\ Calm(b) /\ ~b.playing /\ b.timers.restart = "none"
        /\ b.persistent = m.persistent /\ (b.external => b.sound.pos >= LEN)
    BY <1>3, FinishedOrdered
  <2>2. m.playing /\ state # "stopped" /\ m.cb = "live"
    BY <1>1, <1>3 DEF PartEnds, Still, Calm
  <2>3. CASE advancing /\ m' = Finished(m) /\ UNCHANGED <<sync, place>>
    <3> DEFINE f == Finished(m)
    <3>1. Over(f, m) /\ AtEnd
      BY <1>3, PartEndsIs
    <3> HIDE DEF f
    <3>2. m' = f
      BY <2>3 DEF f
    <3>3. /\ ~f.playing /\ ~f.paused /\ f.timers.restart = "none" /\ f.external = m.external
          /\ f.persistent = m.persistent /\ f.timers.reattach = m.timers.reattach
          /\ f.sound = IF m.sound.via = "ended" THEN Silence ELSE m.sound
      BY <1>1, <2>2, <3>1 DEF Over, Keeps, Shape
    <3>4. m.external => ~m.paused /\ m.sound.via = "daemon" /\ m.sound.pos >= LEN
      BY <1>1, <3>1 DEF AtEnd, Calm, Shape
    <3>5. Route(f, headset)
      BY <1>1, <3>3 DEF Route, Silence
    <3>6. f.sound.via \in {"none", "daemon"} /\ (f.sound.held => m.sound.held /\ m.external)
          /\ (f.external => f.sound = m.sound)
      BY <1>1, <3>1, <3>3, <3>4 DEF AtEnd, Silence
    <3>7. Calm(f)
      BY <1>1, <3>3, <3>4, <3>6 DEF Calm
    <3>8. prompts # <<>> /\ UNCHANGED <<state, prompts, advancing, scen>>
      BY <1>1, <1>2, <2>3 DEF Session, sync
    <3>9. Session'
      BY <1>1, <3>2, <3>3, <3>4, <3>6, <3>8 DEF Session
    <3> QED  BY <3>2, <3>5, <3>7, <3>9
  <2>4. ASSUME Asks(idx + 1, TRUE, b)  PROVE Goal
    <3>1. m' = b /\ state' = state
          /\ prompts' = Append(prompts, [part |-> idx + 1, pos |-> saved[idx + 1]])
      BY <2>4 DEF Asks
    <3> HIDE DEF b
    <3>2. prompts' # <<>>
      BY <1>1, <3>1
    <3>3. Session'
      BY <1>1, <1>2, <2>1, <2>2, <3>1, <3>2 DEF Session
    <3> QED  BY <2>1, <3>1, <3>3
  <2>5. ASSUME idx < PARTS, Plain(idx + 1, 0, b), b \in Engine, prompts' = prompts  PROVE Goal
    <3>1. idx + 1 \in Part /\ 0 \in Pos
      BY <2>5, MediaAssumption DEF Typed, Part, Pos
    <3> HIDE DEF b
    <3>2. At(b, idx + 1, 0).persistent = m.persistent
      BY <2>1, <2>5, <3>1, AtIs
    <3>3. Ready(At(b, idx + 1, 0))
      BY <3>2, OrderedReady
    <3>4. Starts(m', At(b, idx + 1, 0), "live") /\ state' = "playing" /\ ~advancing'
      BY <2>5 DEF Plain
    <3>5. Route(m', headset) /\ Calm(m') /\ m'.playing /\ ~m'.paused /\ m'.timers.restart = "none"
      BY <1>1, <3>2, <3>3, <3>4, StartsOrdered
    <3>6. Session'
      BY <1>2, <3>4, <3>5 DEF Session
    <3> QED  BY <3>5, <3>6
  <2>6. ASSUME Halts(m', b), state' = "stopped", UNCHANGED <<advancing, prompts>>, ~advancing
        PROVE  Goal
    <3> HIDE DEF b
    <3>1. Ready(b)
      BY <2>1, OrderedReady
    <3>2. Off(m', b) /\ ~m'.playing /\ ~m'.paused /\ m'.timers.restart = "none"
      BY <2>6 DEF Halts, NoTimers
    <3>3. Route(m', headset) /\ Calm(m')
      BY <3>1, <3>2, OffOrdered
    <3>4. Session'
      BY <1>1, <2>6, <3>2 DEF Session, Off
    <3> QED  BY <3>3, <3>4
  <2> HIDE DEF Goal, b
  <2> QED
    <3>1. \/ advancing /\ m' = Finished(m) /\ UNCHANGED <<sync, place>>
          \/ Asks(idx + 1, TRUE, b)
          \/ idx < PARTS /\ Plain(idx + 1, 0, b) /\ b \in Engine /\ prompts' = prompts
          \/ Halts(m', b) /\ state' = "stopped" /\ UNCHANGED <<advancing, prompts>> /\ ~advancing
      BY <1>3, <2>2, PartEndsIs DEF b
    <3>2. ASSUME advancing /\ m' = Finished(m) /\ UNCHANGED <<sync, place>>  PROVE Goal
      BY <2>3, <3>2 DEF Goal
    <3> QED  BY <2>4, <2>5, <2>6, <3>1, <3>2
<1>4. ASSUME WatchEnds  PROVE Goal
  <2>1. UNCHANGED <<state, prompts, advancing>>
    BY <1>4 DEF WatchEnds, sync
  <2>2. Keeps(m', m) /\ Goes(m', m) /\ m'.sound = m.sound
    BY <1>4, WatchEndsIs
  <2>3. Session'
    BY <1>1, <1>2, <2>1, <2>2 DEF Session, Keeps, Goes
  <2> QED  BY <1>1, <2>2, <2>3 DEF Route, Calm, Keeps, Goes
<1>5. ASSUME RestartFires  PROVE Goal
  <2>1. UNCHANGED <<state, prompts, advancing>> /\ m.timers.restart # "none"
    BY <1>5 DEF RestartFires, sync
  <2>2. Starts(m', m, "live")
    BY <1>1, <1>5, <2>1, RestartFiresIs DEF Calm
  <2>3. Route(m', headset) /\ Calm(m') /\ m'.playing /\ ~m'.paused /\ m'.timers.restart = "none"
    BY <1>1, <2>2, StartsOrdered, OrderedReady
  <2>4. Session'
    BY <1>1, <1>2, <2>1, <2>3 DEF Session
  <2> QED  BY <2>3, <2>4
<1>6. ASSUME PidCaptured  PROVE Goal
  <2>1. UNCHANGED <<state, prompts, advancing>> /\ ~Tracked(m)
    BY <1>6 DEF PidCaptured, sync
  <2>2. /\ Keeps(m', m) /\ Goes(m', m) /\ SameSound(m'.sound, m.sound)
        /\ m'.sound.via = m.sound.via /\ m'.sound.pos = m.sound.pos /\ m'.sound.pid
    BY <1>6, PidCapturedIs
  <2>3. Session'
    BY <1>1, <1>2, <2>1, <2>2 DEF Session, Keeps, Goes
  <2> QED  BY <1>1, <2>2, <2>3 DEF Route, Calm, Keeps, Goes, SameSound
<1>7. ASSUME NEW e, Off(m', e), e.persistent = m.persistent, ~m'.playing, ~m'.paused,
             m.playing, m'.timers.restart = Kept(m.cb), UNCHANGED <<state, prompts, advancing>>,
             ~(Direct(scen) /\ "stall" \notin scen.fails), state # "paused"
      PROVE  Goal
  <2>1. m'.timers.restart = "live"
    BY <1>1, <1>7 DEF Calm, Kept
  <2>2. Route(m', headset) /\ Calm(m')
    BY <1>7, <2>1, OffOrdered, OrderedReady
  <2>3. Session'
    BY <1>1, <1>7, <2>1 DEF Session, Off
  <2> QED  BY <2>2, <2>3
<1>8. ASSUME Reattaches  PROVE Goal
  <2>1. UNCHANGED <<state, prompts, advancing>> /\ m.playing /\ m.timers.reattach # NoPos
    BY <1>8 DEF Reattaches, sync
  <2>2. Due(m', m, m.timers.reattach)
    BY <1>8, ReattachesIs
  <2>3. scen.mtk /\ ~scen.headset /\ state # "paused"
    BY <1>1, <2>1 DEF Route, Orderly, Session
  <2> HIDE DEF Goal
  <2> QED  BY <1>7, <2>1, <2>2, <2>3 DEF Due, Direct
<1>9. ASSUME Unwatched(m', m), UNCHANGED <<state, prompts, advancing>>  PROVE Goal
  <2>1. Session'
    BY <1>1, <1>2, <1>9 DEF Session, Keeps, Goes, Unwatched
  <2> QED  BY <1>1, <1>9, <2>1 DEF Route, Calm, Keeps, Goes, Unwatched
<1>10. ASSUME StallSeen  PROVE Goal
  <2>1. UNCHANGED <<state, prompts, advancing>> /\ m.playing /\ ~m.paused /\ m.sound.stuck
    BY <1>10 DEF StallSeen, sync
  <2>2. "stall" \in scen.fails /\ state # "paused"
    BY <1>1, <2>1 DEF Route, Session
  <2>3. CASE Unwatched(m', m)
    BY <1>9, <2>1, <2>3
  <2>4. CASE ~Unwatched(m', m)
    <3> DEFINE e == [m EXCEPT !.retries = @ + 1]
    <3>1. e.persistent = m.persistent
      BY DEF Typed, Engine
    <3>2. Off(m', e) /\ ~m'.playing /\ ~m'.paused /\ m'.timers.restart = Kept(m.cb)
      BY <1>10, <2>4, StallSeenIs
    <3> HIDE DEF Goal, e
    <3>3. Goal
      BY <1>7, <2>1, <2>2, <3>1, <3>2
    <3> QED  BY <3>3 DEF Goal
  <2> QED  BY <2>3, <2>4
<1>11. ASSUME StallWatchEnds  PROVE Goal
  <2>1. UNCHANGED <<state, prompts, advancing>>
    BY <1>11 DEF StallWatchEnds, sync
  <2> HIDE DEF Goal
  <2> QED  BY <1>9, <1>11, <2>1, StallWatchEndsIs
<1> HIDE DEF Goal
<1> QED
  <2>1. Goal
    BY <1>3, <1>4, <1>5, <1>6, <1>8, <1>10, <1>11 DEF Timer
  <2> QED  BY <1>2, <2>1 DEF Goal

\* So do the device's steps.
LEMMA DeviceOrdered ==
  ASSUME Typed, Shaped, Ordered, Device
  PROVE  Route(m', headset') /\ Calm(m') /\ Session'
<1>1. /\ Route(m, headset) /\ Calm(m) /\ Session /\ Shape(m)
      /\ Orderly(scen) /\ m.sound \in SoundSet
  BY DEF Ordered, Shaped, Typed, Engine
<1>2. CASE Hears
  <2>1. UNCHANGED <<scen, headset, state, prompts, advancing>> /\ m.sound.pos < LEN
        /\ m.sound.via \in {"daemon", "pipe"} /\ m.sound.pos \in Pos
    BY <1>1, <1>2 DEF Hears, sync, SoundSet
  <2>2. /\ Keeps(m', m) /\ Goes(m', m) /\ m'.timers = m.timers
        /\ SameSound(m'.sound, m.sound) /\ m'.sound.via = m.sound.via
        /\ m'.sound.pid = m.sound.pid
    BY <1>2, HearsIs
  <2>3. ~(m.external /\ ~m.playing)
    BY <1>1, <2>1, MediaAssumption DEF Session, Pos
  <2>4. Session'
    BY <1>1, <2>1, <2>2, <2>3 DEF Session, Keeps, Goes
  <2> QED  BY <1>1, <2>1, <2>2, <2>4 DEF Route, Calm, Keeps, Goes, SameSound
<1>3. CASE PipeEnds
  <2>1. UNCHANGED <<scen, headset, state, prompts, advancing>>
        /\ m.sound.via = "pipe" /\ m.sound.pid /\ ~m.sound.held
    BY <1>3 DEF PipeEnds, sync
  <2>2. /\ Keeps(m', m) /\ Goes(m', m) /\ m'.timers = m.timers
        /\ SameSound(m'.sound, m.sound) /\ m'.sound.via = "ended"
        /\ m'.sound.pid = m.sound.pid
    BY <1>3, PipeEndsIs
  <2>3. ~m.external
    BY <1>1, <2>1 DEF Shape
  <2>4. Session'
    BY <1>1, <2>1, <2>2, <2>3 DEF Session, Keeps, Goes
  <2> QED  BY <1>1, <2>1, <2>2, <2>4 DEF Route, Calm, Keeps, Goes, SameSound
<1>4. CASE OrphanEnds
  <2>1. UNCHANGED <<scen, headset, state, prompts, advancing>>
    BY <1>4 DEF OrphanEnds, sync
  <2>2. Keeps(m', m) /\ Goes(m', m) /\ m'.timers = m.timers /\ m'.sound = m.sound
    BY <1>4, OrphanEndsIs
  <2>3. Session'
    BY <1>1, <2>1, <2>2 DEF Session, Keeps, Goes
  <2> QED  BY <1>1, <2>1, <2>2, <2>3 DEF Route, Calm, Keeps, Goes
<1>5. CASE HeadsetConnects
  <2>1. UNCHANGED <<scen, m, state, prompts, advancing>> /\ headset'
    BY <1>5 DEF HeadsetConnects, sync
  <2>2. Session'
    BY <1>1, <2>1 DEF Session
  <2> QED  BY <1>1, <2>1, <2>2 DEF Route
<1> QED  BY <1>2, <1>3, <1>4, <1>5 DEF Device

\* A start by the session is in order.
LEMMA PlainOrdered ==
  ASSUME Typed, Ordered, NEW p \in Part, NEW pos \in Pos, Plain(p, pos, m), scen' = scen
  PROVE  Route(m', headset) /\ Calm(m') /\ Session'
<1>1. m \in Engine
  BY DEF Typed
<1>2. At(m, p, pos).persistent = m.persistent
  BY <1>1, AtIs
<1>3. Starts(m', At(m, p, pos), "live") /\ state' = "playing" /\ ~advancing'
  BY DEF Plain
<1>4. Route(m', headset) /\ Calm(m') /\ m'.playing /\ ~m'.paused /\ m'.timers.restart = "none"
  BY <1>2, <1>3, StartsOrdered, OrderedReady
<1>5. Session'
  BY <1>3, <1>4 DEF Session
<1> QED  BY <1>4, <1>5

\* So is a question.
LEMMA AsksOrdered ==
  ASSUME Typed, Ordered, NEW p, Asks(p, advancing, m), scen' = scen
  PROVE  Route(m', headset) /\ Calm(m') /\ Session'
<1>1. m' = m /\ state' = state /\ advancing' = advancing
      /\ prompts' = Append(prompts, [part |-> p, pos |-> saved[p]]) /\ prompts \in Seq(Prompt)
  BY DEF Asks, Typed
<1>2. prompts' # <<>>
  BY <1>1
<1>3. Session'
  BY <1>1, <1>2 DEF Session, Ordered
<1> QED  BY <1>1, <1>3 DEF Ordered

\* What a pause finds, and what it does.
LEMMA PausesOrdered ==
  ASSUME Typed, Shaped, Ordered, UserPauses
  PROVE  Route(m', headset) /\ Calm(m') /\ Session'
<1>1. /\ Route(m, headset) /\ Calm(m) /\ Session /\ Shape(m)
      /\ Orderly(scen) /\ scen \in Scenario /\ m \in Engine
  BY DEF Ordered, Shaped, Typed
<1>2. /\ m' = Paused(m) /\ state = "playing" /\ state' = "paused"
      /\ UNCHANGED <<scen, advancing, prompts>>
      /\ m.timers.restart = "none" /\ Tracked(m) /\ "toggle" \in scen.cmds
  BY HurriesSettled DEF UserPauses, Command, Hurries
<1>3. CASE ~m.playing \/ m.paused
  <2>1. m' = m
    BY <1>1, <1>2, <1>3, PausedIs
  <2>2. Session'
    BY <1>1, <1>2, <1>3, <2>1 DEF Session
  <2> QED  BY <1>1, <2>1, <2>2
<1>4. CASE m.playing /\ ~m.paused
  <2>1. /\ m'.playing /\ m'.paused /\ m'.cb = m.cb /\ m'.persistent = m.persistent
        /\ m'.timers = m.timers /\ IF m.external THEN Releases(m', m) ELSE Holds(m', m)
    BY <1>1, <1>2, <1>4, PausedIs
  <2>2. ~m'.external
    BY <2>1 DEF Releases, Holds
  <2>3. Session'
    BY <1>1, <1>2, <2>1, <2>2 DEF Session
  <2>4. CASE m.external
    BY <1>1, <1>2, <1>4, <2>1, <2>3, <2>4 DEF Route, Calm, Releases, Silence
  <2>5. CASE ~m.external
    <3>1. Holds(m', m) /\ m.sound.via \in {"pipe", "ended"}
      BY <1>1, <1>4, <2>1, <2>5 DEF Calm, Shape, Engine, SoundSet
    <3>2. Calm(m')
      BY <1>1, <1>2, <1>4, <2>1, <2>5, <3>1 DEF Calm, Holds, Tracked
    <3> QED  BY <1>1, <2>1, <2>3, <3>1, <3>2 DEF Route, Holds
  <2> QED  BY <2>4, <2>5
<1> QED  BY <1>3, <1>4

\* What a resume does.
LEMMA ResumesOrdered ==
  ASSUME Typed, Shaped, Ordered, UserResumes
  PROVE  Route(m', headset) /\ Calm(m') /\ Session'
<1>1. /\ Route(m, headset) /\ Calm(m) /\ Session /\ Shape(m)
      /\ Orderly(scen) /\ scen \in Scenario /\ m \in Engine /\ headset \in BOOLEAN
  BY DEF Ordered, Shaped, Typed
<1>2. /\ state = "paused" /\ state' = "playing" /\ UNCHANGED <<scen, advancing, prompts>>
      /\ "toggle" \in scen.cmds
  BY DEF UserResumes, Command
<1>3. PICK r \in Resumes(m) : m' = r.e
  BY DEF UserResumes, Becomes
<1>4. ASSUME NEW e, e.persistent = m.persistent, Starts(m', e, "live")
      PROVE  Route(m', headset) /\ Calm(m') /\ Session'
  <2>1. Route(m', headset) /\ Calm(m') /\ m'.playing /\ ~m'.paused /\ m'.timers.restart = "none"
    BY <1>4, StartsOrdered, OrderedReady
  <2>2. Session'
    BY <1>1, <1>2, <2>1 DEF Session
  <2> QED  BY <2>1, <2>2
<1>5. CASE ~(m.playing /\ m.paused) /\ m' = m
  <2>1. ~m.playing /\ prompts # <<>>
    BY <1>1, <1>2, <1>5 DEF Session
  <2>2. Session'
    BY <1>1, <1>2, <1>5, <2>1 DEF Session
  <2> QED  BY <1>1, <1>5, <2>2
<1>6. CASE m.playing /\ m.paused /\ m.released /\ Starts(m', FromMark(m), m.cb)
  <2>1. FromMark(m).persistent = m.persistent
    BY <1>1 DEF FromMark, Engine
  <2>2. m.cb = "live"
    BY <1>1, <1>6 DEF Calm
  <2> QED  BY <1>4, <1>6, <2>1, <2>2
<1>7. CASE m.playing /\ m.paused /\ ~m.released /\ Continues(m', m)
             /\ (m.sound.pid \/ scen.backend = "ffmpeg_pipe")
  <2>1. m.sound.via \in {"pipe", "ended"} /\ ~m.external
    BY <1>1, <1>7 DEF Calm, Shape, Scenario
  <2>2. Session'
    BY <1>1, <1>2, <1>7, <2>1 DEF Session, Continues
  <2> QED  BY <1>1, <1>7, <2>1, <2>2 DEF Route, Calm, Continues
<1>8. CASE m.playing /\ m.paused /\ Starts(m', m, m.cb)
  <2>1. m.cb = "live"
    BY <1>1, <1>8 DEF Calm
  <2> QED  BY <1>4, <1>8, <2>1
<1> QED  BY <1>1, <1>3, <1>5, <1>6, <1>7, <1>8, ResumesIs

\* What a seek or a skip finds, and what it does.
LEMMA SeekToOrdered ==
  ASSUME Typed, Shaped, Ordered, NEW target \in Pos, NEW want \in Pos, SeekTo(target, want),
         scen' = scen, m.timers.restart = "none",
         state = "paused" => "seek_paused" \in scen.cmds
  PROVE  Route(m', headset) /\ Calm(m') /\ Session'
<1>1. /\ Route(m, headset) /\ Calm(m) /\ Session /\ Shape(m)
      /\ Orderly(scen) /\ scen \in Scenario /\ m \in Engine
  BY DEF Ordered, Shaped, Typed
<1>2. UNCHANGED <<state, prompts, advancing>> /\ prompts = <<>> /\ state # "stopped"
  BY DEF SeekTo, sync, Bare
<1>3. m.playing /\ (state = "paused" => m.paused) /\ (state = "playing" => ~m.paused)
      /\ state \in {"playing", "paused"}
  BY <1>1, <1>2 DEF Session, Typed
<1>4. CASE m' = m
  <2>1. Session'
    BY <1>1, <1>2, <1>4 DEF Session
  <2> QED  BY <1>1, <1>4, <2>1
<1>5. CASE m.external /\ Moves(m', m, target)
  <2>1. ~m.paused /\ state = "playing"
    BY <1>1, <1>3, <1>5 DEF Calm
  <2>2. Session'
    BY <1>1, <1>2, <1>3, <1>5, <2>1 DEF Session, Moves
  <2> QED  BY <1>1, <1>3, <1>5, <2>1, <2>2 DEF Route, Calm, Moves
<1>6. CASE ~m.paused /\ Due(m', m, target) /\ (m.external => "refuse" \in scen.fails)
  <2>1. m'.timers.restart = "live" /\ Off(m', m) /\ ~m'.playing /\ ~m'.paused
    BY <1>1, <1>3, <1>6 DEF Calm, Kept, Due
  <2>2. ~Direct(scen)
    <3>1. m.sound.via # "none"
      BY <1>1, <1>3, <1>6 DEF Calm
    <3> QED  BY <1>1, <1>6, <3>1 DEF Direct, Route, Shape
  <2>3. Route(m', headset) /\ Calm(m')
    BY <2>1, <2>2, OffOrdered, OrderedReady
  <2>4. Session'
    BY <1>1, <1>2, <1>3, <1>6, <2>1 DEF Session, Off
  <2> QED  BY <2>3, <2>4
<1>7. CASE m.paused /\ Waits(m', m, target)
  <2>1. m'.timers.restart = "none" /\ Off(m', m) /\ m'.playing /\ m'.paused /\ m'.cb = "live"
    BY <1>1, <1>3, <1>7 DEF Calm, Waits, NoTimers
  <2>2. state = "paused" /\ "toggle" \in scen.cmds /\ scen.backend = "gst_play"
    BY <1>1, <1>3, <1>7 DEF Calm, Orderly, Scenario
  <2>3. Route(m', headset) /\ Calm(m')
    BY <2>1, <2>2, OffOrdered, OrderedReady
  <2>4. Session'
    BY <1>1, <1>2, <2>1, <2>2 DEF Session, Off
  <2> QED  BY <2>3, <2>4
<1> QED  BY <1>3, <1>4, <1>5, <1>6, <1>7, SeekToIs

\* So do the user's commands.
LEMMA UserOrdered ==
  ASSUME Typed, Shaped, Ordered, User
  PROVE  Route(m', headset') /\ Calm(m') /\ Session'
<1>1. headset' = headset /\ scen' = scen /\ 0 \in Pos
  BY UserCommands, MediaAssumption DEF Command, Pos
<1> DEFINE Goal == Route(m', headset) /\ Calm(m') /\ Session'
<1>2. ASSUME NEW p \in Part, NEW pos \in Pos, Plain(p, pos, m)  PROVE Goal
  BY <1>1, <1>2, PlainOrdered
<1>3. ASSUME NEW p, Asks(p, advancing, m)  PROVE Goal
  BY <1>1, <1>3, AsksOrdered
<1>4. UserPauses \/ UserResumes => Goal
  BY PausesOrdered, ResumesOrdered
<1>5. ASSUME NEW target \in 0..LEN, UserSeeks(target)  PROVE Goal
  <2>1. target \in Pos /\ SeekTo(target, target)
        /\ Command(IF state = "paused" THEN "seek_paused" ELSE "seek")
    BY <1>5, MediaAssumption DEF UserSeeks, Pos
  <2>2. m.timers.restart = "none" /\ (state = "paused" => "seek_paused" \in scen.cmds)
    BY <2>1, HurriesSettled DEF Hurries
  <2> QED  BY <1>1, <2>1, <2>2, SeekToOrdered
<1>6. ASSUME NEW d \in {-1, 1}, UserSkips(d)  PROVE Goal
  <2>1. SeekTo(Upto(GetPosition(m) + d), Upto(place.pos + d)) /\ Command("skip")
        /\ state # "paused"
    BY <1>6 DEF UserSkips
  <2>2. Upto(GetPosition(m) + d) \in Pos /\ Upto(place.pos + d) \in Pos
    BY <1>6, SkipTargets
  <2>3. m.timers.restart = "none"
    BY <2>1, HurriesSettled DEF Hurries
  <2> QED  BY <1>1, <2>1, <2>2, <2>3, SeekToOrdered
<1>7. ASSUME PlayFromStopped  PROVE Goal
  <2>1. state' = "playing" /\ Starts(m', FromStop, "live") /\ UNCHANGED <<advancing, prompts>>
    BY <1>7, PlayFromStoppedIs DEF PlayFromStopped
  <2>2. FromStop.persistent = m.persistent
    BY DEF FromStop, Engine, Typed
  <2>3. Route(m', headset) /\ Calm(m') /\ m'.playing /\ ~m'.paused /\ m'.timers.restart = "none"
    BY <2>1, <2>2, StartsOrdered, OrderedReady
  <2>4. Session'
    BY <1>1, <2>1, <2>3 DEF Session, Ordered
  <2> QED  BY <2>3, <2>4
<1>8. ASSUME UserStops  PROVE Goal
  <2>1. state' = "stopped" /\ Halts(m', Bump(m)) /\ UNCHANGED <<advancing, prompts>>
    BY <1>8, UserStopsIs DEF UserStops
  <2>2. Bump(m).persistent = m.persistent
    BY BumpIs DEF Typed
  <2>3. Off(m', Bump(m)) /\ ~m'.playing /\ ~m'.paused /\ m'.timers.restart = "none"
    BY <2>1 DEF Halts, NoTimers
  <2>4. Route(m', headset) /\ Calm(m')
    BY <2>2, <2>3, OffOrdered, OrderedReady
  <2>5. Session'
    BY <1>1, <2>1, <2>3 DEF Session, Off, Ordered
  <2> QED  BY <2>4, <2>5
<1> HIDE DEF Goal
<1>9. ASSUME NEW p \in Part, UserChooses(p)  PROVE Goal
  BY <1>2, <1>3, <1>9, UserChoosesIs
<1>10. ASSUME NEW p \in Part, SwitchTo(p, advancing, m)  PROVE Goal
  BY <1>1, <1>2, <1>3, <1>10, SwitchToIs
<1>11. ASSUME NEW d \in {-1, 1}, UserSwitches(d)  PROVE Goal
  BY <1>10, <1>11 DEF UserSwitches
<1>12. ASSUME NEW p \in Part, UserPicks(p)  PROVE Goal
  BY <1>10, <1>12 DEF UserPicks
<1>13. ASSUME UserAnswers  PROVE Goal
  <2>1. "cancel" \notin scen.cmds
    BY DEF Ordered, Orderly
  <2> QED  BY <1>2, <1>13, <2>1, UserAnswersIs
<1> QED
  <2>1. Goal
    BY <1>4, <1>5, <1>6, <1>7, <1>8, <1>9, <1>11, <1>12, <1>13 DEF User
  <2> QED  BY <1>1, <2>1 DEF Goal

\* The order of the sessions is kept by every step.
LEMMA OrderedInvariant ==
  ASSUME \A s \in SCENARIOS : Orderly(s)
  PROVE  Spec => []Ordered
<1>1. Init => Ordered
  <2> SUFFICES ASSUME Init PROVE Ordered
    OBVIOUS
  <2>1. Orderly(scen) /\ scen \in Scenario
    BY ScenarioAssumption DEF Init
  <2>2. /\ ~m.playing /\ ~m.paused /\ ~m.external /\ m.persistent = scen.mtk
        /\ m.timers = NoTimers /\ m.sound = Silence /\ state = "stopped" /\ ~advancing
        /\ headset = scen.headset
    BY DEF Init
  <2> QED  BY <2>1, <2>2 DEF Ordered, Route, Calm, Session, NoTimers, Silence, Direct, Scenario
<1>2. Typed /\ Shaped /\ Ordered /\ [Next]_vars => Ordered'
  <2> SUFFICES ASSUME Typed, Shaped, Ordered, [Next]_vars PROVE Ordered'
    OBVIOUS
  <2>1. CASE Next
    <3>1. Route(m', headset') /\ Calm(m') /\ Session'
      BY <2>1, TimerOrdered, DeviceOrdered, UserOrdered DEF Next
    <3>2. scen' = scen
      BY <2>1, Rest
    <3>3. Route(m, headset)' /\ Calm(m)'
      BY <3>1, <3>2 DEF Route, Calm
    <3> QED  BY <3>1, <3>2, <3>3 DEF Ordered
  <2>2. CASE UNCHANGED vars
    BY <2>2 DEF Ordered, Route, Calm, Session, vars, sync
  <2> QED  BY <2>1, <2>2
<1> QED  BY <1>1, <1>2, TypedInvariant, ShapedInvariant, PTL DEF Spec

\* A session that says it plays has sound and a watcher that will tell it of the
\* end, or a restart that is due, or a question open.
THEOREM PlaysOn ==
  ASSUME \A s \in SCENARIOS : Orderly(s)
  PROVE  Spec => []PlayingIsAlive
<1>1. Ordered => PlayingIsAlive
  BY DEF Ordered, PlayingIsAlive, Session, Calm
<1> QED  BY <1>1, OrderedInvariant, PTL

\* A paused session is quiet, and no restart is due.
THEOREM PausesHold ==
  ASSUME \A s \in SCENARIOS : Orderly(s)
  PROVE  Spec => []PausedIsQuiet
<1>1. Typed /\ Shaped /\ Ordered => PausedIsQuiet
  <2> SUFFICES ASSUME Typed, Shaped, Ordered, state = "paused"
               PROVE  ~Sounding /\ m.timers.restart = "none"
    BY DEF PausedIsQuiet
  <2>1. m.sound.pos \in Nat
    BY PosNat DEF Typed, Engine, SoundSet
  <2>2. m.sound.via = "daemon" => ~(m.sound.pos < LEN)
    <3>1. m.sound.via = "daemon" => m.sound.pos >= LEN
      BY DEF Shaped, Shape, Ordered, Session, Calm
    <3> QED  BY <2>1, <3>1, MediaAssumption
  <2>3. m.sound.via = "pipe" => m.sound.held
    BY DEF Shaped, Shape, Ordered, Session, Calm
  <2>4. m.timers.restart = "none"
    BY DEF Ordered, Session
  <2> QED  BY <2>2, <2>3, <2>4 DEF Sounding
<1> QED  BY <1>1, TypedInvariant, ShapedInvariant, OrderedInvariant, PTL

-----------------------------------------------------------------------------
(* The place the listener has come to.                                     *)

\* An orderly session in which what is heard is where the listener is.  The
\* play button of a book with an overlay starts a stopped session from the mark
\* of an old pause; a stream that does not start is restarted from where it was
\* started, and so is one that has no headset, whatever was sought since.
Steady(s) ==
  /\ Orderly(s)
  /\ s.overlay => "toggle" \notin s.cmds
  /\ "stall" \in s.fails => s.cmds \cap {"seek", "skip"} = {}
  /\ s.mtk /\ ~s.headset => s.cmds \cap {"seek", "skip"} = {}

\* The place is that of the sound, of the restart that is due, of the mark of a
\* released daemon, of the seek in a pause, and of the watchdogs.
Placed(x, pl) ==
  /\ pl.pos \in Pos
  /\ x.path = pl.part
  /\ x.sound.via # "none" => /\ x.sound.part = pl.part
                             /\ ~x.sound.deaf => x.sound.pos = pl.pos
  /\ x.sound.via = "ended" => x.sound.pos >= LEN
  /\ x.sound.deaf => scen.mtk /\ ~scen.headset
  /\ x.timers.restart # "none" => x.offset = pl.pos
  /\ x.released => x.mark = pl.pos
  /\ x.playing /\ x.sound.via = "none" /\ ~x.released => x.offset = pl.pos /\ x.mark = pl.pos
  /\ x.sound.via # "none" /\ x.timers.reattach # NoPos =>
       x.sound.deaf /\ x.timers.reattach = pl.pos
  /\ x.sound.stuck => x.timers.stall \in {NoPos, pl.pos}

InPlace == Steady(scen) /\ Placed(m, place)

\* A start from the place is placed.
LEMMA StartsPlaced ==
  ASSUME NEW x, NEW e, NEW cb, NEW pl, Starts(x, e, cb), Ready(e), scen \in Scenario,
         headset \in BOOLEAN, e.path = pl.part, e.offset = pl.pos, pl.pos \in Pos
  PROVE  Placed(x, pl)
<1>1. x.timers.reattach # NoPos => x.sound.deaf
  BY DEF Starts, Ready, Scenario
<1>2. x.sound.deaf => scen.mtk /\ ~scen.headset
  BY DEF Starts, Ready, Scenario
<1> QED  BY <1>1, <1>2 DEF Starts, Placed

\* So is what has nothing to be heard, if what is due is.
LEMMA OffPlaced ==
  ASSUME NEW x, NEW e, NEW pl, Off(x, e), e.path = pl.part, pl.pos \in Pos,
         x.timers.restart # "none" => x.offset = pl.pos,
         x.playing => x.offset = pl.pos /\ x.mark = pl.pos
  PROVE  Placed(x, pl)
BY DEF Off, Placed, Silence

\* An engine at the place is placed by what keeps it.
LEMMA KeepsPlaced ==
  ASSUME NEW x, NEW e, NEW pl, Placed(e, pl), Shape(e), Keeps(x, e), Goes(x, e),
         x.sound.via = e.sound.via, x.sound.pos = e.sound.pos, SameSound(x.sound, e.sound),
         x.offset = e.offset, x.timers.stall \in {NoPos, e.timers.stall}
  PROVE  Placed(x, pl)
BY DEF Placed, Keeps, Goes, SameSound

\* The position that a skip starts from is the place.
LEMMA PositionIsPlace ==
  ASSUME InPlace, m.playing, ~m.paused, m.sound.via # "none", ~m.sound.deaf
  PROVE  GetPosition(m) = place.pos
BY DEF InPlace, Placed, GetPosition

\* The timers keep the place.
LEMMA TimerPlaced ==
  ASSUME Typed, Shaped, Ordered, InPlace, Timer
  PROVE  Placed(m', place')
<1>1. /\ Route(m, headset) /\ Calm(m) /\ Session /\ Shape(m) /\ Placed(m, place)
      /\ Steady(scen) /\ scen \in Scenario /\ headset \in BOOLEAN /\ m.persistent \in BOOLEAN
      /\ place.pos \in Pos /\ m \in Engine /\ m.path = place.part
  BY DEF Ordered, Shaped, Typed, Engine, InPlace, Placed
<1>2. ASSUME PartEnds  PROVE Placed(m', place')
  <2> DEFINE f == Finished(m)
             b == Bump(f)
  <2>1. f \in Engine /\ Over(f, m) /\ m.playing /\ AtEnd
    BY <1>2, PartEndsIs
  <2>2. b \in Engine /\ b.persistent = f.persistent /\ b.path = f.path
    BY <2>1, BumpIs
  <2>3. /\ b.playing = f.playing /\ b.released = f.released /\ b.sound = f.sound
        /\ b.timers.reattach = f.timers.reattach /\ b.timers.stall = f.timers.stall
        /\ b.timers.restart = Stale(f.timers.restart)
    BY <2>1, BumpIs
  <2> HIDE DEF f
  <2>4. Placed(f, place) /\ f.persistent = m.persistent /\ f.path = m.path
    <3>1. m.sound.via # "none" /\ ~m.released /\ m.timers.restart = "none"
      BY <1>1, <2>1 DEF AtEnd, Shape
    <3>2. /\ ~f.playing /\ ~f.released /\ f.timers.restart = "none" /\ f.path = m.path
          /\ f.timers.reattach = m.timers.reattach /\ f.timers.stall = m.timers.stall
          /\ f.persistent = m.persistent
          /\ f.sound = IF m.sound.via = "ended" THEN Silence ELSE m.sound
      BY <2>1, <3>1 DEF Over, Keeps
    <3>3. CASE m.sound.via = "ended"
      BY <1>1, <3>1, <3>2, <3>3 DEF Placed, Silence
    <3>4. CASE m.sound.via # "ended"
      BY <1>1, <3>1, <3>2, <3>4 DEF Placed
    <3> QED  BY <3>2, <3>3, <3>4
  <2>5. f.timers.restart = "none" /\ ~f.playing /\ ~f.released
    BY <1>1, <2>1 DEF Over, Keeps, Shape, AtEnd
  <2> HIDE DEF b
  <2>6. Placed(b, place)
    BY <2>2, <2>3, <2>4, <2>5 DEF Placed, Stale
  <2>7. ASSUME idx < PARTS, Plain(idx + 1, 0, b)  PROVE Placed(m', place')
    <3>1. idx + 1 \in Part /\ 0 \in Pos
      BY <2>7, MediaAssumption DEF Typed, Part, Pos
    <3>2. /\ At(b, idx + 1, 0).persistent = m.persistent
          /\ At(b, idx + 1, 0).path = idx + 1 /\ At(b, idx + 1, 0).offset = 0
      BY <2>2, <2>4, <3>1, AtIs
    <3>3. Ready(At(b, idx + 1, 0))
      BY <3>2, OrderedReady
    <3>4. Starts(m', At(b, idx + 1, 0), "live") /\ place' = [part |-> idx + 1, pos |-> 0]
      BY <2>7 DEF Plain
    <3> QED  BY <1>1, <3>1, <3>2, <3>3, <3>4, StartsPlaced
  <2>8. ASSUME Halts(m', b), place' = place  PROVE Placed(m', place')
    BY <1>1, <2>2, <2>4, <2>8, OffPlaced DEF Halts, NoTimers
  <2>9. \/ m' = f /\ place' = place
        \/ m' = b /\ place' = place
        \/ idx < PARTS /\ Plain(idx + 1, 0, b)
        \/ Halts(m', b) /\ place' = place
    BY <1>2, PartEndsIs DEF b, f, Asks
  <2> QED  BY <2>4, <2>6, <2>7, <2>8, <2>9
<1>3. ASSUME WatchEnds  PROVE Placed(m', place')
  <2>1. place' = place
    BY <1>3 DEF WatchEnds
  <2>2. SameSound(m.sound, m.sound)
    BY DEF SameSound
  <2> QED  BY <1>1, <1>3, <2>1, <2>2, WatchEndsIs, KeepsPlaced
<1>4. ASSUME RestartFires  PROVE Placed(m', place')
  <2>1. place' = place /\ m.offset = place.pos
    BY <1>1, <1>4 DEF RestartFires, Placed
  <2>2. \E cb : Starts(m', m, cb)
    BY <1>4, RestartFiresIs
  <2> QED  BY <1>1, <2>1, <2>2, StartsPlaced, OrderedReady
<1>5. ASSUME PidCaptured  PROVE Placed(m', place')
  <2>1. place' = place
    BY <1>5 DEF PidCaptured
  <2> QED  BY <1>1, <1>5, <2>1, PidCapturedIs, KeepsPlaced
<1>6. ASSUME Reattaches  PROVE Placed(m', place')
  <2>1. place' = place /\ m.playing /\ m.timers.reattach # NoPos
    BY <1>6 DEF Reattaches
  <2>2. Due(m', m, m.timers.reattach)
    BY <1>6, ReattachesIs
  <2>3. ~m.paused
    BY <1>1, <2>1 DEF Route, Calm, Steady, Orderly
  <2>4. m.timers.reattach = place.pos
    BY <1>1, <2>1, <2>3 DEF Calm, Placed
  <2> QED  BY <1>1, <2>1, <2>2, <2>4, OffPlaced DEF Due
<1>7. ASSUME StallSeen  PROVE Placed(m', place')
  <2>1. place' = place /\ m.sound.stuck /\ m.timers.stall # NoPos
    BY <1>7 DEF StallSeen
  <2>2. m.timers.stall = place.pos
    BY <1>1, <2>1 DEF Placed
  <2>3. CASE Unwatched(m', m)
    BY <1>1, <2>1, <2>3, KeepsPlaced DEF Unwatched, SameSound
  <2>4. CASE ~Unwatched(m', m)
    <3> DEFINE e == [m EXCEPT !.retries = @ + 1]
    <3>1. e.path = m.path
      BY <1>1 DEF Engine
    <3>2. Off(m', e) /\ ~m'.playing /\ m'.offset = m.timers.stall
      BY <1>7, <2>4, StallSeenIs
    <3> HIDE DEF e
    <3> QED  BY <1>1, <2>1, <2>2, <3>1, <3>2, OffPlaced
  <2> QED  BY <2>3, <2>4
<1>8. ASSUME StallWatchEnds  PROVE Placed(m', place')
  <2>1. place' = place
    BY <1>8 DEF StallWatchEnds
  <2>2. Unwatched(m', m)
    BY <1>8, StallWatchEndsIs
  <2> QED  BY <1>1, <2>1, <2>2, KeepsPlaced DEF Unwatched, SameSound
<1> QED  BY <1>2, <1>3, <1>4, <1>5, <1>6, <1>7, <1>8 DEF Timer

\* So do the device's steps.
LEMMA DevicePlaced ==
  ASSUME Typed, Shaped, Ordered, InPlace, Device
  PROVE  Placed(m', place')
<1>1. Shape(m) /\ Placed(m, place) /\ place.pos \in Pos
  BY DEF Shaped, InPlace, Placed
<1>2. CASE Hears
  <2>1. /\ m.sound.via \in {"daemon", "pipe"} /\ ~m.sound.stuck /\ m.sound.pos < LEN
        /\ place' = IF m.sound.deaf THEN place ELSE [place EXCEPT !.pos = @ + 1]
    BY <1>2 DEF Hears
  <2>2. /\ Keeps(m', m) /\ Goes(m', m) /\ m'.timers = m.timers
        /\ SameSound(m'.sound, m.sound) /\ m'.sound.via = m.sound.via
        /\ m'.sound.pos = m.sound.pos + 1
    BY <1>2, HearsIs
  <2>3. m.timers.restart = "none" /\ ~m.released
    BY <1>1, <2>1 DEF Shape
  <2>4. CASE m.sound.deaf
    BY <1>1, <2>1, <2>2, <2>3, <2>4 DEF Placed, Keeps, Goes, SameSound
  <2>5. CASE ~m.sound.deaf
    <3>1. m.sound.pos = place.pos
      BY <1>1, <2>1, <2>5 DEF Placed
    <3>2. place'.part = place.part /\ place'.pos = place.pos + 1
      BY <2>1, <2>5 DEF Typed
    <3>3. place'.pos \in Pos
      BY <1>1, <2>1, <3>1, <3>2, MediaAssumption DEF Pos
    <3> QED  BY <1>1, <2>1, <2>2, <2>3, <2>5, <3>1, <3>2, <3>3 DEF Placed, Keeps, Goes, SameSound
  <2> QED  BY <2>4, <2>5
<1>3. CASE PipeEnds
  <2>1. place' = place /\ m.sound.via = "pipe" /\ m.sound.pos >= LEN
    BY <1>3 DEF PipeEnds
  <2>2. /\ Keeps(m', m) /\ Goes(m', m) /\ m'.timers = m.timers /\ m'.offset = m.offset
        /\ SameSound(m'.sound, m.sound) /\ m'.sound.via = "ended"
        /\ m'.sound.pos = m.sound.pos
    BY <1>3, PipeEndsIs
  <2> QED  BY <1>1, <2>1, <2>2 DEF Placed, Keeps, Goes, SameSound
<1>4. CASE OrphanEnds
  <2>1. place' = place
    BY <1>4 DEF OrphanEnds
  <2> QED  BY <1>1, <1>4, <2>1, OrphanEndsIs, KeepsPlaced DEF SameSound
<1>5. CASE HeadsetConnects
  BY <1>1, <1>5 DEF HeadsetConnects
<1> QED  BY <1>2, <1>3, <1>4, <1>5 DEF Device

\* A start by the session is placed.
LEMMA PlainPlaced ==
  ASSUME Typed, Ordered, NEW p \in Part, NEW pos \in Pos, Plain(p, pos, m)
  PROVE  Placed(m', place')
<1>1. m \in Engine /\ scen \in Scenario /\ headset \in BOOLEAN
  BY DEF Typed
<1>2. /\ At(m, p, pos).persistent = m.persistent
      /\ At(m, p, pos).path = p /\ At(m, p, pos).offset = pos
  BY <1>1, AtIs
<1>3. Starts(m', At(m, p, pos), "live") /\ place' = [part |-> p, pos |-> pos]
  BY DEF Plain
<1>4. Ready(At(m, p, pos))
  BY <1>2, OrderedReady
<1> QED  BY <1>1, <1>2, <1>3, <1>4, StartsPlaced

\* A pause leaves the place in the mark, or in what it holds.
LEMMA PausesPlaced ==
  ASSUME Typed, Shaped, Ordered, InPlace, UserPauses
  PROVE  Placed(m', place')
<1>1. /\ Route(m, headset) /\ Calm(m) /\ Shape(m) /\ Placed(m, place)
      /\ Steady(scen) /\ m \in Engine /\ place.pos \in Pos /\ m.path = place.part
  BY DEF Ordered, Shaped, Typed, InPlace, Placed
<1>2. m' = Paused(m) /\ place' = place /\ "toggle" \in scen.cmds
      /\ m.timers.restart = "none"
  BY HurriesSettled DEF UserPauses, Command, Hurries
<1>3. CASE ~m.playing \/ m.paused
  BY <1>1, <1>2, <1>3, PausedIs
<1>4. CASE m.playing /\ ~m.paused
  <2>1. /\ m'.playing /\ m'.paused /\ m'.path = m.path
        /\ m'.timers = m.timers /\ IF m.external THEN Releases(m', m) ELSE Holds(m', m)
    BY <1>1, <1>2, <1>4, PausedIs
  <2>2. m.sound.via # "none" /\ ~m.released /\ ~m.sound.deaf
    BY <1>1, <1>2, <1>4 DEF Calm, Shape, Placed, Steady, Orderly
  <2>3. CASE m.external
    <3>1. GetPosition(m) = place.pos
      BY <1>4, <2>2, PositionIsPlace
    <3> QED  BY <1>1, <1>2, <2>1, <2>3, <3>1 DEF Releases, Placed, Silence
  <2>4. CASE ~m.external
    BY <1>1, <1>2, <2>1, <2>2, <2>4 DEF Holds, Placed
  <2> QED  BY <2>3, <2>4
<1> QED  BY <1>3, <1>4

\* A resume goes on from there.
LEMMA ResumesPlaced ==
  ASSUME Typed, Shaped, Ordered, InPlace, UserResumes
  PROVE  Placed(m', place')
<1>1. /\ Calm(m) /\ Shape(m) /\ Placed(m, place) /\ scen \in Scenario
      /\ m \in Engine /\ place.pos \in Pos /\ m.path = place.part /\ headset \in BOOLEAN
  BY DEF Ordered, Shaped, Typed, InPlace, Placed
<1>2. place' = place
  BY DEF UserResumes
<1>3. PICK r \in Resumes(m) : m' = r.e
  BY DEF UserResumes, Becomes
<1>4. CASE m' = m
  BY <1>1, <1>2, <1>4
<1>5. CASE m.released /\ Starts(m', FromMark(m), m.cb)
  <2>1. m.mark = place.pos /\ m.mark # NoPos
    BY <1>1, <1>5 DEF Placed, Pos, NoPos
  <2>2. /\ FromMark(m).persistent = m.persistent /\ FromMark(m).path = m.path
        /\ FromMark(m).offset = place.pos
    BY <1>1, <2>1 DEF FromMark, Engine
  <2>3. Ready(FromMark(m))
    BY <2>2, OrderedReady
  <2> QED  BY <1>1, <1>2, <1>5, <2>2, <2>3, StartsPlaced
<1>6. CASE m.playing /\ m.paused /\ ~m.released /\ Continues(m', m)
             /\ (m.sound.pid \/ scen.backend = "ffmpeg_pipe")
  BY <1>1, <1>2, <1>6 DEF Continues, Placed
<1>7. CASE m.playing /\ m.paused /\ ~m.released /\ ~m.sound.pid /\ scen.backend # "ffmpeg_pipe"
             /\ Starts(m', m, m.cb)
  <2>1. m.sound.via = "none"
    BY <1>1, <1>7 DEF Calm
  <2>2. m.offset = place.pos
    BY <1>1, <1>7, <2>1 DEF Placed
  <2> QED  BY <1>1, <1>2, <1>7, <2>2, StartsPlaced, OrderedReady
<1> QED  BY <1>1, <1>3, <1>4, <1>5, <1>6, <1>7, ResumesIs

\* A seek goes to the place that the listener wants.
LEMMA SeekToPlaced ==
  ASSUME Typed, Shaped, Ordered, InPlace, NEW target \in Pos, SeekTo(target, target),
         state # "paused" => /\ "stall" \notin scen.fails /\ ~(scen.mtk /\ ~scen.headset)
                             /\ m.timers.restart = "none"
  PROVE  Placed(m', place')
<1>1. /\ Route(m, headset) /\ Calm(m) /\ Session /\ Shape(m) /\ Placed(m, place)
      /\ m \in Engine /\ m.path = place.part
  BY DEF Ordered, Shaped, Typed, InPlace, Placed
<1>2. prompts = <<>> /\ state # "stopped" /\ place'.part = place.part /\ place'.pos = target
  BY DEF SeekTo, sync, Bare, Typed
<1>3. /\ m.playing /\ (state = "paused" => m.paused) /\ (state # "paused" => ~m.paused)
  BY <1>1, <1>2 DEF Session, Typed
<1>4. CASE ~m.paused /\ GetPosition(m) = target /\ m' = m
  <2>1. state # "paused" /\ m.sound.via # "none" /\ ~m.sound.deaf /\ ~m.sound.stuck
    BY <1>1, <1>3, <1>4 DEF Calm, Placed, Route
  <2>2. place.pos = target
    BY <1>3, <1>4, <2>1, PositionIsPlace
  <2> QED  BY <1>1, <1>2, <1>4, <2>2 DEF Placed
<1>5. CASE m.external /\ Moves(m', m, target)
  <2>1. state # "paused" /\ m.sound.via # "none"
    BY <1>1, <1>3, <1>5 DEF Calm, Shape
  <2>2. ~m.sound.stuck /\ m.timers.reattach = NoPos /\ m.timers.restart = "none" /\ ~m.released
        /\ m.sound.via = "daemon"
    BY <1>1, <1>5, <2>1 DEF Route, Shape
  <2> QED  BY <1>1, <1>2, <1>5, <2>1, <2>2 DEF Moves, Placed
<1>6. CASE ~m.paused /\ Due(m', m, target)
  BY <1>1, <1>2, <1>6, OffPlaced DEF Due
<1>7. CASE m.paused /\ Waits(m', m, target) /\ m'.mark = target
  BY <1>1, <1>2, <1>7, OffPlaced DEF Waits, NoTimers
<1> QED  BY <1>3, <1>4, <1>5, <1>6, <1>7, SeekToIs

\* So do the user's commands.
LEMMA UserPlaced ==
  ASSUME Typed, Shaped, Ordered, InPlace, User
  PROVE  Placed(m', place')
<1>1. /\ m \in Engine /\ Placed(m, place) /\ place.pos \in Pos /\ m.path = place.part
      /\ Steady(scen) /\ Route(m, headset) /\ Calm(m) /\ Session /\ 0 \in Pos
  BY MediaAssumption DEF Ordered, Typed, InPlace, Placed, Pos
<1>2. ASSUME NEW p, Asks(p, advancing, m)  PROVE Placed(m', place')
  BY <1>1, <1>2 DEF Asks
<1>3. ASSUME NEW p \in Part, UserChooses(p)  PROVE Placed(m', place')
  BY <1>2, <1>3, UserChoosesIs, PlainPlaced
<1>4. ASSUME NEW p \in Part, SwitchTo(p, advancing, m)  PROVE Placed(m', place')
  BY <1>1, <1>2, <1>4, SwitchToIs, PlainPlaced
<1>5. ASSUME UserAnswers  PROVE Placed(m', place')
  <2>1. "cancel" \notin scen.cmds
    BY DEF Ordered, Orderly
  <2> QED  BY <1>5, <2>1, UserAnswersIs, PlainPlaced
<1>6. ASSUME NEW target \in 0..LEN, UserSeeks(target)  PROVE Placed(m', place')
  <2>1. target \in Pos /\ SeekTo(target, target)
        /\ Command(IF state = "paused" THEN "seek_paused" ELSE "seek")
    BY <1>6, MediaAssumption DEF UserSeeks, Pos
  <2>2. m.timers.restart = "none" /\ (state # "paused" => "seek" \in scen.cmds)
    BY <2>1, HurriesSettled DEF Hurries
  <2> QED  BY <1>1, <2>1, <2>2, SeekToPlaced DEF Steady
<1>7. ASSUME NEW d \in {-1, 1}, UserSkips(d)  PROVE Placed(m', place')
  <2>1. SeekTo(Upto(GetPosition(m) + d), Upto(place.pos + d)) /\ Command("skip")
        /\ state # "paused"
    BY <1>7 DEF UserSkips
  <2>2. m.timers.restart = "none" /\ "skip" \in scen.cmds
    BY <2>1, HurriesSettled DEF Hurries
  <2>3. prompts = <<>> /\ state # "stopped"
    BY <2>1 DEF SeekTo, Bare
  <2>4. m.playing /\ ~m.paused /\ m.sound.via # "none" /\ ~m.sound.deaf
    BY <1>1, <2>1, <2>2, <2>3 DEF Session, Typed, Calm, Placed, Steady
  <2>5. GetPosition(m) = place.pos
    BY <2>4, PositionIsPlace
  <2>6. Upto(GetPosition(m) + d) \in Pos
    BY <1>7, SkipTargets
  <2> QED  BY <1>1, <2>1, <2>2, <2>5, <2>6, SeekToPlaced DEF Steady
<1>8. ~PlayFromStopped
  BY <1>1 DEF PlayFromStopped, Command, Steady
<1>9. ASSUME UserStops  PROVE Placed(m', place')
  <2>1. Halts(m', Bump(m)) /\ place' = place
    BY <1>9, UserStopsIs DEF UserStops
  <2>2. Bump(m).path = m.path
    BY <1>1, BumpIs
  <2> QED  BY <1>1, <2>1, <2>2, OffPlaced DEF Halts, NoTimers
<1>10. ASSUME NEW d \in {-1, 1}, UserSwitches(d)  PROVE Placed(m', place')
  BY <1>4, <1>10 DEF UserSwitches
<1>11. ASSUME NEW p \in Part, UserPicks(p)  PROVE Placed(m', place')
  BY <1>4, <1>11 DEF UserPicks
<1> QED
  BY <1>3, <1>5, <1>6, <1>7, <1>8, <1>9, <1>10, <1>11, PausesPlaced, ResumesPlaced DEF User

\* The place is kept by every step.
LEMMA PlacedInvariant ==
  ASSUME \A s \in SCENARIOS : Steady(s)
  PROVE  Spec => []InPlace
<1>1. \A s \in SCENARIOS : Orderly(s)
  BY DEF Steady
<1>2. Init => InPlace
  <2> SUFFICES ASSUME Init PROVE InPlace
    OBVIOUS
  <2>1. Steady(scen) /\ 0 \in Pos
    BY MediaAssumption DEF Init, Pos
  <2>2. /\ ~m.playing /\ ~m.released /\ m.path = 0 /\ place = [part |-> 0, pos |-> 0]
        /\ m.timers = NoTimers /\ m.sound = Silence
    BY DEF Init
  <2> QED  BY <2>1, <2>2 DEF InPlace, Placed, NoTimers, Silence
<1>3. Typed /\ Shaped /\ Ordered /\ InPlace /\ [Next]_vars => InPlace'
  <2> SUFFICES ASSUME Typed, Shaped, Ordered, InPlace, [Next]_vars PROVE InPlace'
    OBVIOUS
  <2>1. CASE Next
    <3>1. Placed(m', place')
      BY <2>1, TimerPlaced, DevicePlaced, UserPlaced DEF Next
    <3>2. scen' = scen
      BY <2>1, Rest
    <3>3. Placed(m, place)'
      BY <3>1, <3>2 DEF Placed
    <3> QED  BY <3>2, <3>3 DEF InPlace
  <2>2. CASE UNCHANGED vars
    BY <2>2 DEF InPlace, Placed, vars, sync
  <2> QED  BY <2>1, <2>2
<1> QED  BY <1>1, <1>2, <1>3, TypedInvariant, ShapedInvariant, OrderedInvariant, PTL DEF Spec

\* What is heard is what the listener has come to.
THEOREM HeardInPlace ==
  ASSUME \A s \in SCENARIOS : Steady(s)
  PROVE  Spec => []PlaceKept
<1>1. Typed /\ InPlace => PlaceKept
  BY DEF Typed, InPlace, Placed, PlaceKept
<1> QED  BY <1>1, TypedInvariant, PlacedInvariant, PTL

\* Every variable stays in its range, the place in the part.
THEOREM Types ==
  ASSUME \A s \in SCENARIOS : Steady(s)
  PROVE  Spec => []TypeOK
<1>1. Typed /\ InPlace => TypeOK
  <2> SUFFICES ASSUME Typed, InPlace PROVE TypeOK
    OBVIOUS
  <2>1. /\ m.path \in 0..PARTS /\ m.offset \in Pos /\ m.mark \in Pos \cup {NoPos}
        /\ m.cb \in Callbacks /\ m.retries \in 0..2
        /\ m.timers \in TimerSet /\ m.sound \in SoundSet
    BY DEF Typed, Engine
  <2>2. /\ m.timers.restart \in Callbacks \cup {"bare"} /\ m.timers.watch \in Nat
        /\ m.timers.reattach \in Pos \cup {NoPos} /\ m.timers.stall \in Pos \cup {NoPos}
        /\ m.sound.via \in {"none", "daemon", "pipe", "ended"} /\ m.sound.pos \in Pos
    BY <2>1 DEF TimerSet, SoundSet
  <2>3. place \in [part : 0..PARTS, pos : Pos]
    BY DEF Typed, InPlace, Placed
  <2> QED  BY <2>1, <2>2, <2>3 DEF TypeOK, Typed, Prompt
<1> QED  BY <1>1, TypedInvariant, PlacedInvariant, PTL

-----------------------------------------------------------------------------
(* The next part.                                                          *)

\* What the steps that are no commands leave alone: the part and the questions,
\* but for the end of a part.
LEMMA Undirected ==
  ASSUME Typed, Next, cmds' = cmds, ~PartEnds
  PROVE  UNCHANGED sync /\ m'.path = m.path
<1>1. ~User
  <2> SUFFICES ASSUME User PROVE FALSE
    OBVIOUS
  <2>1. cmds' = cmds + 1 /\ cmds \in Nat
    BY UserCommands DEF Command, Typed
  <2> QED  BY <2>1
<1>2. CASE WatchEnds
  BY <1>2, WatchEndsIs DEF WatchEnds, Keeps
<1>3. CASE RestartFires
  BY <1>3, RestartFiresIs DEF RestartFires, Starts
<1>4. CASE PidCaptured
  BY <1>4, PidCapturedIs DEF PidCaptured, Keeps
<1>5. CASE Reattaches
  BY <1>5, ReattachesIs DEF Reattaches, Due, Off
<1>6. CASE StallSeen
  BY <1>6, StallSeenIs DEF StallSeen, Unwatched, Keeps
<1>7. CASE StallWatchEnds
  BY <1>7, StallWatchEndsIs DEF StallWatchEnds, Unwatched, Keeps
<1>8. CASE Hears
  BY <1>8, HearsIs DEF Hears, Keeps
<1>9. CASE PipeEnds
  BY <1>9, PipeEndsIs DEF PipeEnds, Keeps
<1>10. CASE OrphanEnds
  BY <1>10, OrphanEndsIs DEF OrphanEnds, Keeps
<1>11. CASE HeadsetConnects
  BY <1>11 DEF HeadsetConnects
<1> QED
  BY <1>1, <1>2, <1>3, <1>4, <1>5, <1>6, <1>7, <1>8, <1>9, <1>10, <1>11 DEF Next, Timer, Device

\* The row of the playlist is that of the part that plays.  A switch to a part
\* with a saved position moves the row before the question is answered, while
\* the old part plays on: it is left out.
Questionless(s) ==
  \/ s.overlay
  \/ s.cmds \cap {"next", "prev", "pick"} = {}
  \/ s.saved = {} /\ "stop" \notin s.cmds

InRow ==
  /\ Questionless(scen)
  /\ ~advancing => idx = m.path
  /\ scen.saved = {} /\ "stop" \notin scen.cmds => \A p \in Part : saved[p] = 0

\* A start by the session is in its row.
LEMMA PlainInRow ==
  ASSUME NEW p \in Part, NEW pos \in Pos, NEW e \in Engine, Plain(p, pos, e)
  PROVE  idx' = p /\ m'.path = p
BY AtIs DEF Plain, Starts

\* The row is kept by every step.
LEMMA InRowStep ==
  ASSUME Typed, Shaped, Ordered, InRow, Next
  PROVE  InRow'
<1>1. scen' = scen /\ Questionless(scen) /\ m \in Engine /\ 0 \in Pos
      /\ saved \in [Part -> Pos] /\ idx \in 0..PARTS
  BY Rest, MediaAssumption DEF InRow, Typed, Pos
<1> DEFINE None == scen.saved = {} /\ "stop" \notin scen.cmds => \A p \in Part : saved'[p] = 0
           Row  == ~advancing' => idx' = m'.path
<1>2. None /\ Row => InRow'
  BY <1>1 DEF InRow
<1>3. saved' = saved => None
  BY DEF InRow
<1>4. ASSUME NEW p \in Part, saved[p] > 0, ~scen.overlay
      PROVE  scen.cmds \cap {"next", "prev", "pick"} = {}
  BY <1>1, <1>4 DEF InRow, Questionless
<1>5. CASE cmds' = cmds /\ ~PartEnds
  BY <1>2, <1>3, <1>5, Undirected DEF InRow, sync
<1>6. CASE PartEnds
  <2>1. Finished(m).path = m.path /\ Bump(Finished(m)).path = m.path
    BY <1>6, PartEndsIs, BumpIs DEF Over, Keeps
  <2>2. idx < PARTS => idx + 1 \in Part
    BY <1>1, MediaAssumption DEF Part
  <2>3. CASE m' = Finished(m) /\ UNCHANGED <<sync, place>>
    BY <1>2, <1>3, <2>1, <2>3 DEF InRow, sync
  <2>4. ASSUME Asks(idx + 1, TRUE, Bump(Finished(m))), saved' = saved  PROVE InRow'
    BY <1>2, <1>3, <2>4 DEF Asks
  <2>5. ASSUME idx < PARTS, Plain(idx + 1, 0, Bump(Finished(m))), Bump(Finished(m)) \in Engine,
               saved' = saved
        PROVE  InRow'
    BY <1>1, <1>2, <1>3, <2>2, <2>5, PlainInRow
  <2>6. ASSUME Halts(m', Bump(Finished(m))), UNCHANGED <<idx, advancing, saved>>  PROVE InRow'
    BY <1>2, <1>3, <2>1, <2>6 DEF InRow, Halts, Off
  <2> QED  BY <1>6, <2>3, <2>4, <2>5, <2>6, PartEndsIs
<1>7. ASSUME NEW p \in Part, SwitchTo(p, advancing, m),
             scen.cmds \cap {"next", "prev", "pick"} # {}
      PROVE  InRow'
  <2>1. ~Asks(p, advancing, m)
    BY <1>4, <1>7 DEF Asks
  <2> QED  BY <1>1, <1>2, <1>3, <1>7, <2>1, SwitchToIs, PlainInRow
<1>8. CASE User
  <2>1. ASSUME NEW p \in Part, UserChooses(p)  PROVE InRow'
    <3>1. CASE Asks(p, advancing, m) /\ idx' = idx /\ saved' = saved
      BY <1>2, <1>3, <3>1 DEF Asks, InRow
    <3> QED  BY <1>1, <1>2, <1>3, <2>1, <3>1, UserChoosesIs, PlainInRow
  <2>2. ASSUME UserAnswers  PROVE InRow'
    <3>1. "cancel" \notin scen.cmds
      BY DEF Ordered, Orderly
    <3>2. Row
      BY <1>1, <2>2, <3>1, UserAnswersIs, PlainInRow
    <3>3. saved' = saved \/ \E p \in Part : saved' = [saved EXCEPT ![p] = 0]
      BY <2>2, <3>1, UserAnswersIs
    <3>4. None
      BY <1>1, <3>3 DEF InRow
    <3> QED  BY <1>2, <3>2, <3>4
  <2>3. ASSUME UserPauses  PROVE InRow'
    <3>1. m' = Paused(m) /\ UNCHANGED <<idx, advancing, saved>>
      BY <2>3 DEF UserPauses
    <3>2. m'.path = m.path
      BY <1>1, <3>1, PausedIs DEF Engine
    <3> QED  BY <1>2, <1>3, <3>1, <3>2 DEF InRow
  <2>4. ASSUME UserResumes  PROVE InRow'
    <3>1. UNCHANGED <<idx, advancing, saved>> /\ \E r \in Resumes(m) : m' = r.e
      BY <2>4 DEF UserResumes, Becomes
    <3>2. FromMark(m).path = m.path
      BY <1>1 DEF FromMark, Engine
    <3>3. m'.path = m.path
      BY <1>1, <3>1, <3>2, ResumesIs DEF Starts, Continues, Typed
    <3> QED  BY <1>2, <1>3, <3>1, <3>3 DEF InRow
  <2>5. ASSUME PlayFromStopped  PROVE InRow'
    <3>1. UNCHANGED <<idx, advancing, saved>> /\ Starts(m', FromStop, "live")
      BY <2>5, PlayFromStoppedIs DEF PlayFromStopped
    <3>2. FromStop.path = m.path
      BY <1>1 DEF FromStop, Engine
    <3> QED  BY <1>2, <1>3, <3>1, <3>2 DEF InRow, Starts
  <2>6. ASSUME NEW target \in Pos, NEW want, SeekTo(target, want)  PROVE InRow'
    <3>1. UNCHANGED <<idx, advancing, saved>>
      BY <2>6 DEF SeekTo, sync
    <3>2. m'.path = m.path
      BY <2>6, SeekToIs DEF Moves, Due, Waits, Off
    <3> QED  BY <1>2, <1>3, <3>1, <3>2 DEF InRow
  <2>7. ASSUME NEW target \in 0..LEN, UserSeeks(target)  PROVE InRow'
    <3>1. target \in Pos /\ SeekTo(target, target)
      BY <2>7, MediaAssumption DEF UserSeeks, Pos
    <3> QED  BY <2>6, <3>1
  <2>8. ASSUME NEW d \in {-1, 1}, UserSkips(d)  PROVE InRow'
    <3>1. SeekTo(Upto(GetPosition(m) + d), Upto(place.pos + d))
      BY <2>8 DEF UserSkips
    <3>2. Upto(GetPosition(m) + d) \in Pos
      BY <2>8, SkipTargets
    <3> QED  BY <2>6, <3>1, <3>2
  <2>9. ASSUME NEW d \in {-1, 1}, UserSwitches(d)  PROVE InRow'
    <3>1. SwitchTo(idx + d, advancing, m) /\ idx + d \in Part
          /\ scen.cmds \cap {"next", "prev", "pick"} # {}
      BY <2>9 DEF UserSwitches, Command
    <3> QED  BY <1>7, <3>1
  <2>10. ASSUME NEW p \in Part, UserPicks(p)  PROVE InRow'
    <3>1. SwitchTo(p, advancing, m) /\ scen.cmds \cap {"next", "prev", "pick"} # {}
      BY <2>10 DEF UserPicks, Command
    <3> QED  BY <1>7, <3>1
  <2>11. ASSUME UserStops  PROVE InRow'
    <3>1. "stop" \in scen.cmds /\ UNCHANGED <<idx, advancing>>
      BY <2>11 DEF UserStops, Command
    <3>2. m'.path = m.path
      BY <1>1, <2>11, UserStopsIs, BumpIs DEF Halts, Off
    <3> QED  BY <1>2, <3>1, <3>2 DEF InRow
  <2> QED
    BY <1>8, <2>1, <2>2, <2>3, <2>4, <2>5, <2>7, <2>8, <2>9, <2>10, <2>11 DEF User
<1>9. ~User => cmds' = cmds
  BY DEF Next, Timer, Device, PartEnds, WatchEnds, RestartFires, PidCaptured, Reattaches,
     StallSeen, StallWatchEnds, Hears, PipeEnds, OrphanEnds, HeadsetConnects
<1> QED  BY <1>5, <1>6, <1>8, <1>9

\* The row of the sessions.
LEMMA InRowInvariant ==
  ASSUME \A s \in SCENARIOS : Steady(s) /\ Questionless(s)
  PROVE  Spec => []InRow
<1>1. \A s \in SCENARIOS : Orderly(s)
  BY DEF Steady
<1>2. Init => InRow
  BY DEF Init, InRow
<1>3. Typed /\ Shaped /\ Ordered /\ InRow /\ [Next]_vars => InRow'
  <2> SUFFICES ASSUME Typed, Shaped, Ordered, InRow, [Next]_vars PROVE InRow'
    OBVIOUS
  <2>1. CASE UNCHANGED vars
    BY <2>1 DEF InRow, vars, sync
  <2> QED  BY <2>1, InRowStep
<1> QED  BY <1>1, <1>2, <1>3, TypedInvariant, ShapedInvariant, OrderedInvariant, PTL DEF Spec

\* A part is left on its own for the next one only, and at its end.
THEOREM PartsInTurn ==
  ASSUME \A s \in SCENARIOS : Steady(s) /\ Questionless(s)
  PROVE  Spec => AdvanceIsNext
<1>1. (\A s \in SCENARIOS : Steady(s)) /\ (\A s \in SCENARIOS : Orderly(s))
  BY DEF Steady
<1> DEFINE Left == cmds' = cmds /\ (m'.path # m.path \/ Len(prompts') > Len(prompts))
                     /\ ~m.sound.deaf
           Turn == place.part = m.path /\ place.pos >= LEN /\ idx' = place.part + 1
           Turns == Left => Turn
<1>2. Typed /\ Shaped /\ Ordered /\ InPlace /\ InRow /\ [Next]_vars => Turns
  <2> SUFFICES ASSUME Typed, Shaped, Ordered, InPlace, InRow, [Next]_vars, Left PROVE Turn
    OBVIOUS
  <2>1. prompts \in Seq(Prompt)
    BY DEF Typed
  <2>2. ~(Len(prompts) > Len(prompts))
    BY <2>1
  <2>3. Next /\ PartEnds
    BY <2>2, Undirected DEF sync, vars
  <2>4. Finished(m).path = m.path /\ Bump(Finished(m)).path = m.path /\ AtEnd
    BY <2>3, PartEndsIs, BumpIs DEF Over, Keeps
  <2>5. idx < PARTS /\ ~advancing /\ idx' = idx + 1
    <3>1. ~(m' = Finished(m) /\ UNCHANGED <<sync, place>>)
      BY <2>2, <2>4 DEF sync
    <3>2. ~(Halts(m', Bump(Finished(m))) /\ prompts' = prompts)
      BY <2>2, <2>4 DEF Halts, Off
    <3>3. idx < PARTS /\ ~advancing
          /\ (idx' = idx + 1 \/ Plain(idx + 1, 0, Bump(Finished(m))))
      BY <2>3, <3>1, <3>2, PartEndsIs
    <3> QED  BY <3>3 DEF Plain
  <2>6. m.path = place.part /\ idx = m.path
    BY <2>5 DEF InPlace, Placed, InRow
  <2>7. place.pos >= LEN
    BY <2>4 DEF InPlace, Placed, AtEnd
  <2> QED  BY <2>5, <2>6, <2>7
<1>3. Turns <=>
        ((cmds' = cmds /\ (m'.path # m.path \/ Len(prompts') > Len(prompts))
          /\ ~m.sound.deaf) =>
        /\ place.part = m.path /\ place.pos >= LEN
        /\ idx' = place.part + 1)
  OBVIOUS
<1> HIDE DEF Turns
<1> QED
  BY <1>1, <1>2, <1>3, TypedInvariant, ShapedInvariant, OrderedInvariant, PlacedInvariant,
     InRowInvariant, PTL DEF Spec, AdvanceIsNext

-----------------------------------------------------------------------------
(* The position that a stop saves.                                         *)

\* The engine has no older mark of a pause when the session stops: a pause and
\* a stop meet over the daemon only, which is marked at every pause.
Saves(s) ==
  /\ Direct(s) \/ ~({"toggle", "stop"} \subseteq s.cmds)
  /\ s.mtk /\ ~s.headset => "stop" \notin s.cmds

\* A session that runs has a part, and the mark of who stops while a restart is
\* pending is the place.
Marked ==
  /\ Saves(scen)
  /\ state # "stopped" => m.path \in Part
  /\ ~scen.patient /\ "stop" \in scen.cmds =>
       (m.timers.restart # "none" \/ m.sound.stuck => m.mark \in {NoPos, place.pos})

\* What the mark and the place are after a start.
LEMMA PlainMarked ==
  ASSUME NEW p \in Part, NEW pos \in Pos, NEW e \in Engine, Plain(p, pos, e)
  PROVE  m'.path = p /\ m'.mark = place'.pos
BY AtIs DEF Plain, Starts

\* Only a start of the session, or the play button, begins one; and that has a
\* part.
LEMMA PathStep ==
  ASSUME Typed, Ordered, Marked, Next
  PROVE  state' # "stopped" => m'.path \in Part
<1>1. (state # "stopped" => m.path \in Part) /\ m \in Engine /\ 0 \in Pos /\ idx \in 0..PARTS
      /\ scen \in Scenario /\ headset \in BOOLEAN
  BY MediaAssumption DEF Marked, Typed, Pos
<1>2. CASE cmds' = cmds /\ ~PartEnds
  BY <1>1, <1>2, Undirected DEF sync
<1>3. CASE PartEnds
  <2>1. Finished(m).path = m.path /\ Bump(Finished(m)).path = m.path
    BY <1>3, PartEndsIs, BumpIs DEF Over, Keeps
  <2>2. idx < PARTS => idx + 1 \in Part
    BY <1>1, MediaAssumption DEF Part
  <2>3. CASE m' = Finished(m) /\ UNCHANGED <<sync, place>>
    BY <1>1, <2>1, <2>3 DEF sync
  <2>4. CASE Asks(idx + 1, TRUE, Bump(Finished(m)))
    BY <1>1, <2>1, <2>4 DEF Asks
  <2>5. CASE idx < PARTS /\ Plain(idx + 1, 0, Bump(Finished(m))) /\ Bump(Finished(m)) \in Engine
    BY <1>1, <2>2, <2>5, PlainMarked
  <2>6. CASE state' = "stopped"
    BY <2>6
  <2> QED  BY <1>3, <2>3, <2>4, <2>5, <2>6, PartEndsIs
<1>4. CASE User
  <2>1. ASSUME NEW p \in Part, NEW pos \in Pos, Plain(p, pos, m)  PROVE m'.path \in Part
    BY <1>1, <2>1, PlainMarked
  <2>2. ASSUME NEW p, Asks(p, advancing, m)  PROVE state' # "stopped" => m'.path \in Part
    BY <1>1, <2>2 DEF Asks
  <2>3. ASSUME NEW p \in Part, UserChooses(p)  PROVE state' # "stopped" => m'.path \in Part
    BY <2>1, <2>2, <2>3, UserChoosesIs
  <2>4. ASSUME NEW p \in Part, SwitchTo(p, advancing, m)
        PROVE  state' # "stopped" => m'.path \in Part
    BY <1>1, <2>1, <2>2, <2>4, SwitchToIs
  <2>5. ASSUME UserAnswers  PROVE state' # "stopped" => m'.path \in Part
    BY <1>1, <2>1, <2>5, UserAnswersIs
  <2>6. ASSUME UserPauses  PROVE m'.path \in Part
    <3>1. m' = Paused(m) /\ state = "playing"
      BY <2>6 DEF UserPauses
    <3> QED  BY <1>1, <3>1, PausedIs
  <2>7. ASSUME UserResumes  PROVE m'.path \in Part
    <3>1. state = "paused" /\ \E r \in Resumes(m) : m' = r.e
      BY <2>7 DEF UserResumes, Becomes
    <3>2. FromMark(m).path = m.path
      BY <1>1 DEF FromMark, Engine
    <3>3. m'.path = m.path
      BY <1>1, <3>1, <3>2, ResumesIs DEF Starts, Continues
    <3> QED  BY <1>1, <3>1, <3>3
  <2>8. ASSUME PlayFromStopped  PROVE m'.path \in Part
    <3>1. m.path # 0 /\ Starts(m', FromStop, "live")
      BY <2>8, PlayFromStoppedIs DEF PlayFromStopped
    <3>2. FromStop.path = m.path /\ m.path \in 0..PARTS
      BY <1>1 DEF FromStop, Engine
    <3>3. m.path \in Part
      BY <3>1, <3>2, MediaAssumption DEF Part
    <3> QED  BY <3>1, <3>2, <3>3 DEF Starts
  <2>9. ASSUME NEW target \in Pos, NEW want, SeekTo(target, want)  PROVE m'.path \in Part
    <3>1. state # "stopped"
      BY <2>9 DEF SeekTo
    <3>2. m'.path = m.path
      BY <2>9, SeekToIs DEF Moves, Due, Waits, Off
    <3> QED  BY <1>1, <3>1, <3>2
  <2>10. ASSUME NEW target \in 0..LEN, UserSeeks(target)  PROVE m'.path \in Part
    <3>1. target \in Pos /\ SeekTo(target, target)
      BY <2>10, MediaAssumption DEF UserSeeks, Pos
    <3> QED  BY <2>9, <3>1
  <2>11. ASSUME NEW d \in {-1, 1}, UserSkips(d)  PROVE m'.path \in Part
    <3>1. SeekTo(Upto(GetPosition(m) + d), Upto(place.pos + d))
      BY <2>11 DEF UserSkips
    <3>2. Upto(GetPosition(m) + d) \in Pos
      BY <2>11, SkipTargets
    <3> QED  BY <2>9, <3>1, <3>2
  <2>12. ASSUME NEW d \in {-1, 1}, UserSwitches(d)  PROVE state' # "stopped" => m'.path \in Part
    BY <2>4, <2>12 DEF UserSwitches
  <2>13. ASSUME NEW p \in Part, UserPicks(p)  PROVE state' # "stopped" => m'.path \in Part
    BY <2>4, <2>13 DEF UserPicks
  <2>14. UserStops => state' = "stopped"
    BY DEF UserStops
  <2> QED
    BY <1>4, <2>3, <2>5, <2>6, <2>7, <2>8, <2>10, <2>11, <2>12, <2>13, <2>14 DEF User
<1>5. ~User => cmds' = cmds
  BY DEF Next, Timer, Device, PartEnds, WatchEnds, RestartFires, PidCaptured, Reattaches,
     StallSeen, StallWatchEnds, Hears, PipeEnds, OrphanEnds, HeadsetConnects
<1> QED  BY <1>2, <1>3, <1>4, <1>5

\* Who does not wait has no seeks, or no restarts: the mark is kept.
LEMMA MarkStep ==
  ASSUME Typed, Shaped, Ordered, InPlace, Marked, Next, Ordered', Shaped',
         ~scen.patient, "stop" \in scen.cmds,
         m'.timers.restart # "none" \/ m'.sound.stuck
  PROVE  m'.mark \in {NoPos, place'.pos}
<1>1. /\ Route(m, headset) /\ Calm(m) /\ Shape(m) /\ m \in Engine /\ 0 \in Pos /\ idx \in 0..PARTS
      /\ Steady(scen) /\ Saves(scen)
      /\ m.timers.restart # "none" \/ m.sound.stuck => m.mark \in {NoPos, place.pos}
  BY MediaAssumption DEF Ordered, Shaped, Typed, Marked, InPlace, Pos
<1>2. scen.cmds \cap Hurries = {}
  <2>1. scen' = scen
    BY Rest
  <2>2. ~(Direct(scen) /\ "stall" \notin scen.fails)
    BY <2>1 DEF Ordered, Route
  <2> QED  BY <1>1, <2>2 DEF Steady, Orderly
<1>3. CASE PartEnds
  <2>1. m.playing /\ AtEnd /\ m.timers.restart = "none"
    BY <1>1, <1>3, PartEndsIs DEF Shape
  <2>2. /\ Finished(m).mark = m.mark /\ Finished(m).timers.restart = "none"
        /\ Finished(m).sound.stuck => m.sound.stuck
    BY <1>3, <2>1, PartEndsIs DEF Over, Keeps, Silence
  <2>3. /\ Bump(Finished(m)).mark = m.mark /\ Bump(Finished(m)).timers.restart = "none"
        /\ Bump(Finished(m)).sound.stuck => m.sound.stuck
    BY <1>3, <2>2, PartEndsIs, BumpIs DEF Stale
  <2>4. idx < PARTS => idx + 1 \in Part
    BY <1>1, MediaAssumption DEF Part
  <2>5. CASE m' = Finished(m) /\ place' = place
    BY <1>1, <2>2, <2>5
  <2>6. CASE Asks(idx + 1, TRUE, Bump(Finished(m)))
    BY <1>1, <2>3, <2>6 DEF Asks
  <2>7. CASE idx < PARTS /\ Plain(idx + 1, 0, Bump(Finished(m))) /\ Bump(Finished(m)) \in Engine
    BY <1>1, <2>4, <2>7, PlainMarked
  <2>8. CASE Halts(m', Bump(Finished(m)))
    BY <2>8 DEF Halts, Off, NoTimers, Silence
  <2> QED  BY <1>3, <2>5, <2>6, <2>7, <2>8, PartEndsIs
<1>4. CASE WatchEnds
  BY <1>1, <1>4, WatchEndsIs DEF WatchEnds, Keeps
<1>5. CASE RestartFires
  BY <1>1, <1>5, RestartFiresIs DEF RestartFires, Starts
<1>6. CASE PidCaptured
  BY <1>1, <1>6, PidCapturedIs DEF PidCaptured, Keeps, SameSound
<1>7. ~Reattaches
  BY <1>1 DEF Reattaches, Route, Saves
<1>8. CASE StallSeen
  BY <1>1, <1>8, StallSeenIs DEF StallSeen, Unwatched, Keeps
<1>9. CASE StallWatchEnds
  BY <1>1, <1>9, StallWatchEndsIs DEF StallWatchEnds, Unwatched, Keeps
<1>10. CASE Hears
  <2>1. ~m.sound.stuck /\ m.sound.via # "none"
    BY <1>10 DEF Hears
  <2>2. m.timers.restart = "none"
    BY <1>1, <2>1 DEF Shape
  <2> QED  BY <1>10, <2>1, <2>2, HearsIs DEF SameSound
<1>11. CASE PipeEnds
  BY <1>1, <1>11, PipeEndsIs DEF PipeEnds, Keeps, SameSound
<1>12. CASE OrphanEnds
  BY <1>1, <1>12, OrphanEndsIs DEF OrphanEnds, Keeps
<1>13. CASE HeadsetConnects
  BY <1>1, <1>13 DEF HeadsetConnects
<1>14. CASE User
  <2>1. ~UserPauses /\ ~UserResumes /\ ~PlayFromStopped
    BY <1>2 DEF UserPauses, UserResumes, PlayFromStopped, Command, Hurries
  <2>2. \A target \in 0..LEN : ~UserSeeks(target)
    BY <1>2 DEF UserSeeks, Command, Hurries
  <2>3. \A d \in {-1, 1} : ~UserSkips(d)
    BY <1>2 DEF UserSkips, Command, Hurries
  <2>4. ASSUME NEW p \in Part, NEW pos \in Pos, Plain(p, pos, m)
        PROVE  m'.mark \in {NoPos, place'.pos}
    BY <1>1, <2>4, PlainMarked
  <2>5. ASSUME NEW p, Asks(p, advancing, m)  PROVE m'.mark \in {NoPos, place'.pos}
    BY <1>1, <2>5 DEF Asks
  <2>6. ASSUME NEW p \in Part, UserChooses(p)  PROVE m'.mark \in {NoPos, place'.pos}
    BY <2>4, <2>5, <2>6, UserChoosesIs
  <2>7. ASSUME NEW p \in Part, SwitchTo(p, advancing, m)  PROVE m'.mark \in {NoPos, place'.pos}
    BY <1>1, <2>4, <2>5, <2>7, SwitchToIs
  <2>8. ASSUME UserAnswers  PROVE m'.mark \in {NoPos, place'.pos}
    BY <1>1, <2>4, <2>8, UserAnswersIs
  <2>9. ~UserStops
    BY UserStopsIs DEF Halts, Off, NoTimers, Silence
  <2>10. ASSUME NEW d \in {-1, 1}, UserSwitches(d)  PROVE m'.mark \in {NoPos, place'.pos}
    BY <2>7, <2>10 DEF UserSwitches
  <2>11. ASSUME NEW p \in Part, UserPicks(p)  PROVE m'.mark \in {NoPos, place'.pos}
    BY <2>7, <2>11 DEF UserPicks
  <2> QED
    BY <1>14, <2>1, <2>2, <2>3, <2>6, <2>8, <2>9, <2>10, <2>11 DEF User
<1> QED
  BY <1>3, <1>4, <1>5, <1>6, <1>7, <1>8, <1>9, <1>10, <1>11, <1>12, <1>13, <1>14
     DEF Next, Timer, Device

\* The marks of the sessions.
LEMMA MarkedInvariant ==
  ASSUME \A s \in SCENARIOS : Steady(s) /\ Saves(s)
  PROVE  Spec => []Marked
<1>1. (\A s \in SCENARIOS : Steady(s)) /\ (\A s \in SCENARIOS : Orderly(s))
  BY DEF Steady
<1>2. Init => Marked
  <2> SUFFICES ASSUME Init PROVE Marked
    OBVIOUS
  <2>1. Saves(scen) /\ state = "stopped" /\ m.mark = NoPos
    BY DEF Init
  <2> QED  BY <2>1 DEF Marked
<1>3. Typed /\ Shaped /\ Ordered /\ InPlace /\ Marked /\ [Next]_vars /\ Shaped' /\ Ordered'
        => Marked'
  <2> SUFFICES ASSUME Typed, Shaped, Ordered, InPlace, Marked, [Next]_vars, Shaped', Ordered'
               PROVE  Marked'
    OBVIOUS
  <2>1. CASE Next
    <3>1. scen' = scen
      BY <2>1, Rest
    <3>2. state' # "stopped" => m'.path \in Part
      BY <2>1, PathStep
    <3>3. ~scen.patient /\ "stop" \in scen.cmds =>
            (m'.timers.restart # "none" \/ m'.sound.stuck => m'.mark \in {NoPos, place'.pos})
      BY <2>1, MarkStep
    <3> QED  BY <3>1, <3>2, <3>3 DEF Marked
  <2>2. CASE UNCHANGED vars
    BY <2>2 DEF Marked, vars, sync
  <2> QED  BY <2>1, <2>2
<1> QED
  BY <1>1, <1>2, <1>3, TypedInvariant, ShapedInvariant, OrderedInvariant, PlacedInvariant,
     PTL DEF Spec

\* Where the engine is when a session stops that no question covers.
LEMMA StoppedAtPlace ==
  ASSUME Typed, Shaped, Ordered, InPlace, Marked, UserStops, prompts = <<>>
  PROVE  GetPosition(m) = place.pos
<1>1. /\ Route(m, headset) /\ Calm(m) /\ Session /\ Shape(m) /\ Placed(m, place)
      /\ Steady(scen) /\ Saves(scen) /\ m \in Engine /\ place.pos \in Pos
  BY DEF Ordered, Shaped, Typed, Marked, InPlace, Placed
<1>2. state \in {"playing", "paused"} /\ "stop" \in scen.cmds /\ (scen.patient => Settled)
  BY DEF UserStops, Command, Typed
<1>3. place.pos # NoPos
  BY <1>1 DEF Pos, NoPos
<1>4. ~m.sound.deaf
  BY <1>1, <1>2 DEF Placed, Saves
<1>5. CASE m.playing /\ ~m.paused
  <2>1. m.sound.via # "none"
    BY <1>1, <1>5 DEF Calm
  <2> QED  BY <1>4, <1>5, <2>1, PositionIsPlace
<1>6. CASE m.playing /\ m.paused
  <2>1. "toggle" \in scen.cmds
    BY <1>1, <1>6 DEF Calm
  <2>2. m.sound.via = "none"
    <3>1. Direct(scen)
      BY <1>1, <1>2, <2>1 DEF Saves
    <3> QED  BY <1>1, <1>6, <3>1 DEF Route, Calm, Shape
  <2>3. m.mark = place.pos
    BY <1>1, <1>6, <2>2 DEF Placed
  <2> QED  BY <1>3, <1>6, <2>3 DEF GetPosition
<1>7. CASE ~m.playing
  <2>1. m.timers.restart = "live" /\ ~scen.patient
    BY <1>1, <1>2, <1>7 DEF Session, Settled
  <2>2. m.offset = place.pos
    BY <1>1, <2>1 DEF Placed
  <2>3. m.mark \in {NoPos, place.pos}
    BY <1>2, <2>1 DEF Marked
  <2> QED  BY <1>7, <2>2, <2>3 DEF GetPosition
<1> QED  BY <1>5, <1>6, <1>7 DEF Engine

\* A stop saves the place the listener has come to.
THEOREM StopSavesPlace ==
  ASSUME \A s \in SCENARIOS : Steady(s) /\ Saves(s)
  PROVE  Spec => SavedIsPlace
<1>1. (\A s \in SCENARIOS : Steady(s)) /\ (\A s \in SCENARIOS : Orderly(s))
  BY DEF Steady
<1> DEFINE Saving == (state # "stopped" /\ state' = "stopped" /\ cmds' # cmds /\ prompts = <<>>
                       /\ place.pos > 0)
                      => saved'[place.part] = place.pos
<1>2. Typed /\ Shaped /\ Ordered /\ InPlace /\ Marked /\ [Next]_vars => Saving
  <2> SUFFICES ASSUME Typed, Shaped, Ordered, InPlace, Marked, [Next]_vars,
                      state # "stopped", state' = "stopped", cmds' # cmds, prompts = <<>>,
                      place.pos > 0
               PROVE  saved'[place.part] = place.pos
    OBVIOUS
  <2>1. User
    BY DEF vars, Next, Timer, Device, PartEnds, WatchEnds, RestartFires, PidCaptured, Reattaches,
       StallSeen, StallWatchEnds, Hears, PipeEnds, OrphanEnds, HeadsetConnects
  <2>2. ASSUME NEW p \in Part, UserChooses(p)  PROVE FALSE
    BY <2>2, UserChoosesIs DEF Asks, Plain
  <2>3. ASSUME NEW p \in Part, SwitchTo(p, advancing, m)  PROVE FALSE
    BY <2>3, SwitchToIs DEF Asks, Plain
  <2>4. ~UserAnswers /\ ~UserPauses /\ ~UserResumes /\ ~PlayFromStopped
    BY UserAnswersIs DEF UserPauses, UserResumes, PlayFromStopped, Plain
  <2>5. \A target, want : ~SeekTo(target, want)
    BY DEF SeekTo, sync
  <2>6. UserStops
    BY <2>1, <2>2, <2>3, <2>4, <2>5 DEF User, UserSeeks, UserSkips, UserSwitches, UserPicks
  <2>7. GetPosition(m) = place.pos
    BY <2>6, StoppedAtPlace
  <2>8. m.path = place.part /\ m.path \in Part /\ saved \in [Part -> Pos]
    BY DEF InPlace, Placed, Marked, Typed
  <2> QED  BY <2>6, <2>7, <2>8, UserStopsIs
<1>3. Saving <=> ((state # "stopped" /\ state' = "stopped" /\ cmds' # cmds /\ prompts = <<>>
                    /\ place.pos > 0)
                   => saved'[place.part] = place.pos)
  OBVIOUS
<1> HIDE DEF Saving
<1> QED
  BY <1>1, <1>2, <1>3, TypedInvariant, ShapedInvariant, OrderedInvariant, PlacedInvariant,
     MarkedInvariant, PTL DEF Spec, SavedIsPlace

=============================================================================
