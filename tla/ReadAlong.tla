----------------------------- MODULE ReadAlong -----------------------------
(***************************************************************************)
(* A read-aloud session: the sentence controller (synccontroller.lua), the *)
(* playback half of the engine (ttsengine.lua play, pause, resume, stop    *)
(* and the completion poll of the audioout path), the client's command     *)
(* timeouts (audioout.lua) and, in outline, the two processes they drive:  *)
(* the synthesiser behind the prefetch queue (PiperQueue) and the daemon   *)
(* (AudioOut), of which only the playlist is kept.                         *)
(*                                                                         *)
(* Everything of the plugin runs on the one thread of the user interface:  *)
(* a handler or a timer runs to its end before the next one.  A handler    *)
(* that calls start, readNextSentence, beginSentencePlayback or stop is    *)
(* cut at that call: pc names the call being run, `again' the calls of     *)
(* readNextSentence left for after it, and every handler waits for pc to   *)
(* be "idle".  The synthesiser and the daemon move at any time.            *)
(*                                                                         *)
(* Timers carry what their closures captured: the generation at which they *)
(* were made and the sentence.  A book is PAGES pages of SENTENCES         *)
(* sentences whose texts differ.                                           *)
(***************************************************************************)
EXTENDS Integers, Sequences, FiniteSets

CONSTANTS
  PAGES, SENTENCES,   \* the book
  SCENARIOS,          \* the kinds of session: see Scenario
  MAX_FAULTS          \* failures of the daemon or the link (bounds the model only)

ASSUME BookAssumption == /\ PAGES \in Nat \ {0}
                         /\ SENTENCES \in Nat \ {0}
                         /\ MAX_FAULTS \in Nat

Commands == {"start", "stop", "pause", "resume", "overlay",
             "bar_next", "media_next", "media_prev", "rate"}

\* What a session is given: the voice ("piper" answers later through the
\* prefetch queue, "espeak" within the call, "abandoned" is espeak for a piper
\* that proved too slow), whether synthesis may fail, whether espeak is there
\* to stand in for piper, whether pages are turned (auto_advance), whether the
\* engine has used the daemon before, whether a daemon that is gone can always be
\* started, the commands the user gives and how many (the number bounds the model
\* only).
Scenario == [voice : {"piper", "espeak", "abandoned"}, fails : BOOLEAN,
             fallback : BOOLEAN, advance : BOOLEAN, warm : BOOLEAN,
             starts : BOOLEAN, cmds : SUBSET Commands, max : Nat]

ASSUME ScenarioAssumption == SCENARIOS \subseteq Scenario

VARIABLES
  scen,                                   \* the scenario, fixed
  \* controller
  state, page, total, idx, gen, highest, turnGen, userPaused, overlayPaused,
  group,        \* the play in progress: first sentence, number, boundary reached
  warmedUp,     \* piper has delivered in this session
  pc, arg, again,
  \* pending timers
  waits,        \* polls for a queued sentence
  synths,       \* polls of an on-demand synthesis
  chain,        \* generation of the pending next-sentence timer; 0 none
  turn,         \* the pending page-turn poll: its generation (0 none), and
                \* whether the view has moved
  \* engine
  speaking, engPaused, playGen, poll, baseline, onComplete, active,
  \* prefetch queue: what it holds for each sentence of the page
  status,
  \* daemon
  up, clips, done, dPaused,
  \* the user and the failures
  overlay, cmds, faults,
  due           \* history: the sentence the listener is to hear next

control == <<state, page, total, idx, gen, highest, turnGen, userPaused,
             overlayPaused, group, warmedUp>>
calls   == <<pc, arg, again>>
timers  == <<waits, synths, chain, turn>>
engine  == <<speaking, engPaused, playGen, poll, baseline, onComplete, active>>
daemon  == <<up, clips, done, dPaused>>
env     == <<overlay, cmds, faults>>
vars    == <<scen, control, calls, timers, engine, status, daemon, env, due>>

Idx == 1..SENTENCES
NoGroup == [first |-> 0, n |-> 0, bnd |-> 0]
NoPlay  == [gen |-> 0, first |-> 0, n |-> 0]
NoTurn  == [gen |-> 0, moved |-> FALSE]
None    == [page |-> 0, s |-> 0]
Empty   == [i \in Idx |-> "none"]

Init ==
  /\ scen \in SCENARIOS
  /\ state = "stopped" /\ page = 1 /\ total = 0 /\ idx = 0 /\ gen = 0
  /\ highest = 0 /\ turnGen = 0 /\ userPaused = FALSE /\ overlayPaused = FALSE
  /\ group = NoGroup /\ warmedUp = FALSE
  /\ pc = "idle" /\ arg = None /\ again = 0
  /\ waits = {} /\ synths = {} /\ chain = 0 /\ turn = NoTurn
  /\ speaking = FALSE /\ engPaused = FALSE /\ playGen = 0 /\ poll = 0
  /\ baseline = 0 /\ onComplete = NoPlay /\ active = scen.warm
  /\ status = Empty
  /\ up = TRUE /\ clips = <<>> /\ done = 0 /\ dPaused = FALSE
  /\ overlay = FALSE /\ cmds = 0 /\ faults = 0
  /\ due = [page |-> 1, s |-> 1]

Heard  == group.first + group.bnd         \* current_sentence
Undone == [first |-> Heard, n |-> 1, bnd |-> 0]   \* _cleanConcatFiles

-----------------------------------------------------------------------------
(* The calls of a handler.                                                 *)

\* The handler ends, unless its caller still has a readNextSentence to make.
Return ==
  /\ pc' = IF again > 0 THEN "next" ELSE "idle"
  /\ again' = IF again > 0 THEN again - 1 ELSE 0
  /\ UNCHANGED arg

Call(p) == pc' = p /\ UNCHANGED <<arg, again>>

CallBegin(x) == pc' = "begin" /\ arg' = x /\ UNCHANGED again

After(x) == [x EXCEPT !.s = @ + 1]

\* A sentence that could not be spoken is passed over.
Pass(x) == due' = IF due = x THEN After(x) ELSE due

This(i) == [page |-> page, s |-> i]

\* TTSEngine:stop.  Without a play behind it the engine does not know that
\* there is a daemon to stop.
StopIfSpeaking ==
  /\ speaking' = FALSE /\ engPaused' = FALSE
  /\ playGen' = playGen + 1
  /\ poll' = 0
  /\ clips' = IF speaking /\ active /\ up THEN <<>> ELSE clips
  /\ status' = Empty
  /\ UNCHANGED <<baseline, onComplete, active, up, done, dPaused>>

EngineStop ==
  /\ speaking' = FALSE /\ engPaused' = FALSE
  /\ playGen' = playGen + 1
  /\ poll' = 0
  /\ clips' = IF active /\ up THEN <<>> ELSE clips
  /\ status' = Empty
  /\ UNCHANGED <<baseline, onComplete, active, up, done, dPaused>>

-----------------------------------------------------------------------------
(* start: parse the page and read its first sentence.                      *)

Start ==
  /\ pc = "start"
  /\ total' = SENTENCES /\ idx' = 0 /\ gen' = gen + 1 /\ highest' = 0
  /\ state' = "loading"
  /\ playGen' = playGen + 1
  /\ Call("next")
  /\ UNCHANGED <<scen, page, turnGen, userPaused, overlayPaused, group, warmedUp,
                 timers, speaking, engPaused, poll, baseline, onComplete, active,
                 status, daemon, env, due>>

(* readNextSentence.                                                       *)

Rejected == highest # 0 /\ idx + 1 <= highest

AtPageEnd == pc = "next" /\ ~Rejected /\ idx + 1 > total

\* Nothing to read: a callback that comes late for a sentence dispatched before,
\* or the end of a page that is not to be turned.
ReadNothing ==
  /\ \/ pc = "next" /\ Rejected /\ Return /\ UNCHANGED idx
     \/ AtPageEnd /\ ~scen.advance /\ Call("stop") /\ idx' = idx + 1
  /\ UNCHANGED <<scen, state, page, total, gen, highest, turnGen, userPaused,
                 overlayPaused, group, warmedUp, timers, engine, status, daemon,
                 env, due>>

\* tryStart compares the text and the place before and after the turn.
TextTrusted == TRUE
ViewMoves == page < PAGES

\* The page is read: turn it (advanceToNextPage) and poll for the new text.
TurnPage ==
  /\ AtPageEnd /\ scen.advance
  /\ idx' = idx + 1
  /\ state' = "loading"
  /\ gen' = gen + 1
  /\ turnGen' = turnGen + 1
  /\ turn' = [gen |-> turnGen + 1, moved |-> ViewMoves]
  /\ page' = IF page < PAGES THEN page + 1 ELSE page
  /\ status' = [i \in Idx |-> IF scen.voice = "piper" /\ page < PAGES
                                THEN "queued" ELSE "none"]
  /\ due' = IF page < PAGES /\ due = [page |-> page, s |-> SENTENCES + 1]
              THEN [page |-> page + 1, s |-> 1] ELSE due
  /\ Return
  /\ UNCHANGED <<scen, total, highest, userPaused, overlayPaused, group, warmedUp,
                 waits, synths, chain, engine, daemon, env>>

Reading == pc = "next" /\ ~Rejected /\ idx + 1 <= total

ReadingRest == <<scen, page, total, gen, highest, turnGen, userPaused,
                 overlayPaused, group, synths, chain, turn, engine, daemon, env>>

\* espeak synthesises within the call.
SpeakNow ==
  /\ Reading /\ scen.voice # "piper"
  /\ idx' = idx + 1 /\ state' = "loading"
  /\ CallBegin(This(idx + 1))
  /\ UNCHANGED <<ReadingRest, warmedUp, waits, status, due>>

\* On failure the callback reads on, and so does the caller when synthesize
\* has returned false.
SpeakFails ==
  /\ Reading /\ scen.voice = "espeak" /\ scen.fails
  /\ idx' = idx + 1 /\ state' = "loading"
  /\ pc' = "next" /\ again' = again + 1 /\ UNCHANGED arg
  /\ Pass(This(idx + 1))
  /\ UNCHANGED <<ReadingRest, warmedUp, waits, status>>

\* Where espeak stands in for good, a sentence it cannot speak is passed over.
SkipSentence ==
  /\ Reading /\ scen.voice = "abandoned" /\ scen.fails
  /\ idx' = idx + 1 /\ state' = "loading"
  /\ Call("next")
  /\ Pass(This(idx + 1))
  /\ UNCHANGED <<ReadingRest, warmedUp, waits, status>>

\* The queue holds the sentence ready.
UsePrefetched ==
  /\ Reading /\ scen.voice = "piper" /\ status[idx + 1] = "ready"
  /\ idx' = idx + 1 /\ state' = "loading"
  /\ warmedUp' = TRUE
  /\ status' = [status EXCEPT ![idx + 1] = "none"]
  /\ CallBegin(This(idx + 1))
  /\ UNCHANGED <<ReadingRest, waits, due>>

\* The sentence is on its way, or is queued now with those after it: wait for
\* it, or while piper has delivered nothing yet let espeak speak this one.
AwaitPiper ==
  /\ Reading /\ scen.voice = "piper" /\ status[idx + 1] # "ready"
  /\ idx' = idx + 1 /\ state' = "loading"
  /\ status' = [i \in Idx |-> IF i > idx /\ status[i] = "none"
                                THEN "queued" ELSE status[i]]
  /\ \/ /\ scen.fallback /\ ~warmedUp
        /\ CallBegin(This(idx + 1))
        /\ UNCHANGED waits
     \/ /\ waits' = waits \cup
             {[gen |-> gen, x |-> This(idx + 1),
               via |-> IF status[idx + 1] = "queued" THEN "prefetch" ELSE "queue"]}
        /\ Return
  /\ UNCHANGED <<ReadingRest, warmedUp, due>>

-----------------------------------------------------------------------------
(* beginSentencePlayback and TTSEngine:play.                               *)

\* The sentences after the index that join the stream: what is there already.
MayJoin(n) ==
  \A i \in (idx + 1)..(idx + n - 1) :
     i <= total /\ (scen.voice = "piper" => status[i] = "ready")

Play(n) == [gen |-> gen + 1, first |-> arg.s, n |-> n]

BeginRest == <<scen, page, total, idx, turnGen, userPaused, overlayPaused,
               warmedUp, timers, env, due>>

Begun(n) ==
  /\ pc = "begin"
  /\ MayJoin(n)
  /\ state' = "playing"
  /\ gen' = gen + 1
  /\ highest' = arg.s
  /\ group' = [first |-> arg.s, n |-> n, bnd |-> 0]

\* The sentences of the group leave the queue, those after it enter it.
Prefetched(n) ==
  status' = [i \in Idx |->
    IF scen.voice # "piper" \/ i <= idx THEN status[i]
    ELSE IF i < idx + n THEN "none"
    ELSE IF status[i] = "none" /\ total > 0 THEN "queued" ELSE status[i]]

\* The daemon's count when the clip was queued.
Baseline == done'

\* The daemon, started anew if it is gone, takes the clip.
PlayAccepted ==
  \E n \in 1..SENTENCES :
    /\ Begun(n) /\ Prefetched(n)
    /\ speaking' = TRUE /\ engPaused' = FALSE
    /\ playGen' = playGen + 1 /\ poll' = playGen + 1
    /\ onComplete' = Play(n)
    /\ active' = TRUE
    /\ up' = TRUE
    /\ clips' = Append(IF up THEN clips ELSE <<>>, [x |-> arg, n |-> n])
    /\ done' = IF up THEN done ELSE 0
    /\ dPaused' = (up /\ dPaused)
    /\ baseline' = Baseline
    /\ Return
    /\ UNCHANGED BeginRest

FailsRest == <<scen, page, total, idx, turnGen, userPaused, overlayPaused,
               warmedUp, timers, overlay, cmds, due, status, baseline>>

\* The daemon, started anew if it is gone, refuses the clip, or the command times
\* out at the client and the daemon still obeys it.  The stop that follows goes
\* to the daemon only if the engine has played before.
PlayFails ==
  \E n \in 1..SENTENCES :
    /\ Begun(n)
    /\ faults < MAX_FAULTS /\ faults' = faults + 1
    /\ speaking' = FALSE /\ engPaused' = FALSE
    /\ playGen' = playGen + 1 /\ poll' = 0
    /\ onComplete' = Play(n)
    /\ up' = TRUE
    /\ LET old == IF up THEN clips ELSE <<>>
       IN  clips' \in {old, Append(old, [x |-> arg, n |-> n])}
    /\ done' = IF up THEN done ELSE 0
    /\ dPaused' = (up /\ dPaused)
    /\ Call("stop")
    /\ UNCHANGED <<FailsRest, active>>

\* The daemon is gone and does not come up again: the engine forgets that it has
\* played through it, and stays `speaking` until the stop that follows.
StartFails ==
  \E n \in 1..SENTENCES :
    /\ Begun(n) /\ ~up /\ ~scen.starts
    /\ speaking' = TRUE /\ engPaused' = FALSE
    /\ playGen' = playGen + 1 /\ poll' = 0
    /\ onComplete' = Play(n)
    /\ active' = FALSE
    /\ Call("stop")
    /\ UNCHANGED <<FailsRest, faults, daemon>>

-----------------------------------------------------------------------------
(* stop.                                                                   *)

Stop ==
  /\ pc = "stop"
  /\ state' = "stopped"
  /\ chain' = 0
  /\ EngineStop
  /\ total' = 0 /\ idx' = 0 /\ highest' = 0
  /\ userPaused' = FALSE /\ overlayPaused' = FALSE
  /\ turnGen' = turnGen + 1
  /\ group' = NoGroup /\ warmedUp' = FALSE
  /\ Return
  /\ UNCHANGED <<scen, page, gen, waits, synths, turn, env, due>>

-----------------------------------------------------------------------------
(* Timers.                                                                 *)

\* _playViaEspeakOrSkip.
EspeakOrSkip(x) ==
  \/ scen.fallback /\ CallBegin(x) /\ UNCHANGED due
  \/ (scen.fails \/ ~scen.fallback) /\ Call("next") /\ Pass(x)

TimerRest == <<scen, control, engine, daemon, env, chain, turn>>

StaleByState(w) == state = "stopped"
StaleByGeneration(w) == w.gen # gen
Stale(w) == state = "stopped" \/ w.gen # gen

\* waitForPiperPrefetch and waitForPiperSynth.
WaitIsStale(w) ==
  /\ pc = "idle" /\ w \in waits /\ Stale(w)
  /\ waits' = waits \ {w}
  /\ UNCHANGED <<TimerRest, calls, synths, status, due>>

WaitDelivers(w) ==
  /\ pc = "idle" /\ w \in waits /\ ~Stale(w)
  /\ status[w.x.s] = "ready"
  /\ waits' = waits \ {w}
  /\ status' = [status EXCEPT ![w.x.s] = "none"]
  /\ warmedUp' = (warmedUp \/ w.via = "prefetch")
  /\ CallBegin(w.x)
  /\ UNCHANGED <<scen, state, page, total, idx, gen, highest, turnGen, userPaused,
                 overlayPaused, group, engine, daemon, env, chain, turn, synths,
                 due>>

\* The entry failed or is gone: piper is asked once more for this sentence
\* alone, or espeak stands in.
WaitFails(w) ==
  /\ pc = "idle" /\ w \in waits /\ ~Stale(w)
  /\ status[w.x.s] \in {"failed", "none"}
  /\ waits' = waits \ {w}
  /\ \/ /\ w.via = "prefetch"
        /\ synths' = synths \cup {w.x}
        /\ UNCHANGED <<calls, due>>
     \/ EspeakOrSkip(w.x) /\ UNCHANGED synths
  /\ UNCHANGED <<TimerRest, status>>

\* Too long a wait: 150 s or 90 s.
WaitTimesOut(w) ==
  /\ pc = "idle" /\ w \in waits /\ ~Stale(w)
  /\ scen.fails /\ status[w.x.s] = "queued"
  /\ waits' = waits \ {w}
  /\ EspeakOrSkip(w.x)
  /\ UNCHANGED <<TimerRest, synths, status>>

\* The callback of synthesize: it asks for no generation and no state.
SynthDone(x) ==
  /\ pc = "idle" /\ x \in synths
  /\ synths' = synths \ {x}
  /\ \/ CallBegin(x) /\ UNCHANGED due
     \/ EspeakOrSkip(x)
  /\ UNCHANGED <<TimerRest, waits, status>>

\* The timer between two sentences.
ChainUnchecked == state # "stopped"
ChainIsDue == chain = gen /\ state # "stopped"

ChainFires ==
  /\ pc = "idle" /\ chain # 0
  /\ chain' = 0
  /\ IF ChainIsDue THEN Call("next") ELSE UNCHANGED calls
  /\ UNCHANGED <<scen, control, waits, synths, turn, engine, status, daemon, env,
                 due>>

\* tryStart: the view shows the new page, or has not changed and never will.
TurnFires ==
  /\ pc = "idle" /\ turn # NoTurn
  /\ turn' = NoTurn
  /\ IF state = "stopped" \/ turn.gen # turnGen THEN UNCHANGED calls
     ELSE Call(IF turn.moved THEN "start" ELSE "stop")
  /\ UNCHANGED <<scen, control, waits, synths, chain, engine, status, daemon, env,
                 due>>

-----------------------------------------------------------------------------
(* The completion poll of TTSEngine:play.                                  *)

PollDue == pc = "idle" /\ poll # 0 /\ poll = playGen /\ speaking

PollFails(failed) ==
  /\ PollDue /\ failed
  /\ speaking' = FALSE /\ poll' = 0
  /\ Call("stop")
  /\ UNCHANGED <<scen, control, timers, engPaused, playGen, baseline, onComplete,
                 active, status, daemon, overlay, cmds, due>>

\* The link is lost, the sink swallows the sound or has stopped moving.
LinkFails == faults < MAX_FAULTS /\ faults' = faults + 1 /\ PollFails(TRUE)

\* Eight status requests without an answer.
UnreachableForever == PollFails(FALSE) /\ UNCHANGED faults
DaemonUnreachable == PollFails(~up) /\ UNCHANGED faults

\* The daemon is there and its position stands still for six seconds.
RenderStalls == PollFails(up /\ ~engPaused /\ clips # <<>> /\ dPaused)
                /\ UNCHANGED faults

\* onPlaybackComplete and the completion callback.
PlayCompletes ==
  /\ PollDue /\ up /\ done > baseline /\ ~engPaused
  /\ speaking' = FALSE /\ playGen' = playGen + 1 /\ poll' = 0
  /\ IF onComplete.gen = gen
       THEN /\ idx' = idx + (onComplete.n - 1)
            /\ chain' = gen
            /\ group' = Undone
       ELSE UNCHANGED <<idx, chain, group>>
  /\ UNCHANGED <<scen, state, page, total, gen, highest, turnGen, userPaused,
                 overlayPaused, warmedUp, calls, waits, synths, turn, engPaused,
                 baseline, onComplete, active, status, daemon, env, due>>

-----------------------------------------------------------------------------
(* The sync loop: sentence boundaries within a play, menus over the page.  *)

SyncTick == pc = "idle" /\ state # "stopped" /\ group # NoGroup

SyncRest == <<scen, page, total, idx, gen, highest, turnGen, warmedUp, calls,
              timers, playGen, speaking, poll, baseline, onComplete, active,
              status, up, clips, done, env, due>>

PauseEngine(yes) ==
  IF speaking /\ engPaused # yes
    THEN engPaused' = yes /\ dPaused' = IF active /\ up THEN yes ELSE dPaused
    ELSE UNCHANGED <<engPaused, dPaused>>

CrossBoundary ==
  /\ SyncTick /\ ~overlay /\ ~overlayPaused /\ state = "playing"
  /\ speaking /\ up /\ clips # <<>>
  /\ group.bnd < group.n - 1
  /\ group' = [group EXCEPT !.bnd = @ + 1]
  /\ UNCHANGED <<state, userPaused, overlayPaused, engPaused, dPaused, SyncRest>>

\* pause(true)
OverlayPauses ==
  /\ SyncTick /\ overlay /\ ~overlayPaused
  /\ overlayPaused' = TRUE
  /\ IF state = "playing" THEN state' = "paused" /\ PauseEngine(TRUE)
                          ELSE UNCHANGED <<state, engPaused, dPaused>>
  /\ UNCHANGED <<userPaused, group, SyncRest>>

\* resume(true)
OverlayResumesEngine ==
  /\ SyncTick /\ ~overlay /\ overlayPaused
  /\ overlayPaused' = FALSE
  /\ state' = IF state = "paused" /\ ~userPaused THEN "playing" ELSE state
  /\ PauseEngine(FALSE)
  /\ UNCHANGED <<userPaused, group, SyncRest>>

OverlayResumes ==
  /\ SyncTick /\ ~overlay /\ overlayPaused
  /\ overlayPaused' = FALSE
  /\ IF state = "paused" /\ ~userPaused
       THEN state' = "playing" /\ PauseEngine(FALSE)
       ELSE UNCHANGED <<state, engPaused, dPaused>>
  /\ UNCHANGED <<userPaused, group, SyncRest>>

-----------------------------------------------------------------------------
(* The user.                                                               *)

Command(c) ==
  /\ pc = "idle" /\ c \in scen.cmds
  /\ cmds < scen.max /\ cmds' = cmds + 1
  /\ UNCHANGED <<overlay, faults>>

\* restartFromStopped, or the menu entry: from the top of the page.
UserStart ==
  /\ Command("start") /\ state = "stopped"
  /\ due' = This(1)
  /\ Call("start")
  /\ UNCHANGED <<scen, control, timers, engine, status, daemon>>

UserStop ==
  /\ Command("stop") /\ Call("stop")
  /\ UNCHANGED <<scen, control, timers, engine, status, daemon, due>>

UserRest == <<scen, page, total, idx, gen, highest, turnGen, overlayPaused, group,
              warmedUp, calls, timers, playGen, speaking, poll, baseline,
              onComplete, active, status, up, clips, done, due>>

UserPause ==
  /\ Command("pause") /\ state = "playing"
  /\ state' = "paused" /\ userPaused' = TRUE
  /\ PauseEngine(TRUE)
  /\ UNCHANGED UserRest

UserResume ==
  /\ Command("resume") /\ state = "paused"
  /\ state' = "playing" /\ userPaused' = FALSE
  /\ PauseEngine(FALSE)
  /\ UNCHANGED UserRest

\* A menu opens over the page, or closes.
Menu ==
  /\ pc = "idle" /\ "overlay" \in scen.cmds
  /\ cmds < scen.max /\ cmds' = cmds + 1
  /\ overlay' = ~overlay
  /\ UNCHANGED <<scen, control, calls, timers, engine, status, daemon, faults, due>>

\* Where the jump goes: the sentence after or before the one heard, or, for a
\* new speech rate, that sentence again.
TargetUnfloored(c) ==
  LET current == IF group.bnd > 0 THEN Heard ELSE idx IN
  IF c \in {"bar_next", "media_next"} THEN current + 1
  ELSE IF c = "media_prev" THEN current - 1
  ELSE IF Heard > 0 THEN Heard ELSE idx
Target(c) ==
  LET current == IF group.bnd > 0 THEN Heard ELSE idx IN
  IF c \in {"bar_next", "media_next"} THEN current + 1
  ELSE IF c = "media_prev" THEN (IF current < 2 THEN 1 ELSE current - 1)
  ELSE IF Heard > 0 THEN Heard ELSE idx

\* The buttons of the bar act in every state of a session, the keys of a
\* headset while it plays or is paused, a change of rate while it plays.
MayJump(c) ==
  /\ total > 0 /\ state # "stopped"
  /\ c \in {"media_next", "media_prev"} => state \in {"playing", "paused"}
  /\ c = "rate" => state = "playing" /\ Target(c) \in Idx

\* nextSentence, prevSentence, _restartFromCurrentSentence.
UserJumps ==
  \E c \in {"bar_next", "media_next", "media_prev", "rate"} :
    /\ Command(c) /\ MayJump(c)
    /\ EngineStop
    /\ highest' = 0 /\ idx' = Target(c) - 1
    /\ group' = Undone
    /\ due' = IF Target(c) <= SENTENCES THEN This(Target(c))
              ELSE IF due.page > page THEN due
              ELSE [page |-> page, s |-> SENTENCES + 1]
    /\ Call("next")
    /\ UNCHANGED <<scen, state, page, total, gen, turnGen, userPaused,
                   overlayPaused, warmedUp, timers>>

-----------------------------------------------------------------------------
(* The other processes.                                                    *)

Synthesises ==
  /\ \E i \in Idx :
       /\ status[i] = "queued"
       /\ \E r \in {"ready"} \cup (IF scen.fails THEN {"failed"} ELSE {}) :
            status' = [status EXCEPT ![i] = r]
  /\ UNCHANGED <<scen, control, calls, timers, engine, daemon, env, due>>

\* The clip at the head is heard to its end; a paused daemon's clock stands.
DaemonPlays ==
  /\ up /\ clips # <<>> /\ ~dPaused
  /\ clips' = Tail(clips) /\ done' = done + 1
  /\ due' = [Head(clips).x EXCEPT !.s = @ + Head(clips).n]
  /\ UNCHANGED <<scen, control, calls, timers, engine, status, up, dPaused, env>>

DaemonDies ==
  /\ up /\ faults < MAX_FAULTS /\ faults' = faults + 1
  /\ up' = FALSE /\ clips' = <<>> /\ done' = 0 /\ dPaused' = FALSE
  /\ UNCHANGED <<scen, control, calls, timers, engine, status, overlay, cmds, due>>

-----------------------------------------------------------------------------
(* Next.                                                                   *)

Calls == \/ Start \/ ReadNothing \/ TurnPage \/ SpeakNow \/ SpeakFails
         \/ SkipSentence \/ UsePrefetched \/ AwaitPiper \/ PlayAccepted \/ PlayFails
         \/ StartFails \/ Stop

Waits == \E w \in waits : WaitIsStale(w) \/ WaitDelivers(w) \/ WaitFails(w) \/ WaitTimesOut(w)

Timers == \/ Waits
          \/ \E x \in synths : SynthDone(x)
          \/ ChainFires \/ TurnFires

Polls == DaemonUnreachable \/ RenderStalls \/ PlayCompletes

Syncs == CrossBoundary \/ OverlayPauses \/ OverlayResumes

User == UserStart \/ UserStop \/ UserPause \/ UserResume \/ Menu \/ UserJumps

Next == \/ Calls \/ Timers \/ Polls \/ LinkFails \/ Syncs \/ User
        \/ Synthesises \/ DaemonPlays \/ DaemonDies

\* The UI loop runs every call to its end and every timer when it is due, the
\* synthesiser ends, and the daemon plays what it holds.
Fairness == /\ WF_vars(Calls)
            /\ WF_vars(Timers)
            /\ WF_vars(Polls)
            /\ WF_vars(Synthesises)
            /\ WF_vars(DaemonPlays)

Spec == Init /\ [][Next]_vars /\ Fairness
-----------------------------------------------------------------------------
(* Properties.                                                             *)

Sentence == [page : 0..PAGES, s : Nat]

TypeOK ==
  /\ state \in {"stopped", "loading", "playing", "paused"}
  /\ page \in 1..PAGES /\ total \in {0, SENTENCES} /\ idx \in Nat
  /\ highest \in 0..SENTENCES /\ gen \in Nat /\ turnGen \in Nat
  /\ userPaused \in BOOLEAN /\ overlayPaused \in BOOLEAN /\ warmedUp \in BOOLEAN
  /\ group \in [first : 0..SENTENCES, n : 0..SENTENCES, bnd : 0..SENTENCES]
  /\ pc \in {"idle", "start", "next", "begin", "stop"} /\ arg \in Sentence
  /\ again \in Nat
  /\ waits \subseteq [gen : Nat, x : Sentence, via : {"prefetch", "queue"}]
  /\ synths \subseteq Sentence
  /\ chain \in Nat /\ turn \in [gen : Nat, moved : BOOLEAN]
  /\ speaking \in BOOLEAN /\ engPaused \in BOOLEAN /\ active \in BOOLEAN
  /\ playGen \in Nat /\ poll \in Nat /\ baseline \in Nat
  /\ onComplete \in [gen : Nat, first : 0..SENTENCES, n : 0..SENTENCES]
  /\ status \in [Idx -> {"none", "queued", "ready", "failed"}]
  /\ up \in BOOLEAN /\ dPaused \in BOOLEAN /\ done \in Nat
  /\ clips \in Seq([x : Sentence, n : Idx])
  /\ overlay \in BOOLEAN /\ cmds \in 0..scen.max /\ faults \in 0..MAX_FAULTS
  /\ due \in Sentence

\* espeak that fails has readNextSentence called twice (SpeakFails).
MayDouble == scen.voice = "espeak" /\ scen.fails

\* When a session has stopped, by the user or by a failure, nothing speaks any
\* more: neither the engine nor a clip left in the daemon, and no timer of the
\* session brings it back (stop, and the stop branches of play's failures).
SilentWhenStopped ==
  state = "stopped" /\ pc = "idle" => ~speaking /\ clips = <<>>

\* Only start ends a stop: no wait, synthesis, page turn or completion that was on
\* its way when the session stopped takes it up again (the generation and state
\* checks of the callbacks; beginSentencePlayback itself asks for nothing).
StopIsFinal ==
  [][state = "stopped" /\ state' # "stopped" /\ ~MayDouble => pc = "start"]_vars

\* The clip the daemon plays is the sentence that is due: the one after what was
\* heard last, the one the user jumped to, the first of a new page.  No sentence
\* is passed over or spoken twice by a timer that belongs to an earlier sentence,
\* a group counted wrong, or a page turned too soon (readNextSentence, the
\* completion callback, advanceToNextPage).
InTurn == clips # <<>> /\ ~MayDouble => Head(clips).x = due

\* One play at a time: a second one while the first is speaking would share its
\* completion count and callbacks (the DUPLICATE check of TTSEngine:play).
OneVoice == ~MayDouble => Len(clips) <= 1 /\ (pc = "begin" => ~speaking)

Live == {<<"wait", w.x>> : w \in {v \in waits : ~Stale(v)}}
        \cup {<<"synth", x>> : x \in synths}
        \cup (IF chain # 0 /\ chain = gen THEN {<<"chain">>} ELSE {})
        \cup (IF turn.gen = turnGen /\ turn # NoTurn THEN {<<"turn">>} ELSE {})
        \cup (IF poll # 0 /\ poll = playGen /\ speaking /\ onComplete.gen = gen
                THEN {<<"poll">>} ELSE {})

\* A session that has not stopped hangs on exactly one timer that is still
\* valid: with none it would be dead without saying so, with two it would read
\* two sentences (the generations of synccontroller.lua and ttsengine.lua).
OneDriver ==
  state # "stopped" /\ pc = "idle" /\ ~MayDouble => Cardinality(Live) = 1

\* While the session is paused the daemon holds its clip, whoever paused it and
\* whatever a menu did since (pause, resume, the overlay branch of the sync loop).
PausedIsQuiet ==
  state = "paused" /\ speaking /\ up => engPaused /\ dPaused

\* Reading goes on until the book ends, the session is stopped or somebody
\* pauses it: no chain of callbacks dies on the way.
ReadingSettles == <>[](state \in {"stopped", "paused"})

=============================================================================
