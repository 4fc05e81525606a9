-------------------------- MODULE ReadAlongProofs --------------------------
(***************************************************************************)
(* Proofs about ReadAlong for every book and every number of commands and  *)
(* failures: a stopped session is silent, a paused one is quiet, a stop is *)
(* final; the sentences are heard in turn, one at a time, and a session    *)
(* hangs on exactly one timer.                                             *)
(***************************************************************************)
EXTENDS ReadAlong, SequenceTheorems, FiniteSetTheorems, TLAPS

\* The scenario never changes.
LEMMA ScenarioFixed == ASSUME [Next]_vars PROVE scen' = scen
<1>1. CASE Calls
  BY <1>1 DEF Calls, Start, ReadNothing, TurnPage, SpeakNow, SpeakFails, SkipSentence,
     UsePrefetched, AwaitPiper, PlayAccepted, PlayFails, StartFails, Stop, ReadingRest,
     BeginRest, FailsRest
<1>2. CASE Timers
  <2>1. CASE Waits
    BY <2>1 DEF Waits, WaitIsStale, WaitDelivers, WaitFails, WaitTimesOut, TimerRest
  <2> QED BY <1>2, <2>1 DEF Timers, SynthDone, ChainFires, TurnFires, TimerRest
<1>3. CASE Polls \/ LinkFails
  BY <1>3 DEF Polls, LinkFails, DaemonUnreachable, RenderStalls, PlayCompletes, PollFails
<1>4. CASE Syncs
  BY <1>4 DEF Syncs, CrossBoundary, OverlayPauses, OverlayResumes, SyncRest
<1>5. CASE User
  BY <1>5 DEF User, UserStart, UserStop, UserPause, UserResume, Menu, UserJumps, UserRest
<1>6. CASE Synthesises \/ DaemonPlays \/ DaemonDies \/ UNCHANGED vars
  BY <1>6 DEF Synthesises, DaemonPlays, DaemonDies, vars
<1> QED BY <1>1, <1>2, <1>3, <1>4, <1>5, <1>6 DEF Next

-----------------------------------------------------------------------------
(* Silence.  The pc of a handler does not matter: from the moment Stop has *)
(* run nothing is queued before a play sets the state.                     *)

QuietInv ==
  /\ state = "stopped" => ~speaking /\ clips = <<>>
  /\ ~up => clips = <<>>
  /\ active

\* The calls of a handler.
LEMMA QuietCalls == ASSUME scen.starts, QuietInv, Calls PROVE QuietInv'
<1>1. CASE Start
  BY <1>1 DEF QuietInv, Start, daemon
<1>2. CASE ReadNothing \/ AwaitPiper
  <2>1. UNCHANGED <<speaking, clips, up, active>>
    BY <1>2 DEF ReadNothing, AwaitPiper, ReadingRest, engine, daemon
  <2>2. state' \in {state, "loading"}
    BY <1>2 DEF ReadNothing, AwaitPiper
  <2> QED BY <2>1, <2>2 DEF QuietInv
<1>3. CASE TurnPage \/ SpeakNow \/ SpeakFails \/ SkipSentence \/ UsePrefetched
  BY <1>3 DEF QuietInv, TurnPage, SpeakNow, SpeakFails, SkipSentence, UsePrefetched,
      ReadingRest, engine, daemon
<1>4. CASE PlayAccepted
  BY <1>4 DEF QuietInv, PlayAccepted, Begun
<1>5. CASE PlayFails
  BY <1>5 DEF QuietInv, PlayFails, Begun, FailsRest
<1>6. CASE Stop
  BY <1>6 DEF QuietInv, Stop, EngineStop
<1>7. ~StartFails
  BY DEF StartFails
<1> QED BY <1>1, <1>2, <1>3, <1>4, <1>5, <1>6, <1>7 DEF Calls

\* Timers and the polls of the engine.
LEMMA QuietTimers == ASSUME QuietInv, Timers \/ Polls \/ LinkFails PROVE QuietInv'
<1>1. CASE Timers
  <2>1. CASE Waits
    <3>1. UNCHANGED <<state, speaking, clips, up, active>>
      BY <2>1 DEF Waits, WaitIsStale, WaitDelivers, WaitFails, WaitTimesOut,
          TimerRest, control, engine, daemon
    <3> QED BY <3>1 DEF QuietInv
  <2>2. CASE (\E x \in synths : SynthDone(x)) \/ ChainFires \/ TurnFires
    <3>1. UNCHANGED <<state, speaking, clips, up, active>>
      BY <2>2 DEF SynthDone, ChainFires, TurnFires, TimerRest, control, engine, daemon
    <3> QED BY <3>1 DEF QuietInv
  <2> QED BY <1>1, <2>1, <2>2 DEF Timers
<1>2. CASE LinkFails \/ DaemonUnreachable \/ RenderStalls
  BY <1>2 DEF QuietInv, LinkFails, DaemonUnreachable, RenderStalls, PollFails, control,
      daemon
<1>3. CASE PlayCompletes
  BY <1>3 DEF QuietInv, PlayCompletes, daemon
<1> QED BY <1>1, <1>2, <1>3 DEF Polls

\* The sync loop and the user.
LEMMA QuietUser == ASSUME QuietInv, Syncs \/ User PROVE QuietInv'
<1>1. CASE CrossBoundary
  BY <1>1 DEF QuietInv, CrossBoundary, SyncRest
<1>2. CASE OverlayPauses \/ OverlayResumes
  BY <1>2 DEF QuietInv, OverlayPauses, OverlayResumes, SyncTick, SyncRest
<1>3. CASE UserPause \/ UserResume
  BY <1>3 DEF QuietInv, UserPause, UserResume, UserRest
<1>4. CASE UserStart \/ UserStop \/ Menu
  <2>1. UNCHANGED <<state, speaking, clips, up, active>>
    BY <1>4 DEF UserStart, UserStop, Menu, control, engine, daemon
  <2> QED BY <2>1 DEF QuietInv
<1>5. CASE UserJumps
  BY <1>5 DEF QuietInv, UserJumps, EngineStop
<1> QED BY <1>1, <1>2, <1>3, <1>4, <1>5 DEF Syncs, User

\* Every step keeps the silence of a stopped session.
LEMMA QuietStep == ASSUME scen.starts, QuietInv, [Next]_vars PROVE QuietInv'
<1>1. CASE Synthesises
  BY <1>1 DEF QuietInv, Synthesises, control, engine, daemon
<1>2. CASE DaemonPlays
  BY <1>2 DEF QuietInv, DaemonPlays, control, engine
<1>3. CASE DaemonDies
  BY <1>3 DEF QuietInv, DaemonDies, control, engine
<1>4. CASE UNCHANGED vars
  BY <1>4 DEF QuietInv, vars, control, engine, daemon
<1> QED BY <1>1, <1>2, <1>3, <1>4, QuietCalls, QuietTimers, QuietUser DEF Next

\* An engine that has played before, with a daemon that can be started, leaves
\* nothing behind when a session stops: no clip of a play the client gave up on,
\* no play of a timer that comes late, whatever else fails.
THEOREM StoppedIsSilent ==
  ASSUME \A s \in SCENARIOS : s.warm /\ s.starts
  PROVE  Spec => []SilentWhenStopped
<1> DEFINE Inv == scen.starts /\ QuietInv
<1>1. Init => Inv
  BY DEF Init, QuietInv
<1>2. Inv /\ [Next]_vars => Inv'
  BY QuietStep, ScenarioFixed
<1>3. Inv => SilentWhenStopped
  BY DEF QuietInv, SilentWhenStopped
<1> HIDE DEF Inv
<1> QED BY <1>1, <1>2, <1>3, PTL DEF Spec

-----------------------------------------------------------------------------
(* Pauses.  The engine's flag and the daemon's move together while the     *)
(* engine speaks and the daemon lives.                                     *)

PauseInv ==
  /\ speaking /\ up => active
  /\ state = "paused" /\ speaking => engPaused
  /\ speaking /\ up /\ engPaused => dPaused

\* The calls of a handler.
LEMMA PauseCalls == ASSUME PauseInv, Calls PROVE PauseInv'
<1>1. CASE Start
  BY <1>1 DEF PauseInv, Start, daemon
<1>2. CASE ReadNothing \/ AwaitPiper
  BY <1>2 DEF PauseInv, ReadNothing, AwaitPiper, ReadingRest, engine, daemon
<1>3. CASE TurnPage \/ SpeakNow \/ SpeakFails \/ SkipSentence \/ UsePrefetched
  BY <1>3 DEF PauseInv, TurnPage, SpeakNow, SpeakFails, SkipSentence, UsePrefetched,
      ReadingRest, engine, daemon
<1>4. CASE PlayAccepted
  BY <1>4 DEF PauseInv, PlayAccepted, Begun
<1>5. CASE PlayFails
  BY <1>5 DEF PauseInv, PlayFails, Begun
<1>6. CASE Stop
  BY <1>6 DEF PauseInv, Stop, EngineStop
<1>7. CASE StartFails
  BY <1>7 DEF PauseInv, StartFails, Begun, daemon
<1> QED BY <1>1, <1>2, <1>3, <1>4, <1>5, <1>6, <1>7 DEF Calls

\* Timers and the polls of the engine.
LEMMA PauseTimers == ASSUME PauseInv, Timers \/ Polls \/ LinkFails PROVE PauseInv'
<1>1. CASE Timers
  <2>1. CASE Waits \/ \E x \in synths : SynthDone(x)
    BY <2>1 DEF PauseInv, Waits, WaitIsStale, WaitDelivers, WaitFails, WaitTimesOut,
        SynthDone, TimerRest, control, engine, daemon
  <2>2. CASE ChainFires \/ TurnFires
    BY <2>2 DEF PauseInv, ChainFires, TurnFires, control, engine, daemon
  <2> QED BY <1>1, <2>1, <2>2 DEF Timers
<1>2. CASE LinkFails \/ DaemonUnreachable \/ RenderStalls
  BY <1>2 DEF PauseInv, LinkFails, DaemonUnreachable, RenderStalls, PollFails, control,
      daemon
<1>3. CASE PlayCompletes
  BY <1>3 DEF PauseInv, PlayCompletes, daemon
<1> QED BY <1>1, <1>2, <1>3 DEF Polls

\* The sync loop and the user.
LEMMA PauseUser == ASSUME PauseInv, Syncs \/ User PROVE PauseInv'
<1>1. CASE CrossBoundary
  BY <1>1 DEF PauseInv, CrossBoundary, SyncRest
<1>2. CASE OverlayPauses
  BY <1>2 DEF PauseInv, OverlayPauses, PauseEngine, SyncRest
<1>3. CASE OverlayResumes
  BY <1>3 DEF PauseInv, OverlayResumes, PauseEngine, SyncRest
<1>4. CASE UserPause
  BY <1>4 DEF PauseInv, UserPause, PauseEngine, UserRest
<1>5. CASE UserResume
  BY <1>5 DEF PauseInv, UserResume, PauseEngine, UserRest
<1>6. CASE UserStart \/ UserStop \/ Menu
  BY <1>6 DEF PauseInv, UserStart, UserStop, Menu, control, engine, daemon
<1>7. CASE UserJumps
  BY <1>7 DEF PauseInv, UserJumps, EngineStop
<1> QED BY <1>1, <1>2, <1>3, <1>4, <1>5, <1>6, <1>7 DEF Syncs, User

\* Every step keeps the flags together.
LEMMA PauseStep == ASSUME PauseInv, [Next]_vars PROVE PauseInv'
<1>1. CASE Synthesises
  BY <1>1 DEF PauseInv, Synthesises, control, engine, daemon
<1>2. CASE DaemonPlays
  BY <1>2 DEF PauseInv, DaemonPlays, control, engine
<1>3. CASE DaemonDies
  BY <1>3 DEF PauseInv, DaemonDies, control, engine
<1>4. CASE UNCHANGED vars
  BY <1>4 DEF PauseInv, vars, control, engine, daemon
<1> QED BY <1>1, <1>2, <1>3, <1>4, PauseCalls, PauseTimers, PauseUser DEF Next

\* Pauses of the user and of menus over the page, resumes, jumps and deaths of
\* the daemon in any order and number never leave a paused session speaking.
THEOREM PausesAreQuiet == Spec => []PausedIsQuiet
<1>1. Init => PauseInv
  BY DEF Init, PauseInv
<1>2. PauseInv /\ [Next]_vars => PauseInv'
  BY PauseStep
<1>3. PauseInv => PausedIsQuiet
  BY DEF PauseInv, PausedIsQuiet
<1> QED BY <1>1, <1>2, <1>3, PTL DEF Spec

-----------------------------------------------------------------------------
(* Stops.  With espeak the calls of a stopped session are those of a new   *)
(* start, or end: no timer holds a sentence.                               *)

FinalInv ==
  /\ waits = {} /\ synths = {}
  /\ ~MayDouble => again = 0
  /\ state = "stopped" /\ ~MayDouble => pc \in {"idle", "start", "stop"}

\* The calls of a handler.
LEMMA FinalCalls ==
  ASSUME scen.voice # "piper", FinalInv, Calls
  PROVE  FinalInv' /\ (state = "stopped" /\ state' # "stopped" /\ ~MayDouble => pc = "start")
<1>1. scen' = scen /\ (MayDouble' <=> MayDouble)
  BY DEF Calls, Start, ReadNothing, TurnPage, SpeakNow, SpeakFails, SkipSentence,
     UsePrefetched, AwaitPiper, PlayAccepted, PlayFails, StartFails, Stop, ReadingRest,
     BeginRest, FailsRest, MayDouble
<1>2. waits' = {} /\ synths' = {}
  <2>1. ~UsePrefetched /\ ~AwaitPiper
    BY DEF UsePrefetched, AwaitPiper
  <2>2. UNCHANGED <<waits, synths>>
    BY <2>1 DEF Calls, Start, ReadNothing, TurnPage, SpeakNow, SpeakFails, SkipSentence,
       PlayAccepted, PlayFails, StartFails, Stop, ReadingRest, BeginRest, FailsRest, timers
  <2> QED BY <2>2 DEF FinalInv
<1>3. ASSUME ~MayDouble
      PROVE  /\ again' = 0
             /\ state' = "stopped" => pc' \in {"idle", "start", "stop"}
             /\ state = "stopped" /\ state' # "stopped" => pc = "start"
  <2>1. again = 0 /\ (state = "stopped" => pc \in {"idle", "start", "stop"})
    BY <1>3 DEF FinalInv
  <2>2. CASE Start
    BY <2>1, <2>2 DEF Start, Call
  <2>3. CASE ReadNothing
    BY <2>1, <2>3 DEF ReadNothing, AtPageEnd, Return, Call
  <2>4. CASE TurnPage
    BY <2>1, <2>4 DEF TurnPage, AtPageEnd, Return
  <2>5. CASE SpeakNow \/ SkipSentence
    BY <2>1, <2>5 DEF SpeakNow, SkipSentence, Reading, CallBegin, Call
  <2>6. CASE SpeakFails
    BY <1>3, <2>6 DEF SpeakFails, MayDouble
  <2>7. CASE UsePrefetched \/ AwaitPiper
    BY <2>7 DEF UsePrefetched, AwaitPiper
  <2>8. CASE PlayAccepted
    BY <2>1, <2>8 DEF PlayAccepted, Begun, Return
  <2>9. CASE PlayFails \/ StartFails
    BY <2>1, <2>9 DEF PlayFails, StartFails, Begun, Call
  <2>10. CASE Stop
    BY <2>1, <2>10 DEF Stop, Return
  <2> QED BY <2>2, <2>3, <2>4, <2>5, <2>6, <2>7, <2>8, <2>9, <2>10 DEF Calls
<1> QED BY <1>1, <1>2, <1>3 DEF FinalInv

\* Everything that is not a call happens between two of them, and does not
\* take up a session that has stopped.
LEMMA FinalRest ==
  ASSUME scen.voice # "piper", FinalInv, [Next]_vars, ~Calls
  PROVE  FinalInv' /\ (state = "stopped" => state' = "stopped")
<1>1. waits = {} /\ synths = {}
  BY DEF FinalInv
<1>2. CASE ChainFires \/ TurnFires
  <2>1. UNCHANGED <<scen, state, waits, synths>>
    BY <1>2 DEF ChainFires, TurnFires, control
  <2>2. again' = again
    BY <1>2 DEF ChainFires, TurnFires, Call, calls
  <2>3. state = "stopped" => pc' = pc
    BY <1>2 DEF ChainFires, TurnFires, ChainIsDue, Call, calls
  <2> QED BY <2>1, <2>2, <2>3 DEF FinalInv, MayDouble
<1>3. CASE Waits \/ \E x \in synths : SynthDone(x)
  BY <1>1, <1>3 DEF Waits
<1>4. CASE LinkFails \/ DaemonUnreachable \/ RenderStalls
  <2>1. UNCHANGED <<scen, state, waits, synths>> /\ again' = again /\ pc' = "stop"
    BY <1>4 DEF LinkFails, DaemonUnreachable, RenderStalls, PollFails, Call, control, timers
  <2> QED BY <2>1 DEF FinalInv, MayDouble
<1>5. CASE PlayCompletes
  <2>1. UNCHANGED <<scen, state, waits, synths, again, pc>>
    BY <1>5 DEF PlayCompletes, calls
  <2> QED BY <2>1 DEF FinalInv, MayDouble
<1>6. CASE CrossBoundary \/ OverlayPauses \/ OverlayResumes
  <2>1. UNCHANGED <<scen, waits, synths, again, pc>> /\ state # "stopped" /\ pc = "idle"
    BY <1>6 DEF CrossBoundary, OverlayPauses, OverlayResumes, SyncTick, SyncRest, calls,
       timers
  <2> QED BY <2>1 DEF FinalInv, MayDouble
<1>7. CASE UserPause \/ UserResume
  <2>1. UNCHANGED <<scen, waits, synths, again, pc>> /\ state # "stopped"
        /\ state' # "stopped"
    BY <1>7 DEF UserPause, UserResume, UserRest, calls, timers
  <2> QED BY <2>1 DEF FinalInv, MayDouble
<1>8. CASE UserStart \/ UserStop
  <2>1. UNCHANGED <<scen, state, waits, synths, again>> /\ pc' \in {"start", "stop"}
    BY <1>8 DEF UserStart, UserStop, Call, control, timers
  <2> QED BY <2>1 DEF FinalInv, MayDouble
<1>9. CASE UserJumps
  <2>1. UNCHANGED <<scen, state, waits, synths, again>> /\ state # "stopped"
    BY <1>9 DEF UserJumps, MayJump, Call, timers
  <2> QED BY <2>1 DEF FinalInv, MayDouble
<1>10. CASE Menu \/ Synthesises \/ DaemonPlays \/ DaemonDies \/ UNCHANGED vars
  <2>1. UNCHANGED <<scen, state, waits, synths, again, pc>>
    BY <1>10 DEF Menu, Synthesises, DaemonPlays, DaemonDies, vars, control, calls, timers
  <2> QED BY <2>1 DEF FinalInv, MayDouble
<1> QED BY <1>2, <1>3, <1>4, <1>5, <1>6, <1>7, <1>8, <1>9, <1>10
        DEF Next, Timers, Polls, Syncs, User

\* It is Piper's callback alone that takes up a stopped session (the run
\* ra_after_stop): with espeak nothing but a start ends a stop.
THEOREM EspeakStopIsFinal ==
  ASSUME \A s \in SCENARIOS : s.voice # "piper"
  PROVE  Spec => StopIsFinal
<1> DEFINE Inv == scen.voice # "piper" /\ FinalInv
           Final == state = "stopped" /\ state' # "stopped" /\ ~MayDouble => pc = "start"
<1>1. Init => Inv
  BY DEF Init, FinalInv
<1>2. Inv /\ [Next]_vars => Inv' /\ Final
  <2> SUFFICES ASSUME Inv, [Next]_vars PROVE Inv' /\ Final
    OBVIOUS
  <2>1. scen'.voice # "piper"
    BY ScenarioFixed
  <2>2. CASE Calls
    BY <2>1, <2>2, FinalCalls
  <2>3. CASE ~Calls
    BY <2>1, <2>3, FinalRest
  <2> QED BY <2>2, <2>3
<1>3. Final <=> (state = "stopped" /\ state' # "stopped" /\ ~MayDouble => pc = "start")
  OBVIOUS
<1> HIDE DEF Inv, Final
<1> QED BY <1>1, <1>2, <1>3, PTL DEF Spec, StopIsFinal
-----------------------------------------------------------------------------
(* One driver.  A session that runs hangs on one timer or poll, which      *)
(* knows the place where it goes on.                                       *)

\* The sessions the theorems are about.  Piper's on-demand callback asks for
\* no generation (the run ra_after_stop), so nothing may stop or jump while a
\* synthesis can fail over to it; an engine that has not used the daemon
\* leaves a clip behind when its first play fails, and one that could not start
\* the daemon has forgotten that it did.
Jumps == {"bar_next", "media_next", "media_prev", "rate"}
Sane(s) ==
  /\ s.warm /\ s.starts
  /\ s.voice = "piper" => /\ s.cmds \cap Jumps = {}
                          /\ "stop" \in s.cmds => ~s.fails

ValidWaits == {w \in waits : w.gen = gen}
ChainLive == chain # 0 /\ chain = gen
TurnLive == turn # NoTurn /\ turn.gen = turnGen
PollLive == poll # 0 /\ poll = playGen /\ onComplete.gen = gen

\* A handler goes on with it: nothing sounds, and what may still be there after
\* a jump is a timer that the next play or turned page makes stale.
Handed ==
  /\ ValidWaits = {} /\ synths = {} /\ (scen.voice = "piper" => ~ChainLive)
  /\ ~speaking /\ clips = <<>> /\ total = SENTENCES /\ group.bnd = 0

\* What the session may hang on, with the place where it goes on.
OnWait ==
  /\ \E w \in waits : ValidWaits = {w} /\ w.x = This(idx)
  /\ synths = {} /\ ~ChainLive /\ ~TurnLive
  /\ ~speaking /\ clips = <<>> /\ total = SENTENCES /\ group.bnd = 0
  /\ idx \in Idx /\ due = This(idx) /\ status[idx] # "none"
OnSynth ==
  /\ ValidWaits = {} /\ synths = {This(idx)} /\ ~ChainLive /\ ~TurnLive
  /\ ~speaking /\ clips = <<>> /\ total = SENTENCES /\ group.bnd = 0
  /\ idx \in Idx /\ due = This(idx)
OnChain ==
  /\ ValidWaits = {} /\ synths = {} /\ ChainLive /\ ~TurnLive
  /\ ~speaking /\ clips = <<>> /\ total = SENTENCES /\ group.bnd = 0
  /\ idx \in Idx /\ due = This(idx + 1) /\ group.first \in Idx
OnTurn ==
  /\ ValidWaits = {} /\ synths = {} /\ ~ChainLive /\ TurnLive
  /\ ~speaking /\ clips = <<>> /\ total = SENTENCES /\ group.bnd = 0
  /\ idx > SENTENCES /\ state = "loading" /\ (turn.moved => due = This(1))
OnPoll ==
  /\ ValidWaits = {} /\ synths = {} /\ ~ChainLive /\ ~TurnLive
  /\ speaking /\ PollLive /\ gen > 0
  /\ total = SENTENCES /\ idx \in Idx
  /\ group.first = idx /\ group.n = onComplete.n /\ group.n \in Idx
  /\ up => \/ clips = <<[x |-> This(idx), n |-> group.n]>> /\ due = This(idx) /\ done = baseline
           \/ clips = <<>> /\ due = This(idx + group.n) /\ done = baseline + 1
Driven == OnWait \/ OnSynth \/ OnChain \/ OnTurn \/ OnPoll

\* What was stopped stays so, and is silent.
Dormant == synths = {} /\ ~TurnLive /\ ~speaking /\ clips = <<>> /\ group.bnd = 0

Session ==
  /\ again = 0 /\ due.page <= page
  /\ pc = "idle" => IF state = "stopped" THEN Dormant ELSE Driven
  /\ pc = "start" => Dormant /\ due = This(1)
  /\ pc = "next" => /\ Handed /\ state # "stopped"
                    /\ TurnLive => idx > SENTENCES
                    /\ due = This(IF idx > SENTENCES THEN SENTENCES + 1 ELSE idx + 1)
  /\ pc = "begin" => Handed /\ ~TurnLive /\ state # "stopped" /\ due = This(idx)
  /\ pc = "stop" => synths = {} /\ (clips # <<>> => Len(clips) = 1 /\ Head(clips).x = due)

\* What holds in every session, doubled or not.
Bounds ==
  /\ scen \in SCENARIOS /\ active
  /\ pc = "begin" => total = SENTENCES /\ idx \in Idx /\ arg = This(idx)
  /\ highest <= idx
  /\ group.first + group.bnd <= SENTENCES /\ group.first + group.n <= SENTENCES + 1
  /\ \A w \in waits : w.gen <= gen
  /\ chain <= gen /\ turn.gen <= turnGen
  /\ poll # 0 => onComplete.n \in Idx
  /\ scen.voice # "piper" => waits = {} /\ synths = {}
  /\ ~scen.fails => synths = {} /\ \A i \in Idx : status[i] # "failed"
  /\ ~up => clips = <<>>

IInv == TypeOK /\ Bounds /\ (~MayDouble => Session)

-----------------------------------------------------------------------------
(* The types, one group of variables at a time.                            *)

EnumTypes == /\ state \in {"stopped", "loading", "playing", "paused"}
             /\ pc \in {"idle", "start", "next", "begin", "stop"}
FlagTypes ==
  /\ userPaused \in BOOLEAN /\ overlayPaused \in BOOLEAN /\ warmedUp \in BOOLEAN
  /\ speaking \in BOOLEAN /\ engPaused \in BOOLEAN /\ active \in BOOLEAN
  /\ up \in BOOLEAN /\ dPaused \in BOOLEAN /\ overlay \in BOOLEAN
NumTypes ==
  /\ page \in 1..PAGES /\ total \in {0, SENTENCES} /\ idx \in Nat
  /\ highest \in 0..SENTENCES /\ gen \in Nat /\ turnGen \in Nat /\ again \in Nat
  /\ chain \in Nat /\ playGen \in Nat /\ poll \in Nat /\ baseline \in Nat
  /\ done \in Nat /\ cmds \in 0..scen.max /\ faults \in 0..MAX_FAULTS
RecordTypes ==
  /\ group \in [first : 0..SENTENCES, n : 0..SENTENCES, bnd : 0..SENTENCES]
  /\ turn \in [gen : Nat, moved : BOOLEAN]
  /\ onComplete \in [gen : Nat, first : 0..SENTENCES, n : 0..SENTENCES]
  /\ status \in [Idx -> {"none", "queued", "ready", "failed"}]
PlaceTypes ==
  /\ arg \in Sentence /\ due \in Sentence
  /\ waits \subseteq [gen : Nat, x : Sentence, via : {"prefetch", "queue"}]
  /\ synths \subseteq Sentence
  /\ clips \in Seq([x : Sentence, n : Idx])

LEMMA TypeGroups ==
  TypeOK <=> EnumTypes /\ FlagTypes /\ NumTypes /\ RecordTypes /\ PlaceTypes
  BY DEF TypeOK, EnumTypes, FlagTypes, NumTypes, RecordTypes, PlaceTypes

LEMMA EnumStep == ASSUME EnumTypes, [Next]_vars PROVE EnumTypes'
<1> USE DEF EnumTypes
<1>1. CASE Calls
  <2>1. CASE Start \/ ReadNothing \/ TurnPage \/ Stop
    BY <2>1 DEF Start, ReadNothing, TurnPage, Stop, Return, Call
  <2>2. CASE SpeakNow \/ SpeakFails \/ SkipSentence \/ UsePrefetched \/ AwaitPiper
    BY <2>2 DEF SpeakNow, SpeakFails, SkipSentence, UsePrefetched, AwaitPiper, Return,
        Call, CallBegin
  <2>3. CASE PlayAccepted \/ PlayFails \/ StartFails
    BY <2>3 DEF PlayAccepted, PlayFails, StartFails, Begun, Return, Call
  <2> QED BY <1>1, <2>1, <2>2, <2>3 DEF Calls
<1>2. CASE Timers
  <2>1. CASE Waits \/ \E x \in synths : SynthDone(x)
    BY <2>1 DEF Waits, WaitIsStale, WaitDelivers, WaitFails, WaitTimesOut, SynthDone,
        EspeakOrSkip, TimerRest, control, calls, Call, CallBegin
  <2>2. CASE ChainFires \/ TurnFires
    BY <2>2 DEF ChainFires, TurnFires, control, calls, Call
  <2> QED BY <1>2, <2>1, <2>2 DEF Timers
<1>3. CASE Polls \/ LinkFails
  BY <1>3 DEF Polls, LinkFails, DaemonUnreachable, RenderStalls, PollFails,
      PlayCompletes, Call, control, calls
<1>4. CASE Syncs
  BY <1>4 DEF Syncs, CrossBoundary, OverlayPauses, OverlayResumes, SyncRest, calls
<1>5. CASE User
  BY <1>5 DEF User, UserStart, UserStop, UserPause, UserResume, Menu, UserJumps,
      UserRest, Call, control, calls
<1>6. CASE Synthesises \/ DaemonPlays \/ DaemonDies \/ UNCHANGED vars
  BY <1>6 DEF Synthesises, DaemonPlays, DaemonDies, vars, control, calls
<1> QED BY <1>1, <1>2, <1>3, <1>4, <1>5, <1>6 DEF Next

LEMMA FlagStep == ASSUME FlagTypes, [Next]_vars PROVE FlagTypes'
<1> USE DEF FlagTypes
<1>1. CASE Calls
  <2>1. CASE Start \/ ReadNothing \/ TurnPage
    BY <2>1 DEF Start, ReadNothing, TurnPage, engine, daemon, env
  <2>2. CASE SpeakNow \/ SpeakFails \/ SkipSentence \/ AwaitPiper
    BY <2>2 DEF SpeakNow, SpeakFails, SkipSentence, AwaitPiper, ReadingRest, engine,
        daemon, env
  <2>3. CASE UsePrefetched
    BY <2>3 DEF UsePrefetched, ReadingRest, engine, daemon, env
  <2>4. CASE PlayAccepted
    <3>1. (up /\ dPaused) \in BOOLEAN
      OBVIOUS
    <3>2. dPaused' \in BOOLEAN
      BY <2>4, <3>1, Zenon DEF PlayAccepted
    <3>3. speaking' = TRUE /\ engPaused' = FALSE /\ active' = TRUE /\ up' = TRUE
          /\ UNCHANGED <<userPaused, overlayPaused, warmedUp, overlay>>
      BY <2>4 DEF PlayAccepted, BeginRest, env
    <3> QED BY <3>2, <3>3
  <2>5. CASE PlayFails
    <3>1. (up /\ dPaused) \in BOOLEAN
      OBVIOUS
    <3>2. dPaused' \in BOOLEAN
      BY <2>5, <3>1, Zenon DEF PlayFails
    <3>3. speaking' = FALSE /\ engPaused' = FALSE /\ up' = TRUE
          /\ UNCHANGED <<active, userPaused, overlayPaused, warmedUp, overlay>>
      BY <2>5 DEF PlayFails, FailsRest
    <3> QED BY <3>2, <3>3
  <2>6. CASE StartFails
    BY <2>6 DEF StartFails, FailsRest, daemon
  <2>7. CASE Stop
    BY <2>7 DEF Stop, EngineStop, env
  <2> QED BY <1>1, <2>1, <2>2, <2>3, <2>4, <2>5, <2>6, <2>7 DEF Calls
<1>2. CASE Timers
  <2>1. ASSUME NEW w \in waits, WaitIsStale(w) \/ WaitFails(w) \/ WaitTimesOut(w)
        PROVE  FlagTypes'
    BY <2>1 DEF WaitIsStale, WaitFails, WaitTimesOut, TimerRest, control, engine,
        daemon, env
  <2>2. ASSUME NEW w \in waits, WaitDelivers(w) PROVE FlagTypes'
    <3>1. (warmedUp \/ w.via = "prefetch") \in BOOLEAN
      OBVIOUS
    <3>2. warmedUp' \in BOOLEAN
      BY <2>2, <3>1, Zenon DEF WaitDelivers
    <3>3. UNCHANGED <<userPaused, overlayPaused, engine, daemon, env>>
      BY <2>2 DEF WaitDelivers
    <3> QED BY <3>2, <3>3 DEF engine, daemon, env
  <2>3. CASE \E x \in synths : SynthDone(x)
    BY <2>3 DEF SynthDone, TimerRest, control, engine, daemon, env
  <2>4. CASE ChainFires \/ TurnFires
    BY <2>4 DEF ChainFires, TurnFires, control, engine, daemon, env
  <2> QED BY <1>2, <2>1, <2>2, <2>3, <2>4 DEF Timers, Waits
<1>3. CASE Polls \/ LinkFails
  <2>1. CASE PlayCompletes
    BY <2>1 DEF PlayCompletes, daemon, env
  <2>2. CASE DaemonUnreachable \/ RenderStalls \/ LinkFails
    BY <2>2 DEF LinkFails, DaemonUnreachable, RenderStalls, PollFails, control, daemon
  <2> QED BY <1>3, <2>1, <2>2 DEF Polls
<1>4. ASSUME NEW yes \in BOOLEAN, PauseEngine(yes)
      PROVE  engPaused' \in BOOLEAN /\ dPaused' \in BOOLEAN
  BY <1>4, Zenon DEF PauseEngine
<1>5. CASE Syncs
  <2>1. CASE CrossBoundary
    BY <2>1 DEF CrossBoundary, SyncRest, env
  <2>2. CASE OverlayPauses
    <3>1. engPaused' \in BOOLEAN /\ dPaused' \in BOOLEAN
      BY <1>4, <2>2 DEF OverlayPauses
    <3> QED BY <2>2, <3>1 DEF OverlayPauses, SyncRest, env
  <2>3. CASE OverlayResumes
    <3>1. engPaused' \in BOOLEAN /\ dPaused' \in BOOLEAN
      BY <1>4, <2>3 DEF OverlayResumes
    <3> QED BY <2>3, <3>1 DEF OverlayResumes, SyncRest, env
  <2> QED BY <1>5, <2>1, <2>2, <2>3 DEF Syncs
<1>6. CASE User
  <2>1. CASE UserStart \/ UserStop
    BY <2>1 DEF UserStart, UserStop, Command, control, engine, daemon
  <2>2. CASE UserPause
    <3>1. engPaused' \in BOOLEAN /\ dPaused' \in BOOLEAN
      BY <1>4, <2>2 DEF UserPause
    <3> QED BY <2>2, <3>1 DEF UserPause, UserRest, Command
  <2>3. CASE UserResume
    <3>1. engPaused' \in BOOLEAN /\ dPaused' \in BOOLEAN
      BY <1>4, <2>3 DEF UserResume
    <3> QED BY <2>3, <3>1 DEF UserResume, UserRest, Command
  <2>4. CASE Menu
    BY <2>4 DEF Menu, control, engine, daemon
  <2>5. CASE UserJumps
    BY <2>5 DEF UserJumps, EngineStop, Command
  <2> QED BY <1>6, <2>1, <2>2, <2>3, <2>4, <2>5 DEF User
<1>7. CASE Synthesises \/ DaemonPlays \/ DaemonDies \/ UNCHANGED vars
  BY <1>7 DEF Synthesises, DaemonPlays, DaemonDies, vars, control, engine, daemon, env
<1> QED BY <1>1, <1>2, <1>3, <1>5, <1>6, <1>7 DEF Next

\* Everything that is counted or names a place.
Data == NumTypes /\ RecordTypes /\ PlaceTypes /\ Bounds

\* The scenario of a session that has begun.
LEMMA TheScenario ==
  ASSUME Bounds
  PROVE  /\ scen \in SCENARIOS /\ scen.max \in Nat /\ scen.fails \in BOOLEAN
         /\ scen.voice \in {"piper", "espeak", "abandoned"}
<1>1. scen \in Scenario
  BY ScenarioAssumption DEF Bounds
<1> QED BY <1>1 DEF Bounds, Scenario

\* The fields of the pending polls for a queued sentence.
LEMMA TheWaits ==
  ASSUME PlaceTypes, NEW w \in waits
  PROVE  w.gen \in Nat /\ w.x \in Sentence /\ w.via \in {"prefetch", "queue"}
<1>1. w \in [gen : Nat, x : Sentence, via : {"prefetch", "queue"}]
  BY DEF PlaceTypes
<1> QED BY <1>1

\* start and what readNextSentence does when it has nothing to read.
LEMMA DataOfReading ==
  ASSUME Data, scen' = scen, Start \/ ReadNothing \/ TurnPage PROVE Data'
<1> USE BookAssumption, TheScenario DEF Idx
<1>1. CASE Start
  <2>1. NumTypes'
    BY <1>1 DEF Start, Data, NumTypes, Call, timers, daemon, env
  <2>2. RecordTypes' /\ PlaceTypes'
    BY <1>1 DEF Start, Data, RecordTypes, PlaceTypes, Call, timers, daemon
  <2>3. \A w \in waits : w.gen <= gen + 1
    BY TheWaits DEF Data, NumTypes, Bounds
  <2>4. Bounds'
    BY <1>1, <2>3 DEF Start, Data, NumTypes, Bounds, Call, timers, daemon
  <2> QED BY <2>1, <2>2, <2>4 DEF Data
<1>2. CASE ReadNothing
  <2>1. NumTypes'
    BY <1>2 DEF ReadNothing, Data, NumTypes, Call, Return, timers, engine, daemon, env
  <2>2. RecordTypes' /\ PlaceTypes'
    BY <1>2 DEF ReadNothing, Data, RecordTypes, PlaceTypes, Call, Return, timers, engine, daemon
  <2>3. Bounds'
    BY <1>2 DEF ReadNothing, AtPageEnd, Data, NumTypes, Bounds, Call, Return, This, timers,
        engine, daemon
  <2> QED BY <2>1, <2>2, <2>3 DEF Data
<1>3. CASE TurnPage
  <2>1. NumTypes'
    BY <1>3 DEF TurnPage, Data, NumTypes, Return, engine, daemon, env
  <2>2. RecordTypes'
    BY <1>3 DEF TurnPage, Data, NumTypes, RecordTypes, ViewMoves, engine
  <2>3. PlaceTypes'
    BY <1>3 DEF TurnPage, Data, NumTypes, PlaceTypes, Sentence, Return, daemon
  <2>4. \A w \in waits : w.gen <= gen + 1
    BY TheWaits DEF Data, NumTypes, Bounds
  <2>5. turn'.gen <= turnGen'
    BY <1>3 DEF TurnPage, Data, NumTypes
  <2>6. pc' # "begin"
    BY <1>3 DEF TurnPage, Return
  <2>7. Bounds'
    BY <1>3, <2>4, <2>5, <2>6 DEF TurnPage, Data, NumTypes, Bounds, engine, daemon
  <2> QED BY <2>1, <2>2, <2>3, <2>7 DEF Data
<1> QED BY <1>1, <1>2, <1>3

\* The place a handler comes to is a place of the book.
LEMMA ReadingPlace ==
  ASSUME Data, Reading
  PROVE  /\ total = SENTENCES /\ idx + 1 \in Idx
         /\ This(idx + 1) \in Sentence /\ After(This(idx + 1)) \in Sentence
<1>1. total = SENTENCES /\ idx + 1 \in Idx /\ page \in 0..PAGES
  BY BookAssumption DEF Reading, Data, NumTypes, Idx
<1> QED BY <1>1, BookAssumption DEF This, After, Sentence, Idx

\* The ways readNextSentence takes a sentence up.
LEMMA DataOfSpeaking ==
  ASSUME Data, scen' = scen,
         SpeakNow \/ SpeakFails \/ SkipSentence \/ UsePrefetched \/ AwaitPiper
  PROVE  Data'
<1>1. /\ UNCHANGED ReadingRest /\ idx' = idx + 1 /\ total = SENTENCES /\ idx + 1 \in Idx
      /\ This(idx + 1) \in Sentence /\ After(This(idx + 1)) \in Sentence
  BY ReadingPlace DEF SpeakNow, SpeakFails, SkipSentence, UsePrefetched, AwaitPiper
<1>2. again' \in Nat
  BY <1>1 DEF SpeakNow, SpeakFails, SkipSentence, UsePrefetched, AwaitPiper, Data, NumTypes,
     Call, CallBegin, Return
<1>3. NumTypes'
  BY <1>1, <1>2 DEF Data, NumTypes, Idx, ReadingRest, engine, daemon, env
<1>4. status' \in [Idx -> {"none", "queued", "ready", "failed"}]
  BY <1>1 DEF SpeakNow, SpeakFails, SkipSentence, UsePrefetched, AwaitPiper, Data, RecordTypes
<1>5. RecordTypes'
  BY <1>1, <1>4 DEF Data, RecordTypes, ReadingRest, engine
<1>6. arg' \in Sentence /\ due' \in Sentence
  BY <1>1 DEF SpeakNow, SpeakFails, SkipSentence, UsePrefetched, AwaitPiper, Data, PlaceTypes,
     Call, CallBegin, Return, Pass
<1>7. waits' \in SUBSET [gen : Nat, x : Sentence, via : {"prefetch", "queue"}]
      /\ \A w \in waits' : w \in waits \/ w.gen = gen
  <2>1. CASE AwaitPiper
    BY <1>1, <2>1 DEF AwaitPiper, Data, PlaceTypes, NumTypes
  <2>2. CASE waits' = waits
    BY <2>2 DEF Data, PlaceTypes
  <2> QED BY <2>1, <2>2 DEF SpeakNow, SpeakFails, SkipSentence, UsePrefetched
<1>8. PlaceTypes'
  BY <1>1, <1>6, <1>7 DEF Data, PlaceTypes, ReadingRest, daemon
<1>9. \A w \in waits' : w.gen <= gen
  BY <1>7 DEF Data, NumTypes, Bounds
<1>10. pc' = "begin" => arg' = This(idx + 1)
  BY DEF SpeakNow, SpeakFails, SkipSentence, UsePrefetched, AwaitPiper, Call, CallBegin, Return
<1>11. This(idx)' = This(idx + 1)
  BY <1>1 DEF This, ReadingRest
<1>12. scen.voice # "piper" => waits' = waits
  BY DEF SpeakNow, SpeakFails, SkipSentence, UsePrefetched, AwaitPiper
<1>13. ~scen.fails => \A i \in Idx : status'[i] # "failed"
  BY <1>1 DEF SpeakNow, SpeakFails, SkipSentence, UsePrefetched, AwaitPiper, Data, RecordTypes,
     Bounds
<1>14. Bounds'
  BY <1>1, <1>9, <1>10, <1>11, <1>12, <1>13 DEF Data, NumTypes, Bounds, This, ReadingRest,
     engine, daemon
<1> QED BY <1>3, <1>5, <1>8, <1>14 DEF Data

\* A sane session starts its daemon.
LEMMA AlwaysStarts == ASSUME Sane(scen) PROVE ~StartFails
  BY DEF Sane, StartFails

\* The play of a group, and a stop.
LEMMA DataOfPlaying ==
  ASSUME Data, scen' = scen, PlayAccepted \/ PlayFails \/ Stop
  PROVE  Data'
<1>1. ASSUME NEW n \in 1..SENTENCES, Begun(n),
             UNCHANGED <<page, total, idx, turnGen, waits, synths, chain, turn, cmds, due, arg>>,
             status' = status \/ Prefetched(n), active' = TRUE, onComplete' = Play(n),
             again' \in Nat, playGen' = playGen + 1, poll' \in Nat, baseline' \in Nat,
             done' \in Nat, faults' \in 0..MAX_FAULTS, pc' # "begin",
             clips' \in {clips, Append(clips, [x |-> arg, n |-> n]),
                        Append(<<>>, [x |-> arg, n |-> n])},
             ~up' => clips' = <<>>
      PROVE  Data'
  <2>1. /\ total = SENTENCES /\ idx \in Idx /\ arg = This(idx) /\ arg.s = idx
        /\ idx + n <= SENTENCES + 1
    <3>1. total = SENTENCES /\ idx \in Idx /\ arg = This(idx)
      BY <1>1 DEF Begun, Data, Bounds
    <3>2. n - 1 > 0 => idx + n - 1 <= total
      <4>1. CASE n - 1 > 0
        <5>1. idx + n - 1 \in (idx + 1)..(idx + n - 1)
          BY <1>1, <3>1, <4>1 DEF Idx
        <5> QED BY <1>1, <5>1 DEF Begun, MayJoin
      <4> QED BY <4>1
    <3> QED BY <1>1, <3>1, <3>2, BookAssumption DEF This, Idx
  <2>2. NumTypes'
    BY <1>1, <2>1, BookAssumption DEF Begun, Data, NumTypes, Idx
  <2>3. status' \in [Idx -> {"none", "queued", "ready", "failed"}]
        /\ (~scen.fails => \A i \in Idx : status'[i] # "failed")
    <3>1. status \in [Idx -> {"none", "queued", "ready", "failed"}]
          /\ (~scen.fails => \A i \in Idx : status[i] # "failed")
      BY DEF Data, RecordTypes, Bounds
    <3>2. CASE Prefetched(n)
      <4>1. \A i \in Idx : status'[i] \in {status[i], "none", "queued"}
        BY <3>2 DEF Prefetched
      <4>2. status' = [i \in Idx |-> status'[i]]
        BY <3>2 DEF Prefetched
      <4> QED BY <3>1, <4>1, <4>2
    <3> QED BY <1>1, <3>1, <3>2
  <2>4. group' = [first |-> idx, n |-> n, bnd |-> 0]
        /\ onComplete' = [gen |-> gen + 1, first |-> idx, n |-> n]
    BY <1>1, <2>1 DEF Begun, Play
  <2>5. RecordTypes'
    <3>1. idx \in 0..SENTENCES /\ n \in 0..SENTENCES /\ 0 \in 0..SENTENCES /\ gen + 1 \in Nat
      BY <2>1, BookAssumption DEF Data, NumTypes, Idx
    <3>2. turn' = turn
      BY <1>1
    <3> QED BY <2>3, <2>4, <3>1, <3>2 DEF Data, RecordTypes
  <2>6. clips' \in Seq([x : Sentence, n : Idx])
    <3> DEFINE e == [x |-> arg, n |-> n]
               E == [x : Sentence, n : Idx]
    <3>1. e \in E
      BY <1>1 DEF Data, PlaceTypes, Idx
    <3>2. clips' \in {clips, Append(clips, e), Append(<<>>, e)} /\ clips \in Seq(E)
      BY <1>1 DEF Data, PlaceTypes
    <3> HIDE DEF e, E
    <3>3. <<>> \in Seq(E) /\ \A c \in Seq(E) : Append(c, e) \in Seq(E)
      BY <3>1, AppendProperties
    <3>4. clips' \in Seq(E)
      BY <3>2, <3>3
    <3> QED BY <3>4 DEF E
  <2>7. PlaceTypes'
    BY <1>1, <2>6 DEF Data, PlaceTypes
  <2>8. \A w \in waits' : w.gen <= gen + 1
    BY <1>1, TheWaits DEF Data, NumTypes, Bounds
  <2>9. group'.first + group'.bnd <= SENTENCES /\ group'.first + group'.n <= SENTENCES + 1
        /\ onComplete'.n \in Idx
    BY <1>1, <2>1, <2>4, BookAssumption DEF Idx
  <2>10. highest' = idx /\ gen' = gen + 1
    BY <1>1, <2>1 DEF Begun
  <2>11. Bounds'
    BY <1>1, <2>1, <2>3, <2>8, <2>9, <2>10 DEF Data, NumTypes, Bounds, Idx
  <2> QED BY <2>2, <2>5, <2>7, <2>11 DEF Data
<1>2. CASE PlayAccepted
  <2>1. PICK n \in 1..SENTENCES :
          /\ Begun(n) /\ Prefetched(n) /\ UNCHANGED BeginRest
          /\ onComplete' = Play(n) /\ active' = TRUE /\ up' = TRUE
          /\ playGen' = playGen + 1 /\ poll' = playGen + 1
          /\ clips' = Append(IF up THEN clips ELSE <<>>, [x |-> arg, n |-> n])
          /\ done' = (IF up THEN done ELSE 0) /\ baseline' = done'
          /\ Return
    BY <1>2 DEF PlayAccepted, Baseline
  <2>2. clips' \in {clips, Append(clips, [x |-> arg, n |-> n]), Append(<<>>, [x |-> arg, n |-> n])}
    BY <2>1
  <2>3. again' \in Nat /\ pc' # "begin" /\ poll' \in Nat /\ done' \in Nat /\ baseline' \in Nat
    BY <2>1 DEF Return, Data, NumTypes
  <2>4. arg' = arg /\ UNCHANGED <<waits, synths, chain, turn, cmds, faults>>
    BY <2>1 DEF Return, BeginRest, timers, env
  <2> QED BY <1>1, <2>1, <2>2, <2>3, <2>4 DEF BeginRest, Data, NumTypes
<1>3. CASE PlayFails
  <2>1. PICK n \in 1..SENTENCES :
          /\ Begun(n)
          /\ faults < MAX_FAULTS /\ faults' = faults + 1
          /\ onComplete' = Play(n)
          /\ playGen' = playGen + 1 /\ poll' = 0
          /\ up' = TRUE
          /\ clips' \in {IF up THEN clips ELSE <<>>,
                         Append(IF up THEN clips ELSE <<>>, [x |-> arg, n |-> n])}
          /\ done' = (IF up THEN done ELSE 0)
          /\ Call("stop")
          /\ UNCHANGED <<page, total, idx, turnGen, timers, cmds, due, status, baseline,
                         active>>
    BY <1>3 DEF PlayFails, FailsRest
  <2>2. clips' \in {clips, Append(clips, [x |-> arg, n |-> n]), Append(<<>>, [x |-> arg, n |-> n])}
    BY <2>1 DEF Data, Bounds
  <2>3. /\ again' \in Nat /\ pc' # "begin" /\ poll' \in Nat /\ done' \in Nat
        /\ baseline' \in Nat /\ faults' \in 0..MAX_FAULTS /\ arg' = arg /\ active' = TRUE
    BY <2>1, BookAssumption DEF Call, Data, NumTypes, Bounds
  <2> QED BY <1>1, <2>1, <2>2, <2>3 DEF timers, Data, Bounds
<1>4. CASE Stop
  <2>1. /\ total' = 0 /\ idx' = 0 /\ highest' = 0 /\ chain' = 0 /\ turnGen' = turnGen + 1
        /\ group' = NoGroup /\ playGen' = playGen + 1 /\ poll' = 0 /\ status' = Empty
        /\ clips' = (IF active /\ up THEN <<>> ELSE clips)
        /\ UNCHANGED <<page, gen, waits, synths, turn, env, due, baseline, onComplete,
                       active, up, done, arg>>
        /\ pc' # "begin" /\ again' \in {again - 1, 0} /\ again' \in Nat
    BY <1>4 DEF Stop, EngineStop, Return, Data, NumTypes
  <2>2. NumTypes'
    BY <2>1, BookAssumption DEF Data, NumTypes, env
  <2>3. RecordTypes'
    BY <2>1, BookAssumption DEF Data, RecordTypes, NoGroup, Empty
  <2>4. PlaceTypes'
    BY <2>1 DEF Data, PlaceTypes
  <2>5. group'.first + group'.bnd <= SENTENCES /\ group'.first + group'.n <= SENTENCES + 1
    BY <2>1, BookAssumption DEF NoGroup
  <2>6. \A i \in Idx : status'[i] # "failed"
    BY <2>1 DEF Empty
  <2>7. Bounds'
    BY <2>1, <2>5, <2>6 DEF Data, NumTypes, RecordTypes, Bounds
  <2> QED BY <2>2, <2>3, <2>4, <2>7 DEF Data
<1> QED BY <1>2, <1>3, <1>4

\* Only piper makes a sentence wait, and piper is never asked twice at a time.
LEMMA PiperIsSingle ==
  ASSUME IInv, waits # {} \/ synths # {}
  PROVE  scen.voice = "piper" /\ ~MayDouble /\ Session
BY DEF IInv, Bounds, MayDouble

\* A wait that is not stale is for the sentence the session is at.
LEMMA WaitIsThis ==
  ASSUME IInv, pc = "idle", NEW w \in waits, ~Stale(w)
  PROVE  OnWait /\ w.x = This(idx) /\ state # "stopped" /\ ValidWaits = {w}
<1>1. Session /\ state # "stopped" /\ w \in ValidWaits
  BY PiperIsSingle DEF Stale, ValidWaits
<1>2. OnWait
  BY <1>1 DEF Session, Driven, OnSynth, OnChain, OnTurn, OnPoll
<1>3. PICK v \in waits : ValidWaits = {v} /\ v.x = This(idx)
  BY <1>2 DEF OnWait
<1> QED BY <1>1, <1>2, <1>3

\* And so is an on-demand synthesis.
LEMMA SynthIsThis ==
  ASSUME IInv, pc = "idle", NEW x \in synths
  PROVE  OnSynth /\ x = This(idx) /\ state # "stopped"
<1>1. Session
  BY PiperIsSingle
<1>2. state # "stopped" /\ OnSynth
  BY <1>1 DEF Session, Dormant, Driven, OnWait, OnChain, OnTurn, OnPoll
<1> QED BY <1>2 DEF OnSynth

\* The timers.
LEMMA DataOfTimers == ASSUME IInv, Data, scen' = scen, Timers PROVE Data'
<1>1. ASSUME UNCHANGED <<state, page, total, idx, gen, highest, turnGen, group, engine,
                         daemon, env>>,
             turn' \in {turn, NoTurn}, chain' \in {chain, 0}, again' = again,
             waits' \subseteq waits, synths' \in SUBSET Sentence,
             synths' \subseteq synths \/ (scen.fails /\ scen.voice = "piper"),
             status' = status \/ \E i \in Idx : status' = [status EXCEPT ![i] = "none"],
             arg' \in Sentence, due' \in Sentence,
             pc' = "begin" => total = SENTENCES /\ idx \in Idx /\ arg' = This(idx)
      PROVE  Data'
  <2>1. NumTypes'
    BY <1>1 DEF Data, NumTypes, engine, daemon, env
  <2>2. status' \in [Idx -> {"none", "queued", "ready", "failed"}]
        /\ (~scen.fails => \A i \in Idx : status'[i] # "failed")
    BY <1>1 DEF Data, RecordTypes, Bounds
  <2>3. NoTurn \in [gen : Nat, moved : BOOLEAN] /\ NoTurn.gen = 0
    BY DEF NoTurn
  <2>4. RecordTypes'
    BY <1>1, <2>2, <2>3 DEF Data, RecordTypes, engine
  <2>5. PlaceTypes'
    BY <1>1 DEF Data, PlaceTypes, daemon
  <2>6. turn'.gen <= turnGen /\ chain' <= gen
    BY <1>1, <2>3 DEF Data, NumTypes, Bounds
  <2>7. pc' = "begin" => total' = SENTENCES /\ idx' \in Idx /\ arg' = This(idx)'
    BY <1>1 DEF This
  <2>8. \A w \in waits' : w.gen <= gen'
    BY <1>1 DEF Data, Bounds
  <2>9. Bounds'
    BY <1>1, <2>2, <2>6, <2>7, <2>8 DEF Data, Bounds, engine, daemon
  <2> QED BY <2>1, <2>4, <2>5, <2>9 DEF Data
<1>2. ASSUME NEW x \in Sentence PROVE After(x) \in Sentence
  BY DEF After, Sentence
<1>3. UNCHANGED <<arg, due>> => arg' \in Sentence /\ due' \in Sentence
  BY DEF Data, PlaceTypes
<1>4. ASSUME NEW w \in waits, WaitIsStale(w) PROVE Data'
  <2>1. pc' = pc /\ pc = "idle" /\ UNCHANGED <<arg, again, due, synths, status, turn, chain>>
        /\ waits' \subseteq waits
    BY <1>4 DEF WaitIsStale, TimerRest, calls
  <2>2. UNCHANGED <<state, page, total, idx, gen, highest, turnGen, group, engine, daemon, env>>
    BY <1>4 DEF WaitIsStale, TimerRest, control
  <2> QED BY <1>1, <1>3, <2>1, <2>2 DEF Data, PlaceTypes
<1>5. ASSUME NEW w \in waits, WaitDelivers(w) PROVE Data'
  <2>1. OnWait /\ w.x = This(idx) /\ w.x \in Sentence
    BY <1>5, WaitIsThis, TheWaits DEF WaitDelivers, Data
  <2>2. w.x.s = idx /\ idx \in Idx /\ total = SENTENCES
    BY <2>1 DEF OnWait, This
  <2>3. /\ UNCHANGED <<again, due, synths, turn, chain, state, page, total, idx, gen, highest,
                       turnGen, group, engine, daemon, env>>
        /\ waits' \subseteq waits /\ arg' = w.x
        /\ status' = [status EXCEPT ![idx] = "none"]
    BY <1>5, <2>2 DEF WaitDelivers, CallBegin
  <2> QED BY <1>1, <1>3, <2>1, <2>2, <2>3 DEF Data, PlaceTypes
<1>6. ASSUME NEW x \in Sentence, x = This(idx), total = SENTENCES, idx \in Idx,
             EspeakOrSkip(x)
      PROVE  /\ arg' \in Sentence /\ due' \in Sentence /\ again' = again
             /\ pc' = "begin" => total = SENTENCES /\ idx \in Idx /\ arg' = This(idx)
  BY <1>2, <1>6 DEF EspeakOrSkip, CallBegin, Call, Pass, Data, PlaceTypes
<1>7. ASSUME NEW w \in waits, WaitFails(w) \/ WaitTimesOut(w) PROVE Data'
  <2>1. OnWait /\ w.x = This(idx) /\ w.x \in Sentence /\ status[idx] # "none"
    BY <1>7, WaitIsThis, TheWaits DEF WaitFails, WaitTimesOut, Data, OnWait
  <2>2. w.x.s = idx /\ idx \in Idx /\ total = SENTENCES
    BY <2>1 DEF OnWait, This
  <2>3. scen.fails /\ scen.voice = "piper"
    BY <1>7, <2>1, <2>2, PiperIsSingle DEF WaitFails, WaitTimesOut, Data, Bounds
  <2>4. /\ UNCHANGED <<status, turn, chain, state, page, total, idx, gen, highest,
                       turnGen, group, engine, daemon, env>>
        /\ waits' \subseteq waits
    BY <1>7 DEF WaitFails, WaitTimesOut, TimerRest, control
  <2>5. synths' \in SUBSET Sentence
    BY <1>7, <2>1 DEF WaitFails, WaitTimesOut, Data, PlaceTypes
  <2>6. CASE EspeakOrSkip(w.x)
    BY <1>1, <1>6, <2>1, <2>2, <2>3, <2>4, <2>5, <2>6
  <2>7. CASE UNCHANGED <<calls, due>> /\ pc = "idle"
    <3>1. UNCHANGED <<arg, again, due>> /\ pc' # "begin"
      BY <2>7 DEF calls
    <3> QED BY <1>1, <1>3, <2>3, <2>4, <2>5, <3>1
  <2> QED BY <1>7, <2>6, <2>7 DEF WaitFails, WaitTimesOut
<1>8. ASSUME NEW x \in synths, SynthDone(x) PROVE Data'
  <2>1. OnSynth /\ x = This(idx) /\ x \in Sentence
    BY <1>8, SynthIsThis DEF SynthDone, Data, PlaceTypes
  <2>2. idx \in Idx /\ total = SENTENCES
    BY <2>1 DEF OnSynth
  <2>3. /\ UNCHANGED <<status, turn, chain, state, page, total, idx, gen, highest,
                       turnGen, group, engine, daemon, env, waits>>
        /\ synths' \subseteq synths
    BY <1>8 DEF SynthDone, TimerRest, control
  <2>4. synths' \in SUBSET Sentence
    BY <2>3 DEF Data, PlaceTypes
  <2>5. CASE EspeakOrSkip(x)
    BY <1>1, <1>6, <2>1, <2>2, <2>3, <2>4, <2>5
  <2>6. CASE CallBegin(x) /\ UNCHANGED due
    BY <1>1, <2>1, <2>2, <2>3, <2>4, <2>6 DEF CallBegin, Data, PlaceTypes
  <2> QED BY <1>8, <2>5, <2>6 DEF SynthDone
<1>9. CASE ChainFires \/ TurnFires
  <2>1. /\ UNCHANGED <<status, state, page, total, idx, gen, highest, arg, due, again,
                       turnGen, group, engine, daemon, env, waits, synths>>
        /\ turn' \in {turn, NoTurn} /\ chain' \in {chain, 0} /\ pc' # "begin"
    BY <1>9 DEF ChainFires, TurnFires, Call, calls, control
  <2>2. synths' \in SUBSET Sentence
    BY <2>1 DEF Data, PlaceTypes
  <2> QED BY <1>1, <1>3, <2>1, <2>2
<1> QED BY <1>4, <1>5, <1>7, <1>8, <1>9 DEF Timers, Waits

\* The polls of the engine.
LEMMA DataOfPolls == ASSUME Data, scen' = scen, Polls \/ LinkFails PROVE Data'
<1>1. CASE DaemonUnreachable \/ RenderStalls \/ LinkFails
  <2>1. /\ UNCHANGED <<control, timers, playGen, baseline, onComplete, active, status,
                       daemon, cmds, due, arg, again>>
        /\ poll' = 0 /\ pc' = "stop" /\ faults' \in 0..MAX_FAULTS
    BY <1>1, BookAssumption DEF DaemonUnreachable, RenderStalls, LinkFails, PollFails, Call,
       Data, NumTypes
  <2>2. NumTypes'
    BY <2>1 DEF Data, NumTypes, control, timers, daemon
  <2>3. RecordTypes' /\ PlaceTypes'
    BY <2>1 DEF Data, RecordTypes, PlaceTypes, control, timers, daemon
  <2>4. Bounds'
    BY <2>1 DEF Data, Bounds, control, timers, daemon
  <2> QED BY <2>2, <2>3, <2>4 DEF Data
<1>2. CASE PlayCompletes
  <2>1. /\ UNCHANGED <<page, total, gen, highest, turnGen, calls, waits, synths, turn,
                       baseline, onComplete, active, status, daemon, env, due>>
        /\ poll' = 0 /\ pc = "idle" /\ poll # 0 /\ playGen' = playGen + 1
    BY <1>2 DEF PlayCompletes, PollDue
  <2>2. onComplete.n \in Idx
    BY <2>1 DEF Data, Bounds
  <2>3. \/ UNCHANGED <<idx, chain, group>>
        \/ idx' = idx + (onComplete.n - 1) /\ chain' = gen /\ group' = Undone
    BY <1>2 DEF PlayCompletes
  <2>4. NumTypes'
    BY <2>1, <2>2, <2>3, BookAssumption DEF Data, NumTypes, calls, daemon, env, Idx
  <2>5. group \in [first : 0..SENTENCES, n : 0..SENTENCES, bnd : 0..SENTENCES]
        /\ Heard \in 0..SENTENCES /\ 1 \in 0..SENTENCES /\ 0 \in 0..SENTENCES
    BY BookAssumption DEF Data, RecordTypes, Bounds, Heard
  <2>6. Undone \in [first : 0..SENTENCES, n : 0..SENTENCES, bnd : 0..SENTENCES]
        /\ Undone.first + Undone.bnd <= SENTENCES /\ Undone.first + Undone.n <= SENTENCES + 1
    BY <2>5, BookAssumption DEF Undone
  <2>7. RecordTypes'
    BY <2>1, <2>3, <2>5, <2>6 DEF Data, RecordTypes
  <2>8. PlaceTypes'
    BY <2>1 DEF Data, PlaceTypes, calls, daemon
  <2>9. idx \in Nat /\ idx' \in Nat /\ idx <= idx' /\ highest \in Nat /\ chain' <= gen
    BY <2>1, <2>2, <2>3, BookAssumption DEF Data, NumTypes, Bounds, Idx
  <2>10. Bounds'
    BY <2>1, <2>3, <2>6, <2>9 DEF Data, Bounds, calls, daemon
  <2> QED BY <2>4, <2>7, <2>8, <2>10 DEF Data
<1> QED BY <1>1, <1>2 DEF Polls

\* The sync loop.
LEMMA DataOfSyncs == ASSUME Data, scen' = scen, Syncs PROVE Data'
<1>1. UNCHANGED SyncRest /\ pc = "idle" /\ (group' = group \/ CrossBoundary)
  BY DEF Syncs, CrossBoundary, OverlayPauses, OverlayResumes, SyncTick
<1>2. NumTypes' /\ PlaceTypes'
  BY <1>1 DEF Data, NumTypes, PlaceTypes, SyncRest, calls, timers, env
<1>3. group' \in [first : 0..SENTENCES, n : 0..SENTENCES, bnd : 0..SENTENCES]
      /\ group'.first + group'.bnd <= SENTENCES /\ group'.first + group'.n <= SENTENCES + 1
  <2>1. group \in [first : 0..SENTENCES, n : 0..SENTENCES, bnd : 0..SENTENCES]
        /\ group.first + group.bnd <= SENTENCES /\ group.first + group.n <= SENTENCES + 1
    BY DEF Data, RecordTypes, Bounds
  <2>2. CASE CrossBoundary
    <3>1. group.bnd < group.n - 1 /\ group' = [group EXCEPT !.bnd = group.bnd + 1]
      BY <2>2 DEF CrossBoundary
    <3>2. group.first \in 0..SENTENCES /\ group.n \in 0..SENTENCES /\ group.bnd \in 0..SENTENCES
      BY <2>1
    <3>3. group.bnd + 1 \in 0..SENTENCES /\ group.first + (group.bnd + 1) <= SENTENCES
      BY <2>1, <3>1, <3>2, BookAssumption
    <3> QED BY <2>1, <3>1, <3>3
  <2> QED BY <1>1, <2>1, <2>2
<1>4. RecordTypes'
  BY <1>1, <1>3 DEF Data, RecordTypes, SyncRest, timers
<1>5. Bounds'
  BY <1>1, <1>3 DEF Data, Bounds, SyncRest, calls, timers
<1> QED BY <1>2, <1>4, <1>5 DEF Data

\* The place a jump goes to.
LEMMA TargetIsNatural ==
  ASSUME Data, NEW c \in {"bar_next", "media_next", "media_prev", "rate"}, MayJump(c)
  PROVE  Target(c) \in Nat \ {0}
<1>1. group \in [first : 0..SENTENCES, n : 0..SENTENCES, bnd : 0..SENTENCES] /\ idx \in Nat
  BY DEF Data, RecordTypes, NumTypes
<1>2. Heard \in Nat
  BY <1>1, BookAssumption DEF Heard
<1> QED BY <1>1, <1>2, BookAssumption DEF MayJump, Target, Idx

\* The user.
LEMMA DataOfUser == ASSUME Data, scen' = scen, User PROVE Data'
<1>1. cmds' \in 0..scen.max /\ faults' = faults
  <2>1. cmds < scen.max /\ cmds' = cmds + 1 /\ faults' = faults
    BY DEF User, UserStart, UserStop, UserPause, UserResume, Menu, UserJumps, Command
  <2>2. scen.max \in Nat /\ cmds \in 0..scen.max
    BY TheScenario DEF Data, NumTypes
  <2> QED BY <2>1, <2>2
<1>2. CASE UserStart \/ UserStop \/ Menu
  <2>1. UNCHANGED <<control, timers, engine, status, daemon, arg, again>>
        /\ pc' # "begin" /\ due' \in {due, This(1)}
    BY <1>2 DEF UserStart, UserStop, Menu, Command, Call, calls
  <2>2. NumTypes' /\ RecordTypes'
    BY <1>1, <2>1 DEF Data, NumTypes, RecordTypes, control, timers, engine, daemon
  <2>3. PlaceTypes'
    BY <2>1, BookAssumption DEF Data, NumTypes, PlaceTypes, This, Sentence, timers, daemon
  <2>4. Bounds'
    BY <2>1 DEF Data, Bounds, control, timers, engine, daemon
  <2> QED BY <2>2, <2>3, <2>4 DEF Data
<1>3. CASE UserPause \/ UserResume
  <2>1. UNCHANGED UserRest /\ pc = "idle"
    BY <1>3 DEF UserPause, UserResume, Command
  <2>2. NumTypes' /\ RecordTypes' /\ PlaceTypes'
    BY <1>1, <2>1 DEF Data, NumTypes, RecordTypes, PlaceTypes, UserRest, calls, timers
  <2>3. Bounds'
    BY <2>1 DEF Data, Bounds, UserRest, calls, timers
  <2> QED BY <2>2, <2>3 DEF Data
<1>4. CASE UserJumps
  <2>1. PICK c \in {"bar_next", "media_next", "media_prev", "rate"} :
          /\ MayJump(c) /\ EngineStop
          /\ highest' = 0 /\ idx' = Target(c) - 1 /\ group' = Undone
          /\ due' = IF Target(c) <= SENTENCES THEN This(Target(c))
                    ELSE IF due.page > page THEN due
                    ELSE [page |-> page, s |-> SENTENCES + 1]
          /\ Call("next")
          /\ UNCHANGED <<page, total, gen, turnGen, timers>>
    BY <1>4 DEF UserJumps
  <2>2. Target(c) \in Nat \ {0}
    BY <2>1, TargetIsNatural
  <2>3. NumTypes'
    BY <1>1, <2>1, <2>2, BookAssumption DEF EngineStop, Call, Data, NumTypes, timers
  <2>4. group \in [first : 0..SENTENCES, n : 0..SENTENCES, bnd : 0..SENTENCES]
        /\ Heard \in 0..SENTENCES /\ 1 \in 0..SENTENCES /\ 0 \in 0..SENTENCES
    BY BookAssumption DEF Data, RecordTypes, Bounds, Heard
  <2>5. Undone \in [first : 0..SENTENCES, n : 0..SENTENCES, bnd : 0..SENTENCES]
        /\ Undone.first + Undone.bnd <= SENTENCES /\ Undone.first + Undone.n <= SENTENCES + 1
    BY <2>4, BookAssumption DEF Undone
  <2>6. RecordTypes'
    BY <2>1, <2>5 DEF EngineStop, Data, RecordTypes, Empty, timers
  <2>7. due' \in Sentence
    BY <2>1, <2>2, BookAssumption DEF Data, NumTypes, PlaceTypes, This, Sentence
  <2>8. clips' \in Seq([x : Sentence, n : Idx])
    BY <2>1 DEF EngineStop, Data, PlaceTypes
  <2>9. PlaceTypes'
    BY <2>1, <2>7, <2>8 DEF Call, Data, PlaceTypes, timers
  <2>10. \A i \in Idx : status'[i] # "failed"
    BY <2>1 DEF EngineStop, Empty
  <2>11. Bounds'
    BY <2>1, <2>2, <2>5, <2>10 DEF EngineStop, Call, Data, Bounds, timers
  <2> QED BY <2>3, <2>6, <2>9, <2>11 DEF Data
<1> QED BY <1>2, <1>3, <1>4 DEF User

\* The other processes.
LEMMA DataOfOthers ==
  ASSUME Data, scen' = scen, Synthesises \/ DaemonPlays \/ DaemonDies \/ UNCHANGED vars
  PROVE  Data'
<1>1. CASE Synthesises
  <2>1. UNCHANGED <<control, calls, timers, engine, daemon, env, due>>
    BY <1>1 DEF Synthesises
  <2>2. NumTypes' /\ PlaceTypes'
    BY <2>1 DEF Data, NumTypes, PlaceTypes, control, calls, timers, engine, daemon, env
  <2>3. PICK i \in Idx : \E r \in {"ready"} \cup (IF scen.fails THEN {"failed"} ELSE {}) :
          status' = [status EXCEPT ![i] = r]
    BY <1>1 DEF Synthesises
  <2>4. PICK r \in {"ready"} \cup (IF scen.fails THEN {"failed"} ELSE {}) :
          status' = [status EXCEPT ![i] = r]
    BY <2>3
  <2>5. r = "ready" \/ (r = "failed" /\ scen.fails)
    OBVIOUS
  <2>6. RecordTypes'
    BY <2>1, <2>4, <2>5 DEF Data, RecordTypes, control, timers, engine
  <2>7. ~scen.fails => \A j \in Idx : status'[j] # "failed"
    BY <2>4, <2>5 DEF Data, RecordTypes, Bounds
  <2>8. Bounds'
    BY <2>1, <2>7 DEF Data, Bounds, This, control, calls, timers, engine, daemon
  <2> QED BY <2>2, <2>6, <2>8 DEF Data
<1>2. CASE DaemonPlays
  <2>1. /\ UNCHANGED <<control, calls, timers, engine, status, up, env>>
        /\ clips # <<>> /\ clips' = Tail(clips) /\ done' = done + 1
        /\ due' = [Head(clips).x EXCEPT !.s = @ + Head(clips).n] /\ up
    BY <1>2 DEF DaemonPlays
  <2>2. NumTypes'
    <3>1. done \in Nat
      BY DEF Data, NumTypes
    <3>2. done' \in Nat
      BY <2>1, <3>1
    <3> QED BY <2>1, <3>2 DEF Data, NumTypes, control, calls, timers, engine, env
  <2>3. RecordTypes'
    BY <2>1 DEF Data, RecordTypes, control, timers, engine
  <2> DEFINE E == [x : Sentence, n : Idx]
  <2>4. clips \in Seq(E)
    BY DEF Data, PlaceTypes
  <2> HIDE DEF E
  <2>5. Head(clips) \in E /\ Tail(clips) \in Seq(E)
    BY <2>1, <2>4, HeadTailProperties
  <2>6. Head(clips).x \in Sentence /\ Head(clips).n \in Nat
    BY <2>5, BookAssumption DEF E, Idx
  <2>7. due' \in Sentence
    BY <2>1, <2>6 DEF Sentence
  <2>8. PlaceTypes'
    BY <2>1, <2>5, <2>7 DEF Data, PlaceTypes, E, calls, timers
  <2>9. Bounds'
    BY <2>1 DEF Data, Bounds, This, control, calls, timers, engine
  <2> QED BY <2>2, <2>3, <2>8, <2>9 DEF Data
<1>3. CASE DaemonDies
  <2>1. UNCHANGED <<control, calls, timers, engine, status, cmds, due>>
        /\ done' = 0 /\ clips' = <<>> /\ faults' \in 0..MAX_FAULTS
    BY <1>3, BookAssumption DEF DaemonDies, Data, NumTypes
  <2>2. NumTypes'
    BY <2>1 DEF Data, NumTypes, control, calls, timers, engine
  <2>3. RecordTypes' /\ PlaceTypes'
    BY <2>1 DEF Data, RecordTypes, PlaceTypes, control, calls, timers, engine
  <2>4. Bounds'
    BY <2>1 DEF Data, Bounds, This, control, calls, timers, engine
  <2> QED BY <2>2, <2>3, <2>4 DEF Data
<1>4. CASE UNCHANGED vars
  <2>1. NumTypes'
    BY <1>4 DEF vars, Data, NumTypes, control, calls, timers, engine, daemon, env
  <2>2. RecordTypes' /\ PlaceTypes'
    BY <1>4 DEF vars, Data, RecordTypes, PlaceTypes, control, calls, timers, engine, daemon
  <2>3. Bounds'
    BY <1>4 DEF vars, Data, Bounds, This, control, calls, timers, engine, daemon
  <2> QED BY <2>1, <2>2, <2>3 DEF Data
<1> QED BY <1>1, <1>2, <1>3, <1>4

\* Every step keeps the counts and the places.
LEMMA DataStep == ASSUME Sane(scen), IInv, [Next]_vars PROVE Data'
<1>1. Data /\ scen' = scen
  BY TypeGroups, ScenarioFixed DEF IInv, Data
<1> QED BY <1>1, DataOfReading, DataOfSpeaking, DataOfPlaying, DataOfTimers, DataOfPolls,
        DataOfSyncs, DataOfUser, DataOfOthers, AlwaysStarts DEF Next, Calls

-----------------------------------------------------------------------------
(* The session, one action at a time.                                      *)

\* A new generation makes every timer of the sentences stale.
LEMMA NewGeneration ==
  ASSUME Data, gen' = gen + 1, waits' = waits, chain' = chain
  PROVE  ValidWaits' = {} /\ ~ChainLive'
<1>1. \A w \in waits : w.gen <= gen /\ w.gen \in Nat
  BY TheWaits DEF Data, Bounds
<1>2. gen \in Nat /\ chain \in Nat /\ chain <= gen
  BY DEF Data, NumTypes, Bounds
<1> QED BY <1>1, <1>2 DEF ValidWaits, ChainLive

\* The numbers of the session.
LEMMA TheNumbers ==
  ASSUME Data
  PROVE  /\ idx \in Nat /\ gen \in Nat /\ turnGen \in Nat /\ page \in 1..PAGES /\ highest \in Nat
         /\ SENTENCES \in Nat /\ SENTENCES > 0 /\ total \in {0, SENTENCES} /\ chain \in Nat
         /\ playGen \in Nat /\ poll \in Nat /\ done \in Nat /\ baseline \in Nat
         /\ highest <= idx /\ due \in Sentence /\ turn.gen \in Nat /\ turn.gen <= turnGen
         /\ group.first \in Nat /\ group.n \in Nat /\ group.bnd \in Nat
         /\ group.first + group.bnd <= SENTENCES /\ group.first + group.n <= SENTENCES + 1
<1>1. group \in [first : 0..SENTENCES, n : 0..SENTENCES, bnd : 0..SENTENCES]
      /\ turn \in [gen : Nat, moved : BOOLEAN]
  BY DEF Data, RecordTypes
<1> QED BY <1>1, BookAssumption DEF Data, NumTypes, PlaceTypes, Bounds

\* A handler that reads is at no page end that is being turned.
LEMMA SessionReads ==
  ASSUME Data, Session, pc = "next"
  PROVE  /\ Handed /\ state # "stopped" /\ total = SENTENCES /\ ~Rejected /\ again = 0
         /\ Reading => ~TurnLive /\ idx + 1 \in Idx /\ due = This(idx + 1)
         /\ AtPageEnd => due = This(SENTENCES + 1)
<1>1. Handed /\ state # "stopped" /\ (TurnLive => idx > SENTENCES) /\ again = 0
      /\ due = This(IF idx > SENTENCES THEN SENTENCES + 1 ELSE idx + 1)
  BY DEF Session
<1>2. total = SENTENCES
  BY <1>1 DEF Handed
<1> QED BY <1>1, <1>2, TheNumbers DEF Rejected, Reading, AtPageEnd, Idx

\* start and what readNextSentence does when it has nothing to read.
LEMMA SessionOfReading ==
  ASSUME Data, Session, scen' = scen, Start \/ ReadNothing \/ TurnPage PROVE Session'
<1> USE DEF Idx
<1>1. CASE Start
  <2>1. /\ pc = "start" /\ pc' = "next" /\ again' = again /\ state' = "loading"
        /\ total' = SENTENCES /\ idx' = 0 /\ gen' = gen + 1
        /\ UNCHANGED <<page, turnGen, group, waits, synths, chain, turn, speaking, clips, due>>
    BY <1>1 DEF Start, Call, timers, daemon
  <2>2. Dormant /\ due = This(1) /\ again = 0 /\ due.page <= page
    BY <2>1 DEF Session
  <2>3. ValidWaits' = {} /\ ~ChainLive'
    BY <2>1, NewGeneration
  <2>4. Handed' /\ ~TurnLive'
    BY <2>1, <2>2, <2>3 DEF Dormant, Handed, TurnLive
  <2>5. due' = This(IF idx > SENTENCES THEN SENTENCES + 1 ELSE idx + 1)'
    BY <2>1, <2>2, TheNumbers DEF This
  <2> QED BY <2>1, <2>2, <2>4, <2>5 DEF Session
<1>2. CASE ReadNothing
  <2>1. pc = "next"
    BY <1>2 DEF ReadNothing, AtPageEnd
  <2>2. AtPageEnd /\ Call("stop") /\ UNCHANGED <<page, synths, clips, due>>
    BY <1>2, <2>1, SessionReads DEF ReadNothing, timers, daemon
  <2>3. synths = {} /\ clips = <<>> /\ again = 0 /\ due.page <= page
    BY <2>1, SessionReads DEF Handed, Session
  <2> QED BY <2>2, <2>3 DEF Session, Call
<1>3. CASE TurnPage
  <2>1. /\ pc = "next" /\ AtPageEnd
        /\ idx' = idx + 1 /\ state' = "loading" /\ gen' = gen + 1 /\ turnGen' = turnGen + 1
        /\ turn' = [gen |-> turnGen + 1, moved |-> page < PAGES]
        /\ page' = (IF page < PAGES THEN page + 1 ELSE page)
        /\ due' = IF page < PAGES /\ due = [page |-> page, s |-> SENTENCES + 1]
                    THEN [page |-> page + 1, s |-> 1] ELSE due
        /\ Return
        /\ UNCHANGED <<total, group, waits, synths, chain, speaking, clips>>
    BY <1>3 DEF TurnPage, AtPageEnd, ViewMoves, engine, daemon
  <2>2. /\ Handed /\ total = SENTENCES /\ again = 0 /\ due.page <= page
        /\ due = [page |-> page, s |-> SENTENCES + 1] /\ due \in Sentence
    BY <2>1, SessionReads, TheNumbers DEF Session, This
  <2>3. ValidWaits' = {} /\ ~ChainLive'
    BY <2>1, NewGeneration
  <2>4. idx' > SENTENCES
    BY <2>1, <2>2 DEF AtPageEnd
  <2>5. turn'.gen = turnGen + 1 /\ turn'.moved = (page < PAGES) /\ TurnLive'
    BY <2>1, TheNumbers DEF TurnLive, NoTurn
  <2>6. (turn'.moved => due' = This(1)') /\ due'.page <= page'
    <3>1. CASE page < PAGES
      <4>1. page' = page + 1 /\ due' = [page |-> page + 1, s |-> 1]
        BY <2>1, <2>2, <3>1
      <4> QED BY <4>1, TheNumbers DEF This
    <3>2. CASE ~(page < PAGES)
      <4>1. page' = page /\ due' = due /\ ~turn'.moved
        BY <2>1, <3>2
      <4> QED BY <2>2, <4>1
    <3> QED BY <3>1, <3>2
  <2>7. OnTurn'
    BY <2>1, <2>2, <2>3, <2>4, <2>5, <2>6 DEF OnTurn, Handed
  <2>8. pc' = "idle" /\ again' = 0 /\ state' # "stopped"
    BY <2>1, <2>2 DEF Return
  <2> QED BY <2>6, <2>7, <2>8 DEF Session, Driven
<1> QED BY <1>1, <1>2, <1>3

\* The ways readNextSentence takes a sentence up.
LEMMA SessionOfSpeaking ==
  ASSUME Data, Session, ~MayDouble, scen' = scen,
         SpeakNow \/ SpeakFails \/ SkipSentence \/ UsePrefetched \/ AwaitPiper
  PROVE  Session'
<1>1. /\ pc = "next" /\ Reading /\ idx' = idx + 1 /\ state' = "loading"
      /\ UNCHANGED <<page, total, gen, turnGen, group, synths, chain, turn, speaking, clips>>
  BY DEF SpeakNow, SpeakFails, SkipSentence, UsePrefetched, AwaitPiper, Reading, ReadingRest,
     engine, daemon
<1>2. /\ Handed /\ ~TurnLive /\ idx + 1 \in Idx /\ due = This(idx + 1) /\ again = 0
      /\ due.page <= page /\ idx \in Nat
  BY <1>1, SessionReads, TheNumbers DEF Session
<1>3. This(idx)' = This(idx + 1) /\ ~TurnLive'
  BY <1>1, <1>2 DEF This, TurnLive
<1>4. waits' = waits => Handed'
  BY <1>1, <1>2 DEF Handed, ValidWaits, ChainLive
<1>5. ASSUME CallBegin(This(idx + 1)), UNCHANGED <<waits, due>> PROVE Session'
  BY <1>1, <1>2, <1>3, <1>4, <1>5 DEF Session, CallBegin
<1>6. CASE SpeakNow \/ UsePrefetched
  BY <1>5, <1>6 DEF SpeakNow, UsePrefetched
<1>7. CASE SpeakFails
  BY <1>7 DEF SpeakFails, MayDouble
<1>8. CASE SkipSentence
  <2>1. waits' = waits /\ pc' = "next" /\ again' = 0 /\ due' = After(This(idx + 1))
    BY <1>2, <1>8 DEF SkipSentence, Call, Pass
  <2>2. due' = This(IF idx > SENTENCES THEN SENTENCES + 1 ELSE idx + 1)' /\ due'.page <= page'
    BY <1>1, <1>2, <2>1, TheNumbers DEF After, This, Idx
  <2> QED BY <1>1, <1>3, <1>4, <2>1, <2>2 DEF Session
<1>9. CASE AwaitPiper
  <2>1. CASE CallBegin(This(idx + 1)) /\ UNCHANGED waits
    BY <1>5, <1>9, <2>1 DEF AwaitPiper
  <2>2. ASSUME NEW via,
               waits' = waits \cup {[gen |-> gen, x |-> This(idx + 1), via |-> via]}, Return
        PROVE  Session'
    <3> DEFINE w == [gen |-> gen, x |-> This(idx + 1), via |-> via]
    <3>1. w.gen = gen /\ w.x = This(idx + 1) /\ waits' = waits \cup {w}
      BY <2>2
    <3> HIDE DEF w
    <3>2. ValidWaits' = {w} /\ w \in waits' /\ w.x = This(idx)'
      BY <1>1, <1>2, <1>3, <3>1 DEF Handed, ValidWaits
    <3>3. status'[idx + 1] # "none" /\ UNCHANGED due
      BY <1>2, <1>9 DEF AwaitPiper, Idx
    <3>4. ~ChainLive'
      BY <1>1, <1>2, <1>9 DEF AwaitPiper, Handed, ChainLive
    <3>5. OnWait'
      BY <1>1, <1>2, <1>3, <3>2, <3>3, <3>4 DEF OnWait, Handed
    <3>6. pc' = "idle" /\ again' = 0
      BY <1>2, <2>2 DEF Return
    <3> QED BY <1>1, <1>2, <3>3, <3>5, <3>6 DEF Session, Driven
  <2> QED BY <1>9, <2>1, <2>2 DEF AwaitPiper
<1> QED BY <1>6, <1>7, <1>8, <1>9

\* The play of a group, and a stop.
LEMMA SessionOfPlaying ==
  ASSUME Data, Session, scen' = scen, PlayAccepted \/ PlayFails \/ Stop
  PROVE  Session'
<1>1. ASSUME pc = "begin"
      PROVE  /\ Handed /\ ~TurnLive /\ state # "stopped" /\ due = This(idx) /\ again = 0
             /\ idx \in Idx /\ arg = This(idx) /\ arg.s = idx /\ due.page <= page
             /\ clips = <<>> /\ total = SENTENCES /\ synths = {}
  BY <1>1 DEF Session, Handed, Data, Bounds, This
<1>2. CASE PlayAccepted
  <2>1. PICK n \in 1..SENTENCES :
          /\ Begun(n) /\ Return /\ UNCHANGED BeginRest
          /\ speaking' = TRUE /\ playGen' = playGen + 1 /\ poll' = playGen + 1
          /\ onComplete' = Play(n)
          /\ clips' = Append(IF up THEN clips ELSE <<>>, [x |-> arg, n |-> n])
          /\ baseline' = done'
    BY <1>2 DEF PlayAccepted, Baseline
  <2>2. /\ pc = "begin" /\ state' = "playing" /\ gen' = gen + 1
        /\ UNCHANGED <<page, total, idx, turnGen, waits, synths, chain, turn, due>>
    BY <2>1 DEF Begun, BeginRest, timers
  <2>3. group' = [first |-> idx, n |-> n, bnd |-> 0]
        /\ onComplete' = [gen |-> gen + 1, first |-> idx, n |-> n]
    BY <1>1, <2>1, <2>2 DEF Begun, Play
  <2>4. clips' = <<[x |-> This(idx), n |-> n]>>
    BY <1>1, <2>1, <2>2
  <2>5. This(idx)' = This(idx)
    BY <2>2 DEF This
  <2>6. ValidWaits' = {} /\ ~ChainLive'
    BY <2>2, NewGeneration
  <2>7. PollLive' /\ ~TurnLive' /\ gen' > 0
    <3>1. ~TurnLive'
      BY <1>1, <2>2 DEF TurnLive
    <3>2. onComplete'.gen = gen'
      BY <2>2, <2>3
    <3>3. poll' = playGen + 1 /\ playGen' = playGen + 1 /\ gen' = gen + 1
      BY <2>1, <2>2
    <3>4. playGen \in Nat /\ gen \in Nat
      BY TheNumbers
    <3>5. poll' = playGen' /\ poll' # 0 /\ gen' > 0
      BY <3>3, <3>4
    <3> QED BY <3>1, <3>2, <3>5 DEF PollLive
  <2>8. OnPoll'
    BY <1>1, <2>1, <2>2, <2>3, <2>4, <2>5, <2>6, <2>7 DEF OnPoll, Idx
  <2>9. pc' = "idle" /\ again' = 0
    BY <1>1, <2>1, <2>2 DEF Return
  <2> QED BY <1>1, <2>2, <2>8, <2>9 DEF Session, Driven
<1>3. CASE PlayFails
  <2>1. PICK n \in 1..SENTENCES :
          /\ Begun(n) /\ Call("stop")
          /\ clips' \in {IF up THEN clips ELSE <<>>,
                         Append(IF up THEN clips ELSE <<>>, [x |-> arg, n |-> n])}
          /\ UNCHANGED <<page, timers, due>>
    BY <1>3 DEF PlayFails, FailsRest
  <2>2. pc = "begin" /\ pc' = "stop" /\ again' = again /\ UNCHANGED <<page, synths, due>>
    BY <2>1 DEF Begun, Call, timers
  <2>3. clips' = <<>> \/ clips' = <<[x |-> This(idx), n |-> n]>>
    BY <1>1, <2>1, <2>2
  <2>4. clips' # <<>> => Len(clips') = 1 /\ Head(clips').x = due'
    BY <1>1, <2>2, <2>3
  <2> QED BY <1>1, <2>2, <2>4 DEF Session
<1>4. CASE Stop
  <2>1. /\ pc = "stop" /\ state' = "stopped" /\ turnGen' = turnGen + 1 /\ group' = NoGroup
        /\ speaking' = FALSE /\ clips' = (IF active /\ up THEN <<>> ELSE clips)
        /\ Return /\ UNCHANGED <<page, synths, turn, due>>
    BY <1>4 DEF Stop, EngineStop
  <2>2. synths = {} /\ again = 0 /\ due.page <= page
    BY <2>1 DEF Session
  <2>3. clips' = <<>>
    BY <2>1 DEF Data, Bounds
  <2>4. ~TurnLive'
    BY <2>1, TheNumbers DEF TurnLive
  <2>5. pc' = "idle" /\ again' = 0
    BY <2>1, <2>2 DEF Return
  <2> QED BY <2>1, <2>2, <2>3, <2>4, <2>5 DEF Session, Dormant, NoGroup
<1> QED BY <1>2, <1>3, <1>4

\* A synthesis that hands over: the sentence is played, or passed over.
LEMMA SessionOfCallback ==
  ASSUME Data, Session, scen' = scen, Handed', ~TurnLive', state' # "stopped", state' = state,
         UNCHANGED <<page, idx, again>>, idx \in Idx, due = This(idx),
         EspeakOrSkip(This(idx)) \/ (CallBegin(This(idx)) /\ UNCHANGED due)
  PROVE  Session'
<1>1. again = 0 /\ due.page <= page /\ idx \in 1..SENTENCES /\ This(idx)' = This(idx)
  BY DEF Session, This, Idx
<1>2. CASE CallBegin(This(idx)) /\ UNCHANGED due
  BY <1>1, <1>2 DEF CallBegin, Session
<1>3. CASE Call("next") /\ Pass(This(idx))
  <2>1. due' = After(This(idx)) /\ pc' = "next" /\ again' = again
    BY <1>3 DEF Call, Pass
  <2>2. due' = This(IF idx > SENTENCES THEN SENTENCES + 1 ELSE idx + 1)' /\ due'.page <= page'
    BY <1>1, <2>1, TheNumbers DEF After, This
  <2> QED BY <1>1, <2>1, <2>2 DEF Session
<1> QED BY <1>2, <1>3 DEF EspeakOrSkip

\* The timers.
LEMMA SessionOfTimers ==
  ASSUME IInv, Data, Session, scen' = scen, Timers
  PROVE  Session'
<1>1. again = 0 /\ due.page <= page
  BY DEF Session
<1>2. ASSUME NEW w \in waits, WaitIsStale(w) PROVE Session'
  <2>1. /\ pc = "idle" /\ waits' = waits \ {w} /\ Stale(w)
        /\ UNCHANGED <<control, engine, daemon, chain, turn, calls, synths, status, due>>
    BY <1>2 DEF WaitIsStale, TimerRest
  <2>2. CASE state = "stopped"
    BY <1>1, <2>1, <2>2 DEF Session, Dormant, TurnLive, control, engine, daemon, calls
  <2>3. CASE state # "stopped"
    <3>1. w.gen # gen
      BY <2>1, <2>3 DEF Stale
    <3>2. ValidWaits' = ValidWaits /\ \A v \in ValidWaits : v \in waits'
      BY <2>1, <3>1 DEF ValidWaits, control
    <3>3. OnWait => OnWait'
      BY <2>1, <3>2 DEF OnWait, This, ChainLive, TurnLive, control, engine, daemon
    <3>4. (OnSynth => OnSynth') /\ (OnChain => OnChain') /\ (OnTurn => OnTurn')
      BY <2>1, <3>2 DEF OnSynth, OnChain, OnTurn, This, ChainLive, TurnLive, control, engine,
         daemon
    <3>5. OnPoll => OnPoll'
      BY <2>1, <3>2 DEF OnPoll, This, ChainLive, TurnLive, PollLive, control, engine, daemon
    <3>6. Driven'
      BY <2>1, <2>3, <3>3, <3>4, <3>5 DEF Session, Driven
    <3> QED BY <1>1, <2>1, <2>3, <3>6 DEF Session, control, calls
  <2> QED BY <2>2, <2>3
<1>3. ASSUME NEW w \in waits, WaitDelivers(w) PROVE Session'
  <2>1. OnWait /\ w.x = This(idx) /\ state # "stopped" /\ ValidWaits = {w}
    BY <1>3, WaitIsThis DEF WaitDelivers
  <2>2. /\ waits' = waits \ {w} /\ CallBegin(This(idx))
        /\ UNCHANGED <<state, page, total, idx, gen, turnGen, group, engine, daemon, chain,
                       turn, synths, due>>
    BY <1>3, <2>1 DEF WaitDelivers
  <2>3. ValidWaits' = {}
    BY <2>1, <2>2 DEF ValidWaits
  <2>4. Handed' /\ ~TurnLive'
    BY <2>1, <2>2, <2>3 DEF OnWait, Handed, ChainLive, TurnLive, engine, daemon
  <2>5. due' = This(idx)' /\ pc' = "begin" /\ again' = again
    BY <2>1, <2>2 DEF OnWait, This, CallBegin
  <2> QED BY <1>1, <2>1, <2>2, <2>4, <2>5 DEF Session
<1>4. ASSUME NEW w \in waits, WaitFails(w) \/ WaitTimesOut(w) PROVE Session'
  <2>1. OnWait /\ w.x = This(idx) /\ state # "stopped" /\ ValidWaits = {w}
    BY <1>4, WaitIsThis DEF WaitFails, WaitTimesOut
  <2>2. waits' = waits \ {w} /\ UNCHANGED <<control, engine, daemon, chain, turn>>
        /\ pc = "idle"
    BY <1>4 DEF WaitFails, WaitTimesOut, TimerRest
  <2>3. ValidWaits' = {}
    BY <2>1, <2>2 DEF ValidWaits, control
  <2>4. CASE synths' = synths \cup {w.x} /\ UNCHANGED <<calls, due>>
    <3>1. OnSynth'
      BY <2>1, <2>2, <2>3, <2>4 DEF OnWait, OnSynth, ChainLive, TurnLive, This, control, engine,
         daemon
    <3> QED BY <1>1, <2>1, <2>2, <2>4, <3>1 DEF Session, Driven, control, calls
  <2>5. CASE EspeakOrSkip(w.x) /\ UNCHANGED synths
    <3>1. Handed' /\ ~TurnLive' /\ UNCHANGED <<state, page, idx>> /\ idx \in Idx /\ due = This(idx)
      BY <2>1, <2>2, <2>3, <2>5 DEF OnWait, Handed, ChainLive, TurnLive, control, engine, daemon
    <3>2. again' = again
      BY <2>5 DEF EspeakOrSkip, CallBegin, Call
    <3> QED BY <2>1, <2>5, <3>1, <3>2, SessionOfCallback
  <2> QED BY <1>4, <2>4, <2>5 DEF WaitFails, WaitTimesOut
<1>5. ASSUME NEW x \in synths, SynthDone(x) PROVE Session'
  <2>1. OnSynth /\ x = This(idx) /\ state # "stopped"
    BY <1>5, SynthIsThis DEF SynthDone
  <2>2. synths' = synths \ {x} /\ UNCHANGED <<control, engine, daemon, chain, turn, waits>>
        /\ (EspeakOrSkip(This(idx)) \/ (CallBegin(This(idx)) /\ UNCHANGED due))
    BY <1>5, <2>1 DEF SynthDone, TimerRest
  <2>3. Handed' /\ ~TurnLive' /\ UNCHANGED <<state, page, idx>> /\ idx \in Idx /\ due = This(idx)
    BY <2>1, <2>2 DEF OnSynth, Handed, ValidWaits, ChainLive, TurnLive, control, engine, daemon
  <2>4. again' = again
    BY <2>2 DEF EspeakOrSkip, CallBegin, Call
  <2> QED BY <2>1, <2>2, <2>3, <2>4, SessionOfCallback
<1>6. CASE ChainFires
  <2>1. /\ pc = "idle" /\ chain # 0 /\ chain' = 0 /\ ~ChainLive'
        /\ UNCHANGED <<control, waits, synths, turn, engine, status, daemon, due>>
        /\ ValidWaits' = ValidWaits /\ (TurnLive' <=> TurnLive)
    BY <1>6 DEF ChainFires, ChainLive, ValidWaits, TurnLive, control
  <2>2. CASE state = "stopped"
    <3>1. UNCHANGED calls
      BY <1>6, <2>2 DEF ChainFires, ChainIsDue
    <3> QED BY <1>1, <2>1, <2>2, <3>1 DEF Session, Dormant, control, engine, daemon, calls
  <2>3. CASE state # "stopped" /\ ChainLive
    <3>1. OnChain
      BY <2>1, <2>3 DEF Session, Driven, OnWait, OnSynth, OnTurn, OnPoll
    <3>2. pc' = "next" /\ again' = again
      BY <1>6, <2>3 DEF ChainFires, ChainIsDue, ChainLive, Call
    <3>3. Handed' /\ ~TurnLive'
      BY <2>1, <3>1 DEF OnChain, Handed, control, engine, daemon
    <3>4. due' = This(IF idx > SENTENCES THEN SENTENCES + 1 ELSE idx + 1)'
      BY <2>1, <3>1, TheNumbers DEF OnChain, This, Idx, control
    <3> QED BY <1>1, <2>1, <2>3, <3>2, <3>3, <3>4 DEF Session, control
  <2>4. CASE state # "stopped" /\ ~ChainLive
    <3>1. UNCHANGED calls
      BY <1>6, <2>1, <2>4 DEF ChainFires, ChainIsDue, ChainLive
    <3>2. (OnWait => OnWait') /\ (OnSynth => OnSynth') /\ (OnTurn => OnTurn') /\ ~OnChain
      BY <2>1, <2>4 DEF OnWait, OnSynth, OnChain, OnTurn, This, control, engine, daemon
    <3>3. OnPoll => OnPoll'
      BY <2>1 DEF OnPoll, This, PollLive, control, engine, daemon
    <3>4. Driven'
      BY <2>1, <2>4, <3>2, <3>3 DEF Session, Driven
    <3> QED BY <1>1, <2>1, <2>4, <3>1, <3>4 DEF Session, control, calls
  <2> QED BY <2>2, <2>3, <2>4
<1>7. CASE TurnFires
  <2>1. /\ pc = "idle" /\ turn # NoTurn /\ turn' = NoTurn /\ ~TurnLive'
        /\ UNCHANGED <<control, waits, synths, chain, engine, status, daemon, due>>
        /\ ValidWaits' = ValidWaits /\ (ChainLive' <=> ChainLive)
    BY <1>7 DEF TurnFires, ChainLive, ValidWaits, TurnLive, control
  <2>2. CASE state = "stopped"
    <3>1. UNCHANGED calls
      BY <1>7, <2>2 DEF TurnFires
    <3> QED BY <1>1, <2>1, <2>2, <3>1 DEF Session, Dormant, control, engine, daemon, calls
  <2>3. CASE state # "stopped" /\ TurnLive
    <3>1. OnTurn
      BY <2>1, <2>3 DEF Session, Driven, OnWait, OnSynth, OnChain, OnPoll
    <3>2. pc' = (IF turn.moved THEN "start" ELSE "stop") /\ again' = again
      BY <1>7, <2>3 DEF TurnFires, TurnLive, Call
    <3>3. Dormant' /\ (turn.moved => due' = This(1)')
      BY <2>1, <3>1 DEF OnTurn, Dormant, This, control, engine, daemon
    <3> QED BY <1>1, <2>1, <3>2, <3>3 DEF Session, Dormant, control
  <2>4. CASE state # "stopped" /\ ~TurnLive
    <3>1. UNCHANGED calls
      BY <1>7, <2>1, <2>4 DEF TurnFires, TurnLive
    <3>2. (OnWait => OnWait') /\ (OnSynth => OnSynth') /\ (OnChain => OnChain') /\ ~OnTurn
      BY <2>1, <2>4 DEF OnWait, OnSynth, OnChain, OnTurn, This, control, engine, daemon
    <3>3. OnPoll => OnPoll'
      BY <2>1 DEF OnPoll, This, PollLive, control, engine, daemon
    <3>4. Driven'
      BY <2>1, <2>4, <3>2, <3>3 DEF Session, Driven
    <3> QED BY <1>1, <2>1, <2>4, <3>1, <3>4 DEF Session, control, calls
  <2> QED BY <2>2, <2>3, <2>4
<1> QED BY <1>2, <1>3, <1>4, <1>5, <1>6, <1>7 DEF Timers, Waits

\* A play that sounds is what the session hangs on, and what it left is due.
LEMMA SpeakingIsOnPoll ==
  ASSUME Data, Session, pc = "idle", speaking \/ clips # <<>>
  PROVE  OnPoll /\ state # "stopped"
BY DEF Session, Dormant, Driven, OnWait, OnSynth, OnChain, OnTurn

\* At most one clip is left in the daemon, and it is the sentence that is due.
LEMMA ClipIsDue ==
  ASSUME EnumTypes, Data, Session, clips # <<>>
  PROVE  Len(clips) = 1 /\ Head(clips).x = due /\ pc \in {"idle", "stop"}
<1>1. CASE pc = "idle"
  <2>1. OnPoll /\ up
    BY <1>1, SpeakingIsOnPoll DEF Data, Bounds
  <2>2. clips = <<[x |-> This(idx), n |-> group.n]>> /\ due = This(idx)
    BY <2>1 DEF OnPoll
  <2> QED BY <1>1, <2>2
<1>2. CASE pc = "stop"
  BY <1>2 DEF Session
<1>3. CASE pc \in {"start", "next", "begin"}
  BY <1>3 DEF Session, Dormant, Handed
<1> QED BY <1>1, <1>2, <1>3 DEF EnumTypes

\* The polls of the engine.
LEMMA SessionOfPolls ==
  ASSUME EnumTypes, Data, Session, scen' = scen, Polls \/ LinkFails PROVE Session'
<1>1. pc = "idle" /\ speaking /\ again = 0 /\ due.page <= page
  BY DEF Polls, DaemonUnreachable, RenderStalls, PlayCompletes, LinkFails, PollFails, PollDue,
     Session
<1>2. OnPoll /\ state # "stopped"
  BY <1>1, SpeakingIsOnPoll
<1>3. CASE DaemonUnreachable \/ RenderStalls \/ LinkFails
  <2>1. pc' = "stop" /\ again' = again /\ UNCHANGED <<page, synths, clips, due>>
    BY <1>3 DEF DaemonUnreachable, RenderStalls, LinkFails, PollFails, Call, control, timers, daemon
  <2>2. synths = {} /\ (clips # <<>> => Len(clips) = 1 /\ Head(clips).x = due)
    BY <1>2, ClipIsDue DEF OnPoll
  <2> QED BY <1>1, <2>1, <2>2 DEF Session
<1>4. CASE PlayCompletes
  <2>1. up /\ done > baseline /\ onComplete.gen = gen
    BY <1>2, <1>4 DEF PlayCompletes, OnPoll, PollLive
  <2>2. clips = <<>> /\ due = This(idx + group.n) /\ idx \in Idx /\ group.n \in Idx
        /\ group.n = onComplete.n /\ group.first = idx
    BY <1>2, <2>1, TheNumbers DEF OnPoll
  <2>3. /\ speaking' = FALSE /\ idx' = idx + (onComplete.n - 1) /\ chain' = gen /\ group' = Undone
        /\ UNCHANGED <<state, page, total, gen, turnGen, calls, waits, synths, turn, clips, due>>
    BY <1>4, <2>1 DEF PlayCompletes, daemon
  <2>4. group'.bnd = 0 /\ group'.first = idx + group.bnd
    BY <2>2, <2>3 DEF Undone, Heard
  <2>5. idx' = idx + group.n - 1 /\ idx' \in Idx /\ group'.first \in Idx
    <3> DEFINE n == group.n
    <3>1. n \in 1..SENTENCES /\ idx \in 1..SENTENCES /\ SENTENCES \in Nat
          /\ idx + n <= SENTENCES + 1 /\ group.bnd \in Nat /\ idx + group.bnd <= SENTENCES
      BY <2>2, TheNumbers DEF Idx
    <3>2. idx' = idx + (n - 1)
      BY <2>2, <2>3
    <3> HIDE DEF n
    <3>3. idx' = idx + n - 1 /\ idx' \in 1..SENTENCES
      BY <3>1, <3>2
    <3>4. group'.first \in 1..SENTENCES
      BY <2>4, <3>1
    <3> QED BY <3>3, <3>4 DEF Idx, n
  <2>6. idx + group.n = idx' + 1
    BY <2>2, <2>5 DEF Idx
  <2>7. due' = This(idx + 1)'
    BY <2>2, <2>3, <2>6 DEF This
  <2>8. ValidWaits' = {} /\ ChainLive' /\ ~TurnLive'
    <3>1. ValidWaits = {} /\ ~TurnLive /\ gen > 0 /\ gen \in Nat
      BY <1>2, TheNumbers DEF OnPoll
    <3>2. UNCHANGED <<gen, turnGen, waits, turn>> /\ chain' = gen
      BY <2>3
    <3> QED BY <3>1, <3>2 DEF ValidWaits, ChainLive, TurnLive
  <2>9. OnChain'
    BY <1>2, <2>2, <2>3, <2>4, <2>5, <2>7, <2>8 DEF OnPoll, OnChain
  <2> QED BY <1>1, <1>2, <2>3, <2>9 DEF Session, Driven, calls
<1> QED BY <1>3, <1>4 DEF Polls

\* What pauses, resumes and boundaries change is no part of what a session
\* hangs on.
LEMMA SessionOfPauses ==
  ASSUME Data, Session, scen' = scen, pc = "idle", state # "stopped",
         state' = state \/ (state = "playing" /\ state' = "paused")
                        \/ (state = "paused" /\ state' = "playing"),
         group' = group \/ (speaking /\ group' = [group EXCEPT !.bnd = @ + 1]),
         UNCHANGED <<page, total, idx, gen, turnGen, calls, timers, playGen, speaking, poll,
                     baseline, onComplete, status, up, clips, done, due>>
  PROVE  Session'
<1>1. Driven /\ again = 0 /\ due.page <= page
  BY DEF Session
<1>2. ValidWaits' = ValidWaits /\ (ChainLive' <=> ChainLive) /\ (TurnLive' <=> TurnLive)
      /\ (PollLive' <=> PollLive) /\ waits' = waits /\ synths' = synths /\ turn' = turn
  BY DEF ValidWaits, ChainLive, TurnLive, PollLive, timers
<1>3. ASSUME OnWait \/ OnSynth \/ OnChain PROVE Driven'
  <2>1. group' = group
    BY <1>3 DEF OnWait, OnSynth, OnChain
  <2> QED BY <1>2, <1>3, <2>1 DEF Driven, OnWait, OnSynth, OnChain, This
<1>4. ASSUME OnTurn PROVE Driven'
  BY <1>2, <1>4 DEF Driven, OnTurn, This
<1>5. ASSUME OnPoll PROVE Driven'
  <2>1. group'.first = group.first /\ group'.n = group.n
    BY DEF Data, RecordTypes
  <2>2. OnPoll'
    BY <1>2, <1>5, <2>1 DEF OnPoll, This
  <2> QED BY <2>2 DEF Driven
<1>6. pc' = "idle" /\ again' = again /\ state' # "stopped"
  BY DEF calls
<1> QED BY <1>1, <1>3, <1>4, <1>5, <1>6 DEF Driven, Session

\* The sync loop.
LEMMA SessionOfSyncs == ASSUME Data, Session, scen' = scen, Syncs PROVE Session'
<1>1. /\ pc = "idle" /\ state # "stopped"
      /\ UNCHANGED <<page, total, idx, gen, turnGen, calls, timers, playGen, speaking, poll,
                     baseline, onComplete, status, up, clips, done, due>>
  BY DEF Syncs, CrossBoundary, OverlayPauses, OverlayResumes, SyncTick, SyncRest
<1>2. group' = group \/ (speaking /\ group' = [group EXCEPT !.bnd = @ + 1])
  BY DEF Syncs, CrossBoundary, OverlayPauses, OverlayResumes
<1>3. state' = state \/ (state = "playing" /\ state' = "paused")
                     \/ (state = "paused" /\ state' = "playing")
  BY DEF Syncs, CrossBoundary, OverlayPauses, OverlayResumes
<1> QED BY <1>1, <1>2, <1>3, SessionOfPauses

\* The user.
LEMMA SessionOfUser ==
  ASSUME EnumTypes, Data, Session, Sane(scen), scen' = scen, User PROVE Session'
<1>1. pc = "idle" /\ again = 0 /\ due.page <= page
      /\ (IF state = "stopped" THEN Dormant ELSE Driven)
  BY DEF User, UserStart, UserStop, UserPause, UserResume, Menu, UserJumps, Command, Session
<1>2. CASE UserStart
  <2>1. /\ state = "stopped" /\ due' = This(1) /\ pc' = "start" /\ again' = again
        /\ UNCHANGED <<control, timers, engine, status, daemon>>
    BY <1>2 DEF UserStart, Call
  <2>2. Dormant' /\ due' = This(1)' /\ due'.page <= page'
    BY <1>1, <2>1, TheNumbers DEF Dormant, TurnLive, This, control, timers, engine, daemon
  <2> QED BY <1>1, <2>1, <2>2 DEF Session
<1>3. CASE UserStop
  <2>1. /\ "stop" \in scen.cmds /\ pc' = "stop" /\ again' = again
        /\ UNCHANGED <<control, timers, engine, status, daemon, due>>
    BY <1>3 DEF UserStop, Command, Call
  <2>2. synths = {}
    BY <2>1 DEF Data, Bounds, Sane
  <2>3. clips # <<>> => Len(clips) = 1 /\ Head(clips).x = due
    BY ClipIsDue
  <2> QED BY <1>1, <2>1, <2>2, <2>3 DEF Session, control, timers, daemon
<1>4. CASE UserPause \/ UserResume
  <2>1. /\ state # "stopped"
        /\ (state = "playing" /\ state' = "paused") \/ (state = "paused" /\ state' = "playing")
        /\ UNCHANGED UserRest
    BY <1>4 DEF UserPause, UserResume
  <2> QED BY <1>1, <2>1, SessionOfPauses DEF UserRest
<1>5. CASE Menu
  <2>1. UNCHANGED <<control, calls, timers, engine, status, daemon, due>>
    BY <1>5 DEF Menu
  <2>2. CASE state = "stopped"
    BY <1>1, <2>1, <2>2 DEF Session, Dormant, TurnLive, control, calls, timers, engine, daemon
  <2>3. CASE state # "stopped"
    BY <1>1, <2>1, <2>3, SessionOfPauses DEF control, calls, timers, engine, daemon
  <2> QED BY <2>2, <2>3
<1>6. CASE UserJumps
  <2>1. PICK c \in Jumps :
          /\ Command(c) /\ MayJump(c) /\ EngineStop
          /\ idx' = Target(c) - 1 /\ group' = Undone
          /\ due' = IF Target(c) <= SENTENCES THEN This(Target(c))
                    ELSE IF due.page > page THEN due
                    ELSE [page |-> page, s |-> SENTENCES + 1]
          /\ Call("next") /\ UNCHANGED <<state, page, total, gen, turnGen, timers>>
    BY <1>6 DEF UserJumps, Jumps
  <2>2. scen.voice # "piper" /\ state # "stopped" /\ total = SENTENCES /\ Driven
    BY <1>1, <2>1, TheNumbers DEF Command, MayJump, Sane
  <2>3. Target(c) \in Nat \ {0} /\ idx' \in Nat /\ Target(c) = idx' + 1
    BY <2>1, TargetIsNatural DEF Jumps
  <2>4. waits = {} /\ synths = {}
    BY <2>2 DEF Data, Bounds
  <2>5. /\ pc' = "next" /\ again' = 0 /\ speaking' = FALSE /\ clips' = <<>> /\ group'.bnd = 0
        /\ waits' = {} /\ synths' = {}
    BY <1>1, <2>1, <2>4 DEF EngineStop, Call, Undone, Data, Bounds, timers
  <2>6. Handed'
    BY <2>1, <2>2, <2>5 DEF Handed, ValidWaits
  <2>7. TurnLive' => idx' > SENTENCES
    <3>1. ASSUME TurnLive PROVE OnTurn
      BY <2>2, <3>1 DEF Driven, OnWait, OnSynth, OnChain, OnPoll
    <3>2. ASSUME OnTurn PROVE Target(c) = idx + 1 /\ idx > SENTENCES
      <4>1. c = "bar_next" /\ group.bnd = 0 /\ idx > SENTENCES
        BY <2>1, <3>2 DEF MayJump, OnTurn, Jumps
      <4> QED BY <4>1 DEF Target
    <3>3. TurnLive' <=> TurnLive
      BY <2>1 DEF TurnLive, timers
    <3> QED BY <2>3, <3>1, <3>2, <3>3, TheNumbers
  <2>8. due' = This(IF idx > SENTENCES THEN SENTENCES + 1 ELSE idx + 1)' /\ due'.page <= page'
    <3>1. CASE idx' < SENTENCES
      <4>1. due' = This(Target(c)) /\ page' = page
        BY <2>1, <2>3, <3>1, TheNumbers
      <4> QED BY <2>3, <3>1, <4>1, TheNumbers DEF This
    <3>2. CASE idx' >= SENTENCES
      <4>1. due' = [page |-> page, s |-> SENTENCES + 1] /\ page' = page
        <5>1. ~(Target(c) <= SENTENCES) /\ ~(due.page > page)
          BY <1>1, <2>3, <3>2, TheNumbers DEF Sentence
        <5> QED BY <2>1, <5>1
      <4>2. (IF idx' > SENTENCES THEN SENTENCES + 1 ELSE idx' + 1) = SENTENCES + 1
        BY <2>3, <3>2, TheNumbers
      <4> QED BY <4>1, <4>2, TheNumbers DEF This
    <3> QED BY <2>3, <3>1, <3>2, TheNumbers
  <2> QED BY <2>1, <2>2, <2>5, <2>6, <2>7, <2>8 DEF Session
<1> QED BY <1>2, <1>3, <1>4, <1>5, <1>6 DEF User

\* The other processes.
LEMMA SessionOfOthers ==
  ASSUME EnumTypes, Data, Session, scen' = scen,
         Synthesises \/ DaemonPlays \/ DaemonDies \/ UNCHANGED vars
  PROVE  Session'
<1>1. again = 0 /\ due.page <= page
  BY DEF Session
<1>2. ASSUME UNCHANGED <<control, calls, timers, engine, clips, due>>,
             UNCHANGED <<up, done>> \/ (~up' /\ clips = <<>>),
             \A i \in Idx : status[i] # "none" => status'[i] # "none"
      PROVE  Session'
  <2>1. ValidWaits' = ValidWaits /\ (ChainLive' <=> ChainLive) /\ (TurnLive' <=> TurnLive)
        /\ (PollLive' <=> PollLive)
    BY <1>2 DEF ValidWaits, ChainLive, TurnLive, PollLive, control, timers, engine
  <2>2. (Handed' <=> Handed) /\ (Dormant' <=> Dormant) /\ \A i : This(i)' = This(i)
    BY <1>2, <2>1 DEF Handed, Dormant, This, control, timers, engine
  <2>3. (OnWait => OnWait') /\ (OnSynth => OnSynth') /\ (OnChain => OnChain')
    BY <1>2, <2>1 DEF OnWait, OnSynth, OnChain, This, control, timers, engine
  <2>4. (OnTurn => OnTurn') /\ (OnPoll => OnPoll')
    BY <1>2, <2>1 DEF OnTurn, OnPoll, This, control, timers, engine
  <2>5. Driven => Driven'
    BY <2>3, <2>4 DEF Driven
  <2>6. UNCHANGED <<state, page, idx, synths, pc, again, clips, due>>
    BY <1>2 DEF control, calls, timers
  <2> QED BY <2>1, <2>2, <2>5, <2>6 DEF Session
<1>3. CASE Synthesises
  <2>1. PICK i \in Idx : \E r \in {"ready"} \cup (IF scen.fails THEN {"failed"} ELSE {}) :
          status' = [status EXCEPT ![i] = r]
    BY <1>3 DEF Synthesises
  <2>2. PICK r \in {"ready"} \cup (IF scen.fails THEN {"failed"} ELSE {}) :
          status' = [status EXCEPT ![i] = r]
    BY <2>1
  <2>3. r # "none"
    OBVIOUS
  <2>4. \A j \in Idx : status[j] # "none" => status'[j] # "none"
    BY <2>2, <2>3 DEF Data, RecordTypes
  <2> QED BY <1>2, <1>3, <2>4 DEF Synthesises, daemon
<1>4. CASE DaemonPlays
  <2>1. /\ UNCHANGED <<control, calls, timers, engine, up>> /\ up /\ clips # <<>>
        /\ clips' = Tail(clips) /\ done' = done + 1
        /\ due' = [Head(clips).x EXCEPT !.s = @ + Head(clips).n]
    BY <1>4 DEF DaemonPlays
  <2>2. Len(clips) = 1 /\ Head(clips).x = due /\ pc \in {"idle", "stop"}
    BY <2>1, ClipIsDue
  <2>3. clips' = <<>>
    <3>1. clips \in Seq([x : Sentence, n : Idx])
      BY DEF Data, PlaceTypes
    <3> QED BY <2>1, <2>2, <3>1
  <2>4. due'.page <= page' /\ again' = 0 /\ pc' = pc /\ state' = state
    BY <1>1, <2>1, <2>2, TheNumbers DEF Sentence, control, calls
  <2>5. CASE pc = "stop"
    BY <2>1, <2>3, <2>4, <2>5 DEF Session, timers
  <2>6. CASE pc = "idle"
    <3>1. OnPoll /\ state # "stopped"
      BY <2>1, <2>6, SpeakingIsOnPoll
    <3>2. clips = <<[x |-> This(idx), n |-> group.n]>> /\ due = This(idx) /\ done = baseline
      BY <2>1, <3>1 DEF OnPoll
    <3>3. due' = This(idx + group.n)' /\ done' = baseline' + 1
      BY <2>1, <3>2 DEF This, control, engine
    <3>4. ValidWaits' = ValidWaits /\ (ChainLive' <=> ChainLive) /\ (TurnLive' <=> TurnLive)
          /\ (PollLive' <=> PollLive)
      BY <2>1 DEF ValidWaits, ChainLive, TurnLive, PollLive, control, timers, engine
    <3>5. OnPoll'
      BY <2>1, <2>3, <3>1, <3>3, <3>4 DEF OnPoll, This, control, timers, engine
    <3> QED BY <2>4, <2>6, <3>1, <3>5 DEF Session, Driven
  <2> QED BY <2>2, <2>5, <2>6
<1>5. CASE DaemonDies
  <2>1. UNCHANGED <<control, calls, timers, engine, status, due>> /\ ~up' /\ clips' = <<>>
    BY <1>5 DEF DaemonDies
  <2>2. CASE clips = <<>>
    BY <1>2, <2>1, <2>2
  <2>3. CASE clips # <<>>
    <3>1. pc \in {"idle", "stop"}
      BY <2>3, ClipIsDue
    <3>2. UNCHANGED <<state, page, pc, again, synths>>
      BY <2>1 DEF control, calls, timers
    <3>3. CASE pc = "stop"
      BY <1>1, <2>1, <3>2, <3>3 DEF Session
    <3>4. CASE pc = "idle"
      <4>1. OnPoll /\ state # "stopped"
        BY <2>3, <3>4, SpeakingIsOnPoll
      <4>2. ValidWaits' = ValidWaits /\ (ChainLive' <=> ChainLive) /\ (TurnLive' <=> TurnLive)
            /\ (PollLive' <=> PollLive)
        BY <2>1 DEF ValidWaits, ChainLive, TurnLive, PollLive, control, timers, engine
      <4>3. OnPoll'
        BY <2>1, <4>1, <4>2 DEF OnPoll, control, timers, engine
      <4> QED BY <1>1, <2>1, <3>2, <3>4, <4>1, <4>3 DEF Session, Driven
    <3> QED BY <3>1, <3>3, <3>4
  <2> QED BY <2>2, <2>3
<1>6. CASE UNCHANGED vars
  BY <1>2, <1>6 DEF vars, daemon
<1> QED BY <1>3, <1>4, <1>5, <1>6

-----------------------------------------------------------------------------
(* The theorems.                                                           *)

\* The invariant holds at the start of a session.
LEMMA SessionBegins == ASSUME \A s \in SCENARIOS : Sane(s), Init PROVE IInv
<1>1. scen \in SCENARIOS /\ scen.warm /\ scen \in Scenario
  BY ScenarioAssumption DEF Init, Sane
<1>2. scen.max \in Nat /\ active = TRUE
  BY <1>1 DEF Init, Scenario
<1>3. EnumTypes /\ FlagTypes
  BY <1>2 DEF Init, EnumTypes, FlagTypes
<1>4. NumTypes
  BY <1>2, BookAssumption DEF Init, NumTypes
<1>5. RecordTypes
  BY BookAssumption DEF Init, RecordTypes, NoGroup, NoTurn, NoPlay, Empty
<1>6. PlaceTypes
  BY BookAssumption DEF Init, PlaceTypes, None, Sentence
<1>7. group.first = 0 /\ group.n = 0 /\ group.bnd = 0 /\ turn.gen = 0 /\ turn = NoTurn
  BY DEF Init, NoGroup, NoTurn
<1>8. Bounds
  BY <1>1, <1>2, <1>7, BookAssumption DEF Init, Bounds, Empty
<1>9. Session
  BY <1>7, BookAssumption DEF Init, Session, Dormant, TurnLive
<1> QED BY <1>3, <1>4, <1>5, <1>6, <1>8, <1>9, TypeGroups DEF IInv

\* Every step keeps it.
LEMMA SessionStep ==
  ASSUME \A s \in SCENARIOS : Sane(s), IInv, [Next]_vars
  PROVE  IInv'
<1>1. EnumTypes /\ FlagTypes /\ Data /\ Sane(scen) /\ scen' = scen
  BY TypeGroups, ScenarioFixed DEF IInv, Data, Bounds
<1>2. TypeOK' /\ Bounds'
  <2>1. EnumTypes' /\ FlagTypes' /\ Data'
    BY <1>1, EnumStep, FlagStep, DataStep
  <2>2. TypeOK' <=> EnumTypes' /\ FlagTypes' /\ NumTypes' /\ RecordTypes' /\ PlaceTypes'
    BY DEF TypeOK, EnumTypes, FlagTypes, NumTypes, RecordTypes, PlaceTypes
  <2> QED BY <2>1, <2>2 DEF Data
<1>3. ASSUME ~MayDouble' PROVE Session'
  <2>1. ~MayDouble /\ Session
    BY <1>1, <1>3 DEF IInv, MayDouble
  <2>2. CASE Calls
    BY <1>1, <2>1, <2>2, SessionOfReading, SessionOfSpeaking, SessionOfPlaying, AlwaysStarts
       DEF Calls
  <2>3. CASE ~Calls
    BY <1>1, <2>1, <2>3, SessionOfTimers, SessionOfPolls, SessionOfSyncs, SessionOfUser,
       SessionOfOthers DEF Next
  <2> QED BY <2>2, <2>3
<1> QED BY <1>2, <1>3 DEF IInv

\* The counts, places and generations of a session stay within the book
\* however it is paused, jumped about, stopped and started, and whatever the
\* synthesiser and the daemon fail at.
THEOREM Types == ASSUME \A s \in SCENARIOS : Sane(s) PROVE Spec => []TypeOK
<1>1. Init => IInv
  BY SessionBegins
<1>2. IInv /\ [Next]_vars => IInv'
  BY SessionStep
<1>3. IInv => TypeOK
  BY DEF IInv
<1> QED BY <1>1, <1>2, <1>3, PTL DEF Spec

\* What the daemon plays is the sentence that is due: no timer, answer or poll
\* that comes late passes a sentence over or has one spoken twice.
THEOREM SpeaksInTurn == ASSUME \A s \in SCENARIOS : Sane(s) PROVE Spec => []InTurn
<1>1. Init => IInv
  BY SessionBegins
<1>2. IInv /\ [Next]_vars => IInv'
  BY SessionStep
<1>3. IInv => InTurn
  BY ClipIsDue, TypeGroups DEF IInv, InTurn, Data
<1> QED BY <1>1, <1>2, <1>3, PTL DEF Spec

\* No play begins while another one speaks.
THEOREM SpeaksWithOneVoice == ASSUME \A s \in SCENARIOS : Sane(s) PROVE Spec => []OneVoice
<1>1. Init => IInv
  BY SessionBegins
<1>2. IInv /\ [Next]_vars => IInv'
  BY SessionStep
<1>3. IInv => OneVoice
  <2> SUFFICES ASSUME IInv, ~MayDouble PROVE Len(clips) <= 1 /\ (pc = "begin" => ~speaking)
    BY DEF OneVoice
  <2>1. EnumTypes /\ Data /\ Session
    BY TypeGroups DEF IInv, Data
  <2>2. Len(clips) <= 1
    BY <2>1, ClipIsDue
  <2>3. pc = "begin" => ~speaking
    BY <2>1 DEF Session, Handed
  <2> QED BY <2>2, <2>3
<1> QED BY <1>1, <1>2, <1>3, PTL DEF Spec

\* A session that has not stopped hangs on one timer or poll, and no more: it
\* neither dies without saying so nor reads two sentences.
THEOREM HangsOnOneDriver == ASSUME \A s \in SCENARIOS : Sane(s) PROVE Spec => []OneDriver
<1>1. Init => IInv
  BY SessionBegins
<1>2. IInv /\ [Next]_vars => IInv'
  BY SessionStep
<1>3. IInv => OneDriver
  <2> SUFFICES ASSUME IInv, state # "stopped", pc = "idle", ~MayDouble
               PROVE  Cardinality(Live) = 1
    BY DEF OneDriver
  <2> DEFINE W == {<<"wait", w.x>> : w \in ValidWaits}
             S == {<<"synth", x>> : x \in synths}
             C == IF ChainLive THEN {<<"chain">>} ELSE {}
             T == IF TurnLive THEN {<<"turn">>} ELSE {}
             P == IF PollLive /\ speaking THEN {<<"poll">>} ELSE {}
  <2>1. Live = W \cup S \cup C \cup T \cup P
    <3>1. {v \in waits : ~Stale(v)} = ValidWaits
      BY DEF Stale, ValidWaits
    <3> QED BY <3>1 DEF Live, ChainLive, TurnLive, PollLive
  <2>2. Driven
    BY DEF IInv, Session
  <2>3. \E d : Live = {d}
    <3>1. CASE OnWait
      <4>1. PICK w \in waits : ValidWaits = {w}
        BY <3>1 DEF OnWait
      <4>2. W = {<<"wait", w.x>>}
        BY <4>1
      <4>3. S = {} /\ C = {} /\ T = {} /\ P = {}
        BY <3>1 DEF OnWait
      <4> HIDE DEF W, S, C, T, P
      <4>4. Live = {<<"wait", w.x>>}
        BY <2>1, <4>2, <4>3
      <4> QED BY <4>4
    <3>2. CASE OnSynth
      <4>1. S = {<<"synth", This(idx)>>} /\ W = {} /\ C = {} /\ T = {} /\ P = {}
        BY <3>2 DEF OnSynth
      <4> HIDE DEF W, S, C, T, P
      <4>2. Live = {<<"synth", This(idx)>>}
        BY <2>1, <4>1
      <4> QED BY <4>2
    <3>3. CASE OnChain
      <4>1. C = {<<"chain">>} /\ W = {} /\ S = {} /\ T = {} /\ P = {}
        BY <3>3 DEF OnChain
      <4> HIDE DEF W, S, C, T, P
      <4>2. Live = {<<"chain">>}
        BY <2>1, <4>1
      <4> QED BY <4>2
    <3>4. CASE OnTurn
      <4>1. T = {<<"turn">>} /\ W = {} /\ S = {} /\ C = {} /\ P = {}
        BY <3>4 DEF OnTurn
      <4> HIDE DEF W, S, C, T, P
      <4>2. Live = {<<"turn">>}
        BY <2>1, <4>1
      <4> QED BY <4>2
    <3>5. CASE OnPoll
      <4>1. P = {<<"poll">>} /\ W = {} /\ S = {} /\ C = {} /\ T = {}
        BY <3>5 DEF OnPoll
      <4> HIDE DEF W, S, C, T, P
      <4>2. Live = {<<"poll">>}
        BY <2>1, <4>1
      <4> QED BY <4>2
    <3> QED BY <2>2, <3>1, <3>2, <3>3, <3>4, <3>5 DEF Driven
  <2> HIDE DEF W, S, C, T, P
  <2> QED BY <2>3, FS_Singleton
<1> QED BY <1>1, <1>2, <1>3, PTL DEF Spec

\* Only a start ends a stop, with piper too while no on-demand synthesis can
\* outlive it: the waits, the page turn and the completion that were on their
\* way when the session stopped find it stopped.
THEOREM StopsAreFinal == ASSUME \A s \in SCENARIOS : Sane(s) PROVE Spec => StopIsFinal
<1> DEFINE Final == state = "stopped" /\ state' # "stopped" /\ ~MayDouble => pc = "start"
<1>1. Init => IInv
  BY SessionBegins
<1>2. IInv /\ [Next]_vars => IInv' /\ Final
  <2> SUFFICES ASSUME IInv, [Next]_vars, state = "stopped", state' # "stopped", ~MayDouble
               PROVE  pc = "start"
    BY SessionStep
  <2>1. Session
    BY DEF IInv
  <2>2. CASE Calls
    BY <2>1, <2>2 DEF Calls, Start, ReadNothing, TurnPage, AtPageEnd, SpeakNow, SpeakFails,
       SkipSentence, UsePrefetched, AwaitPiper, Reading, PlayAccepted, PlayFails, StartFails,
       Begun, Stop, Session
  <2>3. CASE ~Calls
    <3>1. ~Syncs /\ ~UserPause /\ ~UserResume
      BY DEF Syncs, CrossBoundary, OverlayPauses, OverlayResumes, SyncTick, UserPause, UserResume
    <3>2. CASE Timers
      BY <3>2 DEF Timers, Waits, WaitIsStale, WaitDelivers, WaitFails, WaitTimesOut, SynthDone,
         ChainFires, TurnFires, TimerRest, control
    <3>3. CASE Polls \/ LinkFails
      BY <3>3 DEF Polls, LinkFails, DaemonUnreachable, RenderStalls, PlayCompletes, PollFails,
         control
    <3>4. CASE UserStart \/ UserStop \/ Menu \/ UserJumps
      BY <3>4 DEF UserStart, UserStop, Menu, UserJumps, control
    <3>5. CASE Synthesises \/ DaemonPlays \/ DaemonDies \/ UNCHANGED vars
      BY <3>5 DEF Synthesises, DaemonPlays, DaemonDies, vars, control
    <3> QED BY <2>3, <3>1, <3>2, <3>3, <3>4, <3>5 DEF Next, User
  <2> QED BY <2>2, <2>3
<1>3. Final <=> (state = "stopped" /\ state' # "stopped" /\ ~MayDouble => pc = "start")
  OBVIOUS
<1> HIDE DEF Final
<1> QED BY <1>1, <1>2, <1>3, PTL DEF Spec, StopIsFinal

=============================================================================
