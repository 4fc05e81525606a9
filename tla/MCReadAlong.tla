---------------------------- MODULE MCReadAlong ----------------------------
(***************************************************************************)
(* ReadAlong for TLC: the kinds of session of the instances.               *)
(***************************************************************************)
EXTENDS ReadAlong

\* Piper that answers, with an engine that has played before.
Sound ==
  [voice |-> "piper", fails |-> FALSE, fallback |-> TRUE, advance |-> TRUE,
   warm |-> TRUE, starts |-> TRUE, cmds |-> {"start", "stop", "pause", "resume"}, max |-> 3]

\* Piper on a device where synthesis fails; nothing to stop or to jump with
\* while a synthesis is on its way.
Struggling(f) ==
  [Sound EXCEPT !.fails = TRUE, !.fallback = f,
                !.cmds = {"start", "pause"}]

\* espeak with a headset.
Headset ==
  [Sound EXCEPT !.voice = "espeak",
                !.cmds = {"start", "pause", "media_next", "media_prev", "rate"}]

\* espeak with menus that open over the page.
Menus ==
  [Headset EXCEPT !.cmds = {"start", "pause", "resume", "overlay"}, !.max = 4]

\* Piper too slow for the device, espeak in its place, one page at a time.
Slow ==
  [Headset EXCEPT !.voice = "abandoned", !.fails = TRUE, !.advance = FALSE,
                  !.cmds = {"start", "media_next"}]

\* espeak that fails.
Mute ==
  [Sound EXCEPT !.voice = "espeak", !.fails = TRUE, !.cmds = {"start"}]

\* espeak with a daemon that does not come up again once it is gone.
Unstartable ==
  [Headset EXCEPT !.starts = FALSE, !.cmds = {"start", "stop", "pause", "resume"}]

MCAll  == {Struggling(TRUE), Struggling(FALSE), Sound, Headset, Menus, Slow, Mute,
           Unstartable}
MCStop == {[Struggling(TRUE) EXCEPT !.cmds = {"start", "stop"}]}
=============================================================================
