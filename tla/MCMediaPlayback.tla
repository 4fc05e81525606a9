-------------------------- MODULE MCMediaPlayback --------------------------
(***************************************************************************)
(* MediaPlayback for TLC: the kinds of session of the instances.           *)
(***************************************************************************)
EXTENDS MediaPlayback

\* The daemon with a headset; the user acts at any moment.
Daemon ==
  [backend |-> "gst_play", mtk |-> TRUE, headset |-> TRUE, patient |-> FALSE,
   overlay |-> FALSE, from |-> {}, saved |-> {}, fails |-> {},
   cmds |-> {"choose", "toggle", "seek", "seek_paused", "skip", "next", "prev"},
   max |-> 6]

\* A user who stops, too.
Stopping == [Daemon EXCEPT !.cmds = {"choose", "toggle", "seek", "stop"}]

\* A daemon that refuses, or whose stream does not start, and a user who waits.
Refusing ==
  [Daemon EXCEPT !.backend = "ffmpeg_pipe", !.patient = TRUE, !.fails = {"refuse"},
                 !.cmds = {"choose", "pick", "toggle", "seek", "skip"}]
Stalling == [Refusing EXCEPT !.fails = {"stall"}, !.cmds = {"choose", "toggle", "stop"}]

\* A process without the daemon, on a device without the MTK sink.
Pipe == [Refusing EXCEPT !.mtk = FALSE, !.fails = {}]

\* The headset comes after the start, before the first seek.
Deaf == [Refusing EXCEPT !.headset = FALSE, !.fails = {}, !.cmds = {"choose", "next", "prev"}]

\* A part with a saved position, answered.
Asked == [Daemon EXCEPT !.saved = {2},
                        !.cmds = {"choose", "toggle", "seek", "resume_at", "from_start"}]

\* A book with an overlay, started at its beginning.  (One
\* command more, and the play button goes back to the mark of an old pause.)
Overlay == [Daemon EXCEPT !.overlay = TRUE, !.from = {0},
                          !.cmds = {"choose", "toggle", "stop"}, !.max = 4]

\* A process, and a user who does not wait.
Hasty == [Pipe EXCEPT !.patient = FALSE, !.cmds = {"choose", "next", "stop"}, !.max = 3]

\* The same over a stream that does not start.
Fidgety == [Daemon EXCEPT !.fails = {"stall"}, !.cmds = {"choose", "pick", "stop"}, !.max = 3]

MCAll == {Daemon, Stopping, Refusing, Stalling, Pipe, Deaf, Asked, Overlay, Hasty, Fidgety}
=============================================================================
