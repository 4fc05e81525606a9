----------------------------- MODULE MCAudioOut -----------------------------
(***************************************************************************)
(* AudioOut for TLC: the command sets of the instances.  A command set is  *)
(* what the clients of one run may send; the daemon itself always has all  *)
(* of its handlers.                                                        *)
(***************************************************************************)
EXTENDS AudioOut

\* Text-to-speech on one voice (ttsengine.lua).
MCSession  == {"play", "pause", "resume", "stop"}

\* Text-to-speech across voices and sessions.
MCSessions == {"play", "pause", "resume", "flush", "release"}

\* Audiobook playback (mediaengine.lua).
MCBook     == {"external", "external_file", "seek", "resume_at", "pause", "flush"}

\* Both on one daemon, across voices, with the resume that names no position.
MCShared   == MCSessions \cup {"external", "resume_legacy"}

\* Text-to-speech that only queues.
MCPlay == {"play"}
=============================================================================
