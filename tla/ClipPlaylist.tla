---------------------------- MODULE ClipPlaylist ----------------------------
(***************************************************************************)
(* What the audioout daemon promises a clip client (audioout.c, commands   *)
(* play, pause, resume, stop, flush, release): a short playlist of spans   *)
(* on the listener's timeline.  Spans are handed out in order and never    *)
(* before what the listener has already heard; the listener's position     *)
(* only moves forward over a playlist; a span leaves the playlist, and is  *)
(* counted done, exactly when the position reaches its end; and the only   *)
(* other way out is that the whole playlist is dropped at once, which may  *)
(* restart the timeline.                                                   *)
(***************************************************************************)
EXTENDS Integers, Sequences

CONSTANT MAX_QUEUE

VARIABLES spans,   \* the playlist, head first: [id, start, end]
          heard,   \* the listener's position
          done     \* spans played to their end

Span == [id: Nat, start: Nat, end: Nat]

\* x may follow the spans s when the listener is at position pos.
MayFollow(x, s, pos) ==
  /\ pos <= x.start /\ x.start < x.end
  /\ s # <<>> => s[Len(s)].end <= x.start

Init == spans = <<>> /\ heard = 0 /\ done = 0

Enqueue ==
  /\ Len(spans) < MAX_QUEUE
  /\ Len(spans') = Len(spans) + 1
  /\ spans' = Append(spans, spans'[Len(spans')])
  /\ spans'[Len(spans')] \in Span
  /\ MayFollow(spans'[Len(spans')], spans, heard)
  /\ UNCHANGED <<heard, done>>

\* The position moves on and takes the spans that end at or before it along.
Advance ==
  /\ heard <= heard'
  /\ done <= done' /\ done' - done <= Len(spans)
  /\ \A i \in 1..Len(spans) : (i <= done' - done) = (spans[i].end <= heard')
  /\ spans' = SubSeq(spans, done' - done + 1, Len(spans))

\* Everything is dropped; the timeline may start over, with one new span.
Restart ==
  /\ heard' \in Nat
  /\ \/ spans' = <<>>
     \/ /\ Len(spans') = 1 /\ spans' = <<spans'[1]>>
        /\ spans'[1] \in Span
        /\ MayFollow(spans'[1], <<>>, heard')
  /\ done' = done

Next == Enqueue \/ Advance \/ Restart

Spec == Init /\ [][Next]_<<spans, heard, done>>
=============================================================================
