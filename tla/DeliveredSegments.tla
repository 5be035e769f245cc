-------------------------- MODULE DeliveredSegments --------------------------
(***************************************************************************)
(* The record a track keeps of the media it has handed to the consumer     *)
(* (src/src/delivered_segments.rs): the only thing that carries delivery   *)
(* across manifest refreshes, retries and period transitions.              *)
(*                                                                         *)
(* A segment is what the tracker looks at: its key (number, time and       *)
(* sub-number), its start and duration relative to the period, and the     *)
(* media URL a SegmentList gives it.                                       *)
(***************************************************************************)
EXTENDS Integers, Sequences

CONSTANT NoUrl  \* None of media_url

Larger(a, b) == IF a > b THEN a ELSE b

NewTracker ==
    [ keys |-> {},          \* of the active period
      urls |-> {},          \* media_urls
      lastEnd |-> 0,        \* relative to the active period
      lastAbsEnd |-> 0,     \* on the presentation timeline
      periodStart |-> 0 ]   \* active_period_start_s

SegEnd(seg) == seg.start + seg.dur

\* A soft period transition keeps the absolute frontier and the URLs.
SoftReset(tracker) == [tracker EXCEPT !.keys = {}, !.lastEnd = 0]

IsDelivered(tracker, seg, periodStart) ==
    \/ seg.url # NoUrl /\ seg.url \in tracker.urls
    \/ periodStart + seg.start < tracker.lastAbsEnd
    \/ /\ periodStart = tracker.periodStart
       /\ seg.key \in tracker.keys \/ SegEnd(seg) <= tracker.lastEnd

\* The first index from i on that is not delivered, or one past the end.
AdvanceStartIndex(tracker, segments, i, periodStart) ==
    LET fresh == {j \in i .. Len(segments) : ~IsDelivered(tracker, segments[j], periodStart)}
    IN  IF fresh = {} THEN Len(segments) + 1
        ELSE CHOOSE j \in fresh : \A k \in fresh : j <= k

\* A slip: the frontiers stay behind.
MarkDelivered_KeyOnly(tracker, seg, periodStart) ==
    [tracker EXCEPT !.keys = @ \cup {seg.key}]

MarkDelivered(tracker, seg, periodStart) ==
    LET here == IF periodStart = tracker.periodStart THEN tracker
                ELSE [SoftReset(tracker) EXCEPT !.periodStart = periodStart]
    IN  [here EXCEPT
            !.keys = @ \cup {seg.key},
            !.urls = IF seg.url = NoUrl THEN @ ELSE @ \cup {seg.url},
            !.lastEnd = Larger(@, SegEnd(seg)),
            !.lastAbsEnd = Larger(@, periodStart + SegEnd(seg))]
=============================================================================
