---------------------------- MODULE SegmentAlignment ----------------------------
(***************************************************************************)
(* Where a stream may begin: at a random access point.  The index of the   *)
(* segment that holds the target moves to the start of its sequence, then  *)
(* onto the grid that Resync or RandomAccess declares (manifest/alignment, *)
(* switch_access, clock/resync).  Also the clock a ProducerReferenceTime   *)
(* stands for.                                                             *)
(*                                                                         *)
(* A level has `resync`, a sequence of [type, d], and `prts`, a sequence   *)
(* of [id, encoder, wall, pt]; an AdaptationSet also `sap`, whether its    *)
(* subsegments start with a SAP, and `access`, RandomAccess intervals.     *)
(***************************************************************************)
EXTENDS SegmentTimeline

\* timescale_and_pto
Timescale(addressing) == Most(OrElse(addressing.node.timescale, 1), 1)

Offset(addressing) == IF addressing.mode = "list" THEN 0 ELSE OrElse(addressing.node.pto, 0)

\* segment_sequence_start_presentation_s, segment_sequence_start_s
SequenceStart(s) == s.start - Most(s.sub - 1, 0) * s.dur

\* earliest_presentation_ticks
EarliestTicks(s, timescale) == s.time + Most(s.sub - 1, 0) * Ticks(s.dur, timescale)

\* is_interval_opportunity
IsOpportunity(s, interval, timescale) == EarliestTicks(s, timescale) % interval = 0

Highest(set) == CHOOSE i \in set : \A j \in set : j <= i

-----------------------------------------------------------------------------

\* resync_hints: the grids of chunks and of random access points, the last
\* entry of each kind being the one that counts; NoVal without any Resync.
HintsOf(addressing, set, rep) ==
    LET entries == set.resync \o rep.resync
        Apply(hints, e) ==
            LET step == Units(e.d, Timescale(addressing))
            IN  IF e.d \in {NoVal, 0} THEN hints
                ELSE IF e.type = 0 THEN [hints EXCEPT !.chunk = step]
                ELSE [hints EXCEPT !.access = step, !.within = e.type \in {2, 3}]
    IN  IF entries = <<>> THEN NoVal
        ELSE FoldLeft(Apply, [chunk |-> NoVal, access |-> NoVal, within |-> FALSE], entries)

\* align_start_index_to_sap
AlignToSap(segs, i, set) ==
    IF segs = <<>> \/ set.sap THEN i
    ELSE Highest({j \in 1 .. i : j = 1 \/ segs[j].sub <= 1})

OnGrid(t, interval) == (t \div interval) * interval

\* align_start_index_to_resync: the last segment that starts on or before the grid
AlignToResync(segs, i, interval, target) ==
    LET grid   == OnGrid(Most(OrElse(target, segs[i].start), 0), interval)
        before == {j \in DOMAIN segs : segs[j].start <= grid}
    IN  IF segs = <<>> \/ interval = NoVal \/ before = {} THEN i
        ELSE Highest({j \in before : \A o \in before : segs[o].start <= segs[j].start})

\* mid_segment_grid_alignment: the segment that holds the grid point before the
\* target -- of a sequence the last one -- and the chunk to start from.
AlignInside(segs, i, interval, target) ==
    LET grid    == OnGrid(target, interval)
        holding == {j \in DOMAIN segs : SequenceStart(segs[j]) <= grid /\ grid < SequenceStart(segs[j]) + segs[j].dur}
        at      == IF holding = {} THEN i
                   ELSE Highest({j \in holding : \A o \in holding : SequenceStart(segs[o]) <= SequenceStart(segs[j])})
    IN  IF segs = <<>> THEN [index |-> i, chunk |-> NoVal]
        ELSE [index |-> at, chunk |-> Most(grid - SequenceStart(segs[at]), 0) \div interval + 1]

\* align_start_with_resync_hints
AlignToHints(segs, i, hints, target) ==
    LET whole(index) == [index |-> index, chunk |-> NoVal]
    IN  IF hints = NoVal THEN whole(i)
        ELSE IF target = NoVal THEN whole(AlignToResync(segs, i, hints.access, NoVal))
        ELSE IF hints.access # NoVal
        THEN IF hints.within THEN AlignInside(segs, i, hints.access, target)
             ELSE whole(AlignToResync(segs, i, hints.access, target))
        ELSE IF hints.chunk # NoVal THEN AlignInside(segs, i, hints.chunk, target) ELSE whole(i)

\* align_start_index_to_random_access: the last opportunity up to `i`
AlignToRandomAccess(segs, i, set, timescale) ==
    LET interval == CHOOSE d \in ToSet(set.access) : \A o \in ToSet(set.access) : d <= o
        chances  == {j \in 1 .. i : IsOpportunity(segs[j], interval, timescale)}
    IN  IF set.access = <<>> \/ segs = <<>> \/ chances = {} THEN i ELSE Highest(chances)

\* The first segment that still holds instants after the target, then aligned.
Begin(segs, i, target, set, hints, timescale) ==
    LET aligned == AlignToHints(segs, AlignToSap(segs, i, set), hints, target)
    IN  IF hints # NoVal THEN aligned
        ELSE [aligned EXCEPT !.index = AlignToRandomAccess(segs, aligned.index, set, timescale)]

-----------------------------------------------------------------------------

\* select_producer_reference_time: the one that the Latency refers to, else the
\* first of an encoder.
Reference(set, rep, id) ==
    LET candidates == rep.prts \o set.prts
        named      == SelectSeq(candidates, LAMBDA p : id # NoVal /\ p.id = id)
        encoders   == SelectSeq(candidates, LAMBDA p : p.encoder)
    IN  IF named # <<>> THEN named[1] ELSE IF encoders # <<>> THEN encoders[1] ELSE NoVal

\* A slip: an encoder's clock ahead of ours counts backwards.
SinceStart_Signed(now, start, set, rep, addressing, id) ==
    LET prt == Reference(set, rep, id)
    IN  IF addressing = Failed \/ prt = NoVal THEN now
        ELSE IF prt.wall = NoVal \/ prt.pt = NoVal THEN now
        ELSE start + Units(Most(prt.pt - Offset(addressing), 0), Timescale(addressing)) + (now - prt.wall)

\* resync_corrected_since_ast, since_availability_start_at: the time since the
\* availabilityStartTime, by the encoder's clock when the MPD gives it.
SinceStart(now, start, set, rep, addressing, id) ==
    LET prt == Reference(set, rep, id)
    IN  IF addressing = Failed \/ prt = NoVal THEN now
        ELSE IF prt.wall = NoVal \/ prt.pt = NoVal THEN now
        ELSE start + Units(Most(prt.pt - Offset(addressing), 0), Timescale(addressing)) + Most(now - prt.wall, 0)

-----------------------------------------------------------------------------

\* duration_template_live_edge, in a Period without a known end
Extensible(addressing, ctx) ==
    /\ ctx.dynamic
    /\ addressing.mode = "template"
    /\ addressing.node.timeline = NoVal
    /\ addressing.node.duration \notin {NoVal, 0}
    /\ PeriodEnd(ctx) = NoVal

\* A slip: $Time$ advances by units of time.
NextSegment_Units(last, timescale) ==
    Segment(last.number + 1, last.time + last.dur, last.start + last.dur, last.dur)

\* next_duration_template_segment
NextSegment(last, timescale) ==
    Segment(last.number + 1, last.time + Ticks(last.dur, timescale), last.start + last.dur, last.dur)
=============================================================================
