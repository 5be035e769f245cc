---------------------------- MODULE SegmentTimeline ----------------------------
(***************************************************************************)
(* The segments of an AdaptationSet, as a tick derives them from its       *)
(* SegmentTemplate, SegmentList or SegmentBase and from the wall clock     *)
(* (manifest/timeline, TimelineBuildContext).  A media tick is             *)
(* Second / timescale units of time.                                       *)
(*                                                                         *)
(* A segment is [number, time, sub, start, dur, url, range]: `time` the    *)
(* anchor of $Time$, `sub` its place in a sequence cut up by S@k (0: none),*)
(* `start` relative to its Period.  An S is [t, d, r, k, n].  A context is *)
(* [dynamic, start, end, duration, total, depth, now, cover].              *)
(***************************************************************************)
EXTENDS Addressing

CONSTANTS
    Second,         \* units of time per second
    DefaultDepth,   \* timeShiftBufferDepth when absent
    MaxExpansion    \* MAX_EXPANSION

Least(a, b) == IF a < b THEN a ELSE b
Most(a, b) == IF a > b THEN a ELSE b

CeilDiv(a, b) == (a + b - 1) \div b

Units(ticks, timescale) == (ticks * Second) \div timescale

Ticks(units, timescale) == (units * timescale) \div Second

OrElse(value, default) == IF value = NoVal THEN default ELSE value

Segment(number, time, start, dur) ==
    [number |-> number, time |-> time, sub |-> 0, start |-> start, dur |-> dur, url |-> NoVal, range |-> NoVal]

-----------------------------------------------------------------------------
(* TimelineBuildContext.                                                   *)

PeriodLength(ctx) ==
    IF ctx.end # NoVal /\ ctx.end > ctx.start THEN ctx.end - ctx.start
    ELSE IF ctx.duration \notin {NoVal, 0} THEN ctx.duration
    ELSE IF ctx.total # NoVal /\ ctx.total > ctx.start THEN ctx.total - ctx.start
    ELSE NoVal

PeriodEnd(ctx) ==
    IF ctx.end # NoVal THEN ctx.end
    ELSE IF ctx.duration # NoVal THEN ctx.start + ctx.duration
    ELSE IF ctx.total # 0 THEN ctx.total ELSE NoVal

Depth(ctx) == IF ctx.depth \in {NoVal, 0} THEN DefaultDepth ELSE ctx.depth

-----------------------------------------------------------------------------
(* SegmentTimeline.                                                        *)

WellFormed(s) ==
    LET k == OrElse(s.k, 1) IN s.d # 0 /\ k # 0 /\ (k > 1 => s.d % k = 0)

\* negative_r_repeat_end: the next S that has a t, else the end of the Period,
\* else the live edge.
RepeatEnd(entries, i, ctx) ==
    LET later == {j \in DOMAIN entries : j > i /\ entries[j].t # NoVal}
    IN  IF later # {}
        THEN [tick |-> entries[CHOOSE j \in later : \A o \in later : j <= o].t, unit |-> NoVal]
        ELSE IF ctx.end # NoVal THEN [tick |-> NoVal, unit |-> ctx.end]
        ELSE IF ctx.duration # NoVal THEN [tick |-> NoVal, unit |-> ctx.start + ctx.duration]
        ELSE IF ctx.dynamic /\ ctx.now # NoVal THEN [tick |-> NoVal, unit |-> ctx.now]
        ELSE Failed

\* A slip: the repetition runs one over what ends it.
Repeats_OneMore(entries, i, t, timescale, pto, ctx) ==
    LET s   == entries[i]
        end == RepeatEnd(entries, i, ctx)
    IN  IF OrElse(s.r, 0) >= 0 THEN OrElse(s.r, 0) + 1
        ELSE IF end = Failed THEN Failed
        ELSE IF end.tick # NoVal THEN Most((end.tick - t) \div s.d + 1, 0)
        ELSE IF end.unit <= ctx.start THEN 0
        ELSE Most((pto + Ticks(end.unit - ctx.start, timescale) - t) \div s.d + 1, 0)

\* How often S number i, from tick t on, is repeated.
Repeats(entries, i, t, timescale, pto, ctx) ==
    LET s   == entries[i]
        end == RepeatEnd(entries, i, ctx)
    IN  IF OrElse(s.r, 0) >= 0 THEN OrElse(s.r, 0) + 1
        ELSE IF end = Failed THEN Failed
        ELSE IF end.tick # NoVal THEN Most(CeilDiv(end.tick - t, s.d), 0)
        ELSE IF end.unit <= ctx.start THEN 0
        ELSE Most(CeilDiv(pto + Ticks(end.unit - ctx.start, timescale) - t, s.d), 0)

\* emit_segment_sequence, `count` times: k segments share a number and a time.
SequencesOf(number, t, count, d, k, timescale, pto) ==
    [i \in 1 .. count * k |->
        LET nth  == (i - 1) \div k
            sub  == (i - 1) % k
            seq  == t + nth * d
        IN  [Segment(number + nth, seq, Units(Most(seq + sub * (d \div k) - pto, 0), timescale),
                     Units(d \div k, timescale))
                EXCEPT !.sub = IF k > 1 THEN sub + 1 ELSE 0]]

\* One S element, `count` times from tick t on, after those before it.
Emitted(prev, s, t, count, timescale, pto) ==
    LET k      == OrElse(s.k, 1)
        number == OrElse(s.n, prev.number)
        probes == IF OrElse(s.r, 0) < 0 THEN count + 1 ELSE count
    IN  IF count = Failed THEN Failed
        ELSE IF Len(prev.segs) + probes * k > MaxExpansion THEN Failed
        ELSE [ number |-> number + count, tick |-> t + count * s.d,
               segs   |-> prev.segs \o SequencesOf(number, t, count, s.d, k, timescale, pto) ]

EmittedSegs(run) == IF run = Failed THEN Failed ELSE run.segs

\* segments_from_explicit_timeline
Explicit(entries, timescale, pto, first, ctx) ==
    LET From(prev, i) == OrElse(entries[i].t, prev.tick)
        Then(prev, i) ==
            IF prev = Failed \/ ~WellFormed(entries[i]) THEN Failed
            ELSE Emitted(prev, entries[i], From(prev, i),
                         Repeats(entries, i, From(prev, i), timescale, pto, ctx), timescale, pto)
        run[i \in 0 .. Len(entries)] ==
            IF i = 0 THEN [number |-> first, tick |-> 0, segs |-> <<>>] ELSE Then(run[i - 1], i)
    IN  IF timescale = 0 THEN Failed ELSE EmittedSegs(run[Len(entries)])

\* filter_explicit_timeline_for_dynamic_window: what starts in the time shift
\* buffer, before the end of the Period.
InDynamicWindow(segs, ctx) ==
    LET deepest == Most(ctx.now - Depth(ctx), ctx.start)
        covered == IF ctx.cover = NoVal THEN NoVal ELSE ctx.start + ctx.cover
        from    == IF covered # NoVal /\ covered >= deepest /\ covered <= ctx.now
                   THEN Least(deepest, covered) ELSE deepest
        Kept(s) == LET at == ctx.start + s.start
                   IN  at >= from /\ at <= ctx.now /\ (PeriodEnd(ctx) # NoVal => at < PeriodEnd(ctx))
    IN  IF segs = Failed \/ ctx.now = NoVal THEN Failed ELSE SelectSeq(segs, Kept)

Windowed(segs, ctx) == IF ctx.dynamic THEN InDynamicWindow(segs, ctx) ELSE segs

-----------------------------------------------------------------------------
(* SegmentTemplate@duration.                                               *)

\* bound_last_static_duration_segment
BoundLast(segs, ctx) ==
    LET last      == segs[Len(segs)]
        remaining == Most(PeriodLength(ctx) - last.start, 0)
    IN  IF segs = <<>> \/ PeriodLength(ctx) = NoVal THEN segs
        ELSE [segs EXCEPT ![Len(segs)].dur = Least(@, remaining)]

Numbered(st, from, to) ==
    LET first == OrElse(st.number, 1)
        scale == OrElse(st.timescale, 1)
    IN  [i \in 1 .. to - from + 1 |->
            LET nth == from + i - 1 - first
            IN  Segment(from + i - 1, OrElse(st.pto, 0) + nth * st.duration,
                        Units(nth * st.duration, scale), Units(st.duration, scale))]

\* static_duration_segment_count
StaticCount(first, dur, endNumber, ctx) ==
    IF endNumber # NoVal THEN IF endNumber < first THEN Failed ELSE endNumber - first + 1
    ELSE IF PeriodLength(ctx) = NoVal THEN Failed
    ELSE Most(CeilDiv(PeriodLength(ctx), dur), 1)

\* A slip: the live edge is not bounded by the end of the Period.
LiveNumbers_Unbounded(first, dur, endNumber, ctx) ==
    LET to == first + Most(ctx.now - ctx.start, 0) \div dur
    IN  [from |-> Most(to - (CeilDiv(Depth(ctx), dur) + 2), first), to |-> to]

\* The segments a dynamic template has around the live edge: back to the time
\* shift buffer and two more, further back to what a seek must cover.
LiveNumbers(first, dur, endNumber, ctx) ==
    LET length   == PeriodLength(ctx)
        elapsed  == Most(ctx.now - ctx.start, 0)
        inPeriod == IF length = NoVal THEN elapsed ELSE Least(elapsed, length)
        edge     == first + inPeriod \div dur
        bounded  == IF length = NoVal THEN edge ELSE Least(edge, first + (length - 1) \div dur)
        to       == IF endNumber = NoVal THEN bounded ELSE Least(bounded, endNumber)
        from     == Most(to - (CeilDiv(Depth(ctx), dur) + 2), first)
        covering == first + ctx.cover \div dur
    IN  [ from |-> IF ctx.cover # NoVal /\ ctx.cover < inPeriod THEN Least(from, covering) ELSE from,
          to   |-> to ]

LiveList(st, first, live, ctx) ==
    IF live.to < first THEN <<>> ELSE BoundLast(Numbered(st, live.from, live.to), ctx)

StaticList(st, first, count, ctx) ==
    IF count = Failed THEN Failed ELSE BoundLast(Numbered(st, first, first + count - 1), ctx)

\* segments_from_duration_template
FromDuration(st, ctx, endNumber) ==
    LET scale == OrElse(st.timescale, 1)
        first == OrElse(st.number, 1)
        dur   == Units(st.duration, scale)
    IN  IF st.duration \in {NoVal, 0} \/ scale = 0 THEN Failed
        ELSE IF ~ctx.dynamic
        THEN StaticList(st, first, StaticCount(first, dur, endNumber, ctx), ctx)
        ELSE IF ctx.now = NoVal THEN Failed
        ELSE LiveList(st, first, LiveNumbers(first, dur, endNumber, ctx), ctx)

-----------------------------------------------------------------------------
(* The three elements.                                                     *)

\* timeline_segments
FromTemplate(st, ctx, endNumber) ==
    IF st.timeline = NoVal THEN FromDuration(st, ctx, endNumber)
    ELSE Windowed(Explicit(st.timeline, OrElse(st.timescale, 1), OrElse(st.pto, 0),
                           OrElse(st.number, 1), ctx), ctx)

\* As many SegmentURLs as segments, or none.
WithUrls(segs, sl) ==
    IF segs = Failed \/ sl.urls = <<>> THEN segs
    ELSE IF Len(sl.urls) # Len(segs) THEN Failed
    ELSE [i \in DOMAIN segs |-> [segs[i] EXCEPT !.url = sl.urls[i].media, !.range = sl.urls[i].range]]

\* segments_from_list_timeline
FromListTimeline(sl, ctx) == WithUrls(Explicit(sl.timeline, OrElse(sl.timescale, 1), 0, 1, ctx), sl)

\* segments_from_list_urls
FromListUrls(sl) ==
    LET scale == OrElse(sl.timescale, 1)
    IN  IF sl.duration \in {NoVal, 0} \/ scale = 0 THEN Failed
        ELSE [i \in DOMAIN sl.urls |->
                [Segment(i, (i - 1) * sl.duration, Units((i - 1) * sl.duration, scale), Units(sl.duration, scale))
                    EXCEPT !.url = sl.urls[i].media, !.range = sl.urls[i].range]]

\* timeline_segments_from_list
FromList(sl, ctx) ==
    IF sl.timeline # NoVal THEN Windowed(FromListTimeline(sl, ctx), ctx)
    ELSE IF sl.urls = <<>> THEN Failed ELSE FromListUrls(sl)

\* timeline_segments_from_segment_base: the whole file is one segment.
FromBase(sb, ctx) ==
    LET scale == OrElse(sb.timescale, 1)
    IN  IF UsesSidx(sb) \/ scale = 0 THEN Failed
        ELSE IF sb.duration \notin {NoVal, 0} THEN <<Segment(1, 0, 0, Units(sb.duration, scale))>>
        ELSE IF PeriodLength(ctx) = NoVal THEN Failed
        ELSE <<Segment(1, 0, 0, PeriodLength(ctx))>>

\* timeline_segments_for_addressing
SegmentsFor(addressing, ctx, endNumber) ==
    CASE addressing.mode = "template" ->
            IF UsesGlobalSidecar(addressing.node) THEN Failed
            ELSE FromTemplate(addressing.node, ctx, endNumber)
      [] addressing.mode = "list" -> FromList(addressing.node, ctx)
      [] addressing.mode = "base" -> FromBase(addressing.node, ctx)
=============================================================================
