----------------------------- MODULE MediaPeriods -----------------------------
(***************************************************************************)
(* Periods on the presentation timeline: their windows, which of them a    *)
(* tick plays, how two of them are linked, and when their segments are     *)
(* available (manifest/period.rs, dvr.rs, period_connectivity.rs,          *)
(* availability.rs).  Times count from availabilityStartTime; sequences    *)
(* start at 1 where the code's vectors start at 0.                         *)
(*                                                                         *)
(* An MPD is a record [dynamic, duration, depth, delay, periods]; a period *)
(* is [id, start, duration, asset, sets, ...]; an Adaptation Set is        *)
(* [id, reps, links], where links are <<scheme, period id>> pairs of its   *)
(* SupplementalProperty elements.                                          *)
(***************************************************************************)
EXTENDS Integers, Sequences, FiniteSets

CONSTANTS
    NoTime,         \* None of an Option<Duration>
    NoId            \* None of an Option<String>

LOCAL Least(a, b) == IF a < b THEN a ELSE b
LOCAL Most(a, b) == IF a > b THEN a ELSE b

-----------------------------------------------------------------------------
(* Windows.                                                                *)

\* The end of period i, were it to start at the given time.
EndFrom(mpd, i, start) ==
    IF mpd.periods[i].duration # NoTime THEN start + mpd.periods[i].duration
    ELSE IF i < Len(mpd.periods) THEN mpd.periods[i + 1].start
    ELSE NoTime

\* acc_start: the last known end of an earlier period.
PeriodStarts(mpd) ==
    LET acc[i \in 0 .. Len(mpd.periods)] ==
            IF i = 0 THEN 0
            ELSE LET end == EndFrom(mpd, i, IF mpd.periods[i].start = NoTime THEN acc[i - 1]
                                            ELSE mpd.periods[i].start)
                 IN  IF end = NoTime THEN acc[i - 1] ELSE end
    IN  [i \in DOMAIN mpd.periods |->
            IF mpd.periods[i].start = NoTime THEN acc[i - 1] ELSE mpd.periods[i].start]

\* mediaPresentationDuration takes precedence for the last period.
WindowsOf(mpd) ==
    LET starts == PeriodStarts(mpd)
        last   == Len(mpd.periods)
    IN  [i \in DOMAIN mpd.periods |->
            [ idx |-> i, start |-> starts[i],
              end |-> IF i = last /\ mpd.duration \notin {NoTime, 0}
                      THEN Most(mpd.duration, starts[i])
                      ELSE EndFrom(mpd, i, starts[i]) ]]

\* presentation_gap_before, for consecutive periods
GapBefore(mpd, idx) ==
    LET windows == WindowsOf(mpd)
    IN  IF idx = 1 THEN NoTime
        ELSE IF windows[idx - 1].end = NoTime \/ windows[idx].start <= windows[idx - 1].end
        THEN NoTime
        ELSE windows[idx].start - windows[idx - 1].end

Holds(window, t) == t >= window.start /\ (window.end = NoTime \/ t < window.end)

\* The windows a time lies in; the code takes the first.
FirstHolding(windows, t) ==
    LET at == {i \in DOMAIN windows : Holds(windows[i], t)}
    IN  IF at = {} THEN 0 ELSE CHOOSE i \in at : \A j \in at : i <= j

\* period_at_presentation_time, as an index; 0 is None
PeriodAt(windows, t) == FirstHolding(windows, t)

\* current_period_window_at: past the end the last one, without a wall clock
\* the first.
CurrentPeriod(windows, now) ==
    IF now = NoTime THEN 1
    ELSE IF FirstHolding(windows, now) = 0 THEN Len(windows) ELSE FirstHolding(windows, now)

-----------------------------------------------------------------------------
(* Links.                                                                  *)

Soft(link) == link \in {"continuous", "connected"}

Strongest(links) ==
    IF "continuous" \in links THEN "continuous"
    ELSE IF "connected" \in links THEN "connected" ELSE "discontinuous"

SetsMatch(prev, next) == prev.id # NoId /\ prev.id = next.id /\ prev.reps = next.reps

\* adaptation_set_period_link
SetLink(prev, prevPeriodId, next) ==
    IF ~SetsMatch(prev, next) \/ prevPeriodId = NoId THEN "discontinuous"
    ELSE Strongest({l[1] : l \in {k \in next.links : k[2] = prevPeriodId}})

\* period_link: what the sets declare, else equal AssetIdentifiers.
PeriodLink(mpd, from, to) ==
    IF ~({from, to} \subseteq DOMAIN mpd.periods) THEN "discontinuous"
    ELSE
    LET prev  == mpd.periods[from]
        next  == mpd.periods[to]
        pairs == (DOMAIN prev.sets) \X (DOMAIN next.sets)
        best  == Strongest({SetLink(prev.sets[p[1]], prev.id, next.sets[p[2]]) : p \in pairs})
    IN  IF /\ best = "discontinuous"
           /\ prev.asset # NoId /\ prev.asset = next.asset
           /\ \E p \in pairs : SetsMatch(prev.sets[p[1]], next.sets[p[2]])
        THEN "continuous" ELSE best

-----------------------------------------------------------------------------
(* What a tick plays.                                                      *)

\* append_upcoming_period_if_near_transition
NearNext(mpd, windows, current, now, depth) ==
    /\ now # NoTime
    /\ current < Len(windows)
    /\ Soft(PeriodLink(mpd, current, current + 1))
    /\ now >= windows[current + 1].start - depth

\* live_periods_for_playback: from the seek target's period to the live one.
LivePeriods(mpd, now, depth, seek) ==
    LET windows == WindowsOf(mpd)
        current == CurrentPeriod(windows, now)
        first   == IF seek = NoTime \/ PeriodAt(windows, seek) = 0 THEN current
                   ELSE PeriodAt(windows, seek)
        from    == IF first <= current THEN first ELSE current
        to      == IF NearNext(mpd, windows, current, now, depth) THEN current + 1 ELSE current
    IN  SubSeq(windows, from, to)

\* periods_to_play
PeriodsToPlay(mpd, now, depth, seek) ==
    IF mpd.dynamic THEN LivePeriods(mpd, now, depth, seek) ELSE WindowsOf(mpd)

IsBeforeSeek(window, seek) == seek # NoTime /\ window.end # NoTime /\ window.end <= seek

\* period_seek_target
SeekTargetIn(window, seek) == IF Holds(window, seek) THEN seek ELSE NoTime

\* target_presentation_time_from_since
LiveTarget(mpd, now) ==
    IF now = NoTime THEN NoTime ELSE Most(now - mpd.delay, 0)

\* dvr_window_at: the seekable range; NoTime bounds stand for None.
DvrWindow(mpd, now) ==
    LET windows == WindowsOf(mpd)
        last    == windows[Len(windows)].end
        none    == [start |-> NoTime, end |-> NoTime]
        range(start, end) == IF end = NoTime \/ end <= start THEN none
                             ELSE [start |-> start, end |-> end]
    IN  IF ~mpd.dynamic
        THEN range(windows[1].start, IF mpd.duration # NoTime THEN mpd.duration ELSE last)
        ELSE IF now = NoTime THEN none
        ELSE LET deepest == Most(Most(now - mpd.depth, 0), windows[1].start)
                 live    == LiveTarget(mpd, now)
             IN  range(IF last = NoTime THEN deepest ELSE Least(deepest, last),
                       IF mpd.duration \in {NoTime, 0} THEN live ELSE Least(live, mpd.duration))

-----------------------------------------------------------------------------
(* Availability.                                                           *)

\* segment_sequence_start_s: a sub-segment belongs to the sequence it is cut from.
SequenceStart(seg) ==
    IF seg.sub = 0 THEN seg.start ELSE seg.start - (seg.sub - 1) * seg.dur

\* segment_is_available; `offset` is availabilityTimeOffset (NoTime: INF) and
\* `complete` availabilityTimeComplete.  A segment's start is relative to its
\* period, its sub-number is 0 unless S@k cuts it up.
IsAvailable(seg, periodStart, now, offset, complete) ==
    \/ offset = NoTime
    \/ now >= periodStart + IF complete THEN SequenceStart(seg) + Most(offset, 0) ELSE seg.start

\* uses_chunked_segment_transfer
IsChunked(seg, complete) == ~complete /\ seg.sub = 0

\* filter_segments_by_availability: whether a segment is kept
IsKept(mpd, seg, periodStart, now, offset, complete) ==
    ~mpd.dynamic \/ now = NoTime \/ IsAvailable(seg, periodStart, now, offset, complete)
=============================================================================
