--------------------------- MODULE SegmentAddressing ---------------------------
(***************************************************************************)
(* One AdaptationSet from refresh to refresh: each tick derives the list   *)
(* of its segments from the MPD and the clock, or from an index it fetches,*)
(* chooses where to start, and requests segment after segment from the     *)
(* Representations that rate adaptation picks (schedule/adaptation_stream  *)
(* 295-463, schedule/segment_fetch, manifest/).                            *)
(*                                                                         *)
(* A site is the sequence of the MPDs it publishes: [at, dynamic, start,   *)
(* end, duration, total, depth, host, urls, default, seed, latency,        *)
(* period, set], `at` being the time of publication and `latency` the      *)
(* ProducerReferenceTime its latency refers to.  What its server holds is  *)
(* given by Media and IndexFile, and never changes.                        *)
(***************************************************************************)
EXTENDS SegmentIndex, SegmentAlignment

CONSTANTS
    Sites,              \* a sequence of sites
    Media(_, _, _),     \* site, URL base, target: <<Representation, start>> or NoVal
    IndexFile(_, _, _), \* site, Representation id, path: [doc, size, timescale]
    Published(_, _),    \* site, version: starts of the segments the MPD describes
    Steerings,          \* the priorities content steering may answer
    Seeks,              \* presentation times of a seek
    Start,              \* when the player starts
    MaxNow

ASSUME SitesAssumption == Len(Sites) > 0
ASSUME ClockAssumption == Start \in Nat /\ MaxNow \in Nat

VARIABLES
    site, version,  \* which MPD of which site is in use
    now,            \* wall clock, from availabilityStartTime on
    steering,       \* service_location_priority
    stream,         \* fetch_adaptation_stream: [pc, began, since, target, segs, start,
                    \* chunk, cursor]
    cache,          \* sidx_segments_by_rep, per_segment_index_ranges_by_rep
    loading,        \* the index being fetched: [rep, seg, end, parsed], or NoVal
    request         \* the last media request: [rep, seg, bases, target], or NoVal

vars == <<site, version, now, steering, stream, cache, loading, request>>

Idle == [pc |-> "idle", began |-> 0, since |-> 0, target |-> NoVal, segs |-> <<>>, start |-> 1,
         chunk |-> NoVal, cursor |-> 1]

Init ==
    /\ site \in DOMAIN Sites
    /\ version = 1
    /\ now = Start
    /\ steering = <<>>
    /\ stream = Idle
    /\ cache = {}
    /\ loading = NoVal
    /\ request = NoVal

Mpd == Sites[site][version]

Reps == Mpd.set.reps

\* What a document says once and for all, for every version of every site.
OfEach(Of(_)) == [i \in DOMAIN Sites |-> [v \in DOMAIN Sites[i] |-> Of(Sites[i][v])]]

OfEachRep(Of(_, _)) == OfEach(LAMBDA mpd : [r \in DOMAIN mpd.set.reps |-> Of(mpd, mpd.set.reps[r])])

SetModes == OfEach(LAMBDA mpd : AddressingOfSet(mpd.period, mpd.set))

RepModes == OfEachRep(LAMBDA mpd, rep : AddressingOf(mpd.period, mpd.set, rep))

SetAddressing == SetModes[site][version]

RepAddressing(r) == RepModes[site][version][r]

\* By the priorities that content steering has given.
Candidates == OfEachRep(LAMBDA mpd, rep : [priorities \in Steerings \cup {<<>>} |->
                                              BasesFor(mpd, mpd.set, rep, priorities)])

Offers == OfEach(LAMBDA mpd : [priorities \in Steerings \cup {<<>>} |->
                                  UrlAvailability(mpd, mpd.set, mpd.set.reps[1], priorities)])

BasesOf(r) == Candidates[site][version][r][steering]

\* Addressing whose segments an index lists.
Indexed(addressing) ==
    CASE addressing.mode = "base" -> UsesSidx(addressing.node)
      [] addressing.mode = "template" -> UsesGlobalSidecar(addressing.node)
      [] OTHER -> FALSE

PerSegment(addressing) == addressing.mode = "template" /\ UsesPerSegmentIndex(addressing.node)

\* timeline_build_context
Context(since, target) ==
    [ dynamic |-> Mpd.dynamic, start |-> Mpd.start, end |-> Mpd.end, duration |-> Mpd.duration,
      total |-> Mpd.total, depth |-> Mpd.depth, now |-> since,
      cover |-> IF target = NoVal THEN NoVal ELSE Most(target - Mpd.start, 0) ]

\* segment_is_available, for the primary Representation's BaseURLs
Available(seg, since, offers) ==
    LET at == IF offers.complete THEN SequenceStart(seg) + Most(OrElse(offers.offset, 0), 0) ELSE seg.start
    IN  offers.offset = Endless \/ since >= Mpd.start + at

SetAvailability == AvailabilityOf(SetAddressing, Offers[site][version][steering])

\* filter_segments_by_availability
Filtered(segs, since) ==
    IF ~Mpd.dynamic THEN segs ELSE SelectSeq(segs, LAMBDA s : Available(s, since, SetAvailability))

\* A slip: the first segment that starts after the target.
StartIndex_After(segs, target) ==
    LET after == {i \in DOMAIN segs : Mpd.start + segs[i].start > target}
    IN  IF target = NoVal \/ after = {} THEN 1 ELSE CHOOSE i \in after : \A j \in after : i <= j

\* The first segment that still holds instants after the target.
StartIndex(segs, target) ==
    LET after == {i \in DOMAIN segs : Mpd.start + segs[i].start + segs[i].dur > target}
    IN  IF target = NoVal \/ after = {} THEN 1 ELSE CHOOSE i \in after : \A j \in after : i <= j

-----------------------------------------------------------------------------
(* The environment: time, the MPD, content steering.                       *)

\* The stream's own clock runs on from where the tick read it.
SinceNow == stream.since + (now - stream.began)

\* The end of a list that the clock alone extends.
AtLiveEdge ==
    /\ stream.pc = "fetch"
    /\ stream.segs # <<>>
    /\ stream.cursor > Len(stream.segs)
    /\ Extensible(SetAddressing, Context(stream.since, stream.target))

\* Elsewhere a stream does not read the clock again.
Advance ==
    /\ stream.pc = "idle" \/ AtLiveEdge
    /\ now < MaxNow
    /\ now' = now + 1
    /\ UNCHANGED <<site, version, steering, stream, cache, loading, request>>

\* A refresh, or new steering, takes effect between two ticks.
Refresh ==
    /\ stream.pc = "idle"
    /\ \/ /\ version < Len(Sites[site])
          /\ Sites[site][version + 1].at <= now
          /\ version' = version + 1
          /\ UNCHANGED steering
       \/ steering' \in Steerings /\ UNCHANGED version
    /\ UNCHANGED <<site, now, stream, cache, loading, request>>

-----------------------------------------------------------------------------
(* The list.                                                               *)

GridHints == OfEach(LAMBDA mpd : HintsOf(AddressingOf(mpd.period, mpd.set, mpd.set.reps[1]),
                                         mpd.set, mpd.set.reps[1]))

\* resync_hints
Hints == GridHints[site][version]

\* Segments are known.  The stream begins at the target, or after what the
\* track has already delivered; a seek has made it forget that.
Started(since, target, kept, begin) ==
    \E first \in IF target = NoVal THEN begin.index .. Most(Len(kept), 1) ELSE {begin.index} :
        stream' = [ pc |-> "fetch", began |-> now, since |-> since, target |-> target, segs |-> kept,
                    start |-> first, chunk |-> begin.chunk, cursor |-> first ]

Aligned(kept, target) ==
    Begin(kept, StartIndex(kept, target), IF target = NoVal THEN NoVal ELSE target - Mpd.start,
          Mpd.set, Hints, Timescale(SetAddressing))

Listed(since, target, segs) ==
    IF segs = Failed
    THEN stream' = [Idle EXCEPT !.pc = "failed", !.began = now, !.since = since, !.target = target]
    ELSE \E kept \in {Filtered(segs, since)} : Started(since, target, kept, Aligned(kept, target))

Since == SinceStart(now, Mpd.start, Mpd.set, Reps[1], RepAddressing(1), Mpd.latency)

\* fetch_adaptation_stream begins: without an index the list follows at once.
Tick ==
    /\ stream.pc = "idle"
    /\ \E target \in Seeks \cup {NoVal} :
        /\ SetAddressing = Failed =>
                stream' = [Idle EXCEPT !.pc = "failed", !.began = now, !.since = Since, !.target = target]
        /\ SetAddressing # Failed =>
            IF Indexed(SetAddressing)
            THEN stream' = [Idle EXCEPT !.pc = "index", !.began = now, !.since = Since, !.target = target]
            ELSE Listed(Since, target, SegmentsFor(SetAddressing, Context(Since, target),
                                                   EndNumberOf(Mpd.period, Mpd.set)))
    /\ UNCHANGED <<site, version, now, steering, cache, loading, request>>

-----------------------------------------------------------------------------
(* Indexes.                                                                *)

AddressingIn(r) ==
    LET own == RepAddressing(r)
    IN  IF own # Failed THEN own ELSE SetAddressing

\* The file an index lies in, and the range declared for it.
Target(r, seg) ==
    IndexTarget(AddressingIn(r), IF seg = NoVal THEN VarsFor(Reps[r]) ELSE VarsOf(Reps[r], seg))

File(r, seg) == IndexFile(site, Reps[r].id, Target(r, seg).path)

\* The bytes of the declared range up to `end`, as far as the file has them,
\* and what they parse to.
Loaded(r, seg, file, end) ==
    [ rep |-> r, seg |-> seg, end |-> end,
      parsed |-> Parse(AddressingIn(r), file.doc, Least(end, file.size - 1) - file.base + 1, file.timescale) ]

\* The first range; the whole document when none is declared.
BeginIndex(r, seg) ==
    LET First(target, file) == IF target.range = NoVal THEN file.size - 1 ELSE target.range[2]
    IN  /\ loading = NoVal
        /\ \E file \in {File(r, seg)} : loading' = Loaded(r, seg, file, First(Target(r, seg), file))

Answer == loading.parsed.outcome

\* The bytes are extended while a later one is needed; a server answers with
\* what its file has of them, and fails when it has none.
Extends == Answer.kind = "need" /\ Answer.at > loading.end

ExtendIndex ==
    /\ loading # NoVal
    /\ Extends
    /\ \E file \in {File(loading.rep, loading.seg)} :
        /\ loading.end + 1 < file.size
        /\ loading' = Loaded(loading.rep, loading.seg, file, Answer.at)
    /\ UNCHANGED <<site, version, now, steering, stream, cache, request>>

\* The index that lists the set is its first Representation's.
LoadSetIndex ==
    /\ stream.pc = "index"
    /\ BeginIndex(1, NoVal)
    /\ UNCHANGED <<site, version, now, steering, stream, cache, request>>

SetIndexLoaded ==
    /\ stream.pc = "index"
    /\ loading # NoVal
    /\ Answer.kind = "found"
    /\ Listed(stream.since, stream.target, loading.parsed.segs)
    /\ loading' = NoVal
    /\ UNCHANGED <<site, version, now, steering, cache, request>>

\* Without its index a set fails, a Representation is passed over.
DropIndex ==
    /\ loading' = NoVal
    /\ stream' = IF stream.pc = "index" THEN [stream EXCEPT !.pc = "failed"] ELSE stream
    /\ UNCHANGED <<site, version, now, steering, cache, request>>

\* What is fetched is no index, or the file ends before it is complete.
IndexUnusable ==
    /\ loading # NoVal
    /\ Answer.kind # "found"
    /\ Extends => loading.end + 1 >= File(loading.rep, loading.seg).size
    /\ DropIndex

\* Every server has failed.
IndexFails == loading # NoVal /\ DropIndex

-----------------------------------------------------------------------------
(* Requests: prepare_media_at_quality for the segment at the cursor.       *)

Planned == stream.segs[stream.cursor]

\* cache entries are [rep, number, segs]: `number` only for an index per segment.
CacheKey(r) == [rep |-> r, number |-> IF PerSegment(RepAddressing(r)) THEN Planned.number ELSE NoVal]

Cached(r) == {e \in cache : e.rep = CacheKey(r).rep /\ e.number = CacheKey(r).number}

NeedsIndex(r) ==
    /\ RepAddressing(r) # Failed
    /\ Indexed(RepAddressing(r)) \/ PerSegment(RepAddressing(r))
    /\ Cached(r) = {}

\* sidx_segments_for_rep, media_range_for_per_segment_index
LoadRepIndex ==
    /\ stream.pc = "fetch"
    /\ stream.cursor <= Len(stream.segs)
    /\ \E r \in DOMAIN Reps :
        /\ NeedsIndex(r)
        /\ BeginIndex(r, IF PerSegment(RepAddressing(r)) THEN Planned ELSE NoVal)
    /\ UNCHANGED <<site, version, now, steering, stream, cache, request>>

RepIndexLoaded ==
    /\ stream.pc = "fetch"
    /\ loading # NoVal
    /\ Answer.kind = "found"
    /\ cache' = cache \cup {[ rep |-> loading.rep, segs |-> loading.parsed.segs,
                              number |-> IF loading.seg = NoVal THEN NoVal ELSE loading.seg.number ]}
    /\ loading' = NoVal
    /\ UNCHANGED <<site, version, now, steering, stream, request>>

\* The byte range: of the Representation's own index, at the segment's place
\* in the list that starts at the cursor's beginning (local_index).
RangeFor(r) ==
    LET entry == CHOOSE e \in Cached(r) : TRUE
        local == stream.cursor - stream.start + 1
    IN  IF Cached(r) = {} THEN Planned.range
        ELSE IF PerSegment(RepAddressing(r)) THEN WholeRange(entry.segs)
        ELSE IF local \in DOMAIN entry.segs THEN entry.segs[local].range ELSE Planned.range

Request ==
    /\ stream.pc = "fetch"
    /\ loading = NoVal
    /\ stream.cursor <= Len(stream.segs)
    /\ \E r \in DOMAIN Reps :
        /\ ~NeedsIndex(r)
        /\ RepAddressing(r) # Failed
        /\ request' = [ rep |-> r, seg |-> Planned,
                        bases |-> BasesOf(r),
                        target |-> MediaTarget(RepAddressing(r), [Planned EXCEPT !.range = RangeFor(r)],
                                               stream.cursor, Reps[r]) ]
    /\ stream' = [stream EXCEPT !.cursor = @ + 1]
    /\ UNCHANGED <<site, version, now, steering, cache, loading>>

\* extend_duration_template_live_edge: the next segment is published.
ExtendLiveEdge ==
    /\ AtLiveEdge
    /\ LET next == NextSegment(stream.segs[Len(stream.segs)], Timescale(SetAddressing))
       IN  /\ Available(next, SinceNow, SetAvailability)
           /\ stream' = [stream EXCEPT !.segs = Append(@, next)]
    /\ UNCHANGED <<site, version, now, steering, cache, loading, request>>

\* The stream returns, at the end of its list or before it; so does one that
\* failed.  Only the list is remembered, to compare the next one with.
Rest ==
    /\ stream.pc \in {"fetch", "failed"}
    /\ loading = NoVal
    /\ stream' = [Idle EXCEPT !.segs = stream.segs]
    /\ cache' = {}
    /\ request' = NoVal
    /\ UNCHANGED <<site, version, now, steering, loading>>

Next ==
    \/ Advance \/ Refresh \/ Tick
    \/ LoadSetIndex \/ ExtendIndex \/ SetIndexLoaded \/ IndexUnusable \/ IndexFails
    \/ LoadRepIndex \/ RepIndexLoaded
    \/ Request \/ ExtendLiveEdge \/ Rest

Spec == Init /\ [][Next]_vars

-----------------------------------------------------------------------------
(* Properties.                                                             *)

\* The variables hold what their declarations say; a cursor lies in its list.
TypeOK ==
    /\ site \in DOMAIN Sites
    /\ version \in DOMAIN Sites[site]
    /\ now \in 0 .. MaxNow
    /\ steering \in Steerings \cup {<<>>}
    /\ stream.pc \in {"idle", "index", "fetch", "failed"}
    /\ stream.since \in Nat
    /\ stream.target \in Seeks \cup {NoVal}
    /\ \A s \in ToSet(stream.segs) : s.number \in Nat /\ s.start \in Nat /\ s.dur \in Nat
    /\ stream.start \in 1 .. Most(Len(stream.segs), 1)
    /\ stream.cursor \in stream.start .. Most(Len(stream.segs), 1) + 1
    /\ loading # NoVal => loading.rep \in DOMAIN Reps /\ stream.pc \in {"index", "fetch"}
    /\ request # NoVal => request.rep \in DOMAIN Reps /\ request.seg \in ToSet(stream.segs)

\* Every candidate for the request would answer with the media it stands for.
RightMedia ==
    request # NoVal =>
        /\ request.target # Failed
        /\ \A base \in ToSet(request.bases) :
            Media(site, base, request.target) = <<Reps[request.rep].id, request.seg.start>>

\* Whichever way segments are addressed, inherited and numbered, a request is
\* for the media of its Representation at its segment's time -- but for two
\* cases: the index of a Representation is read at the segment's place in a
\* list that begins elsewhere (segment_fetch.rs:334), and a SegmentList of a
\* Representation is read through the first one's URLs (fetch.rs:158).
OnlyMisplaced ==
    ~RightMedia =>
        \/ Indexed(RepAddressing(request.rep)) /\ stream.start > 1
        \/ SetAddressing.mode = "list" /\ Reps[request.rep].list # NoVal

\* "With `@indexRange` / `RepresentationIndex`, `media_range` comes from the
\* parsed `sidx`" (fetch.rs:177), of the segment that is requested: refuted, the
\* sidx is read at the segment's place in the stream's slice (segment_fetch.rs:334).
IndexedRangeIsRight ==
    request # NoVal /\ Indexed(RepAddressing(request.rep)) => RightMedia

InWindow(p) ==
    Mpd.dynamic =>
        /\ Mpd.start + p.start < stream.since
        /\ Mpd.start + p.start >= stream.since - Depth(Context(stream.since, stream.target))

\* The list holds every segment the MPD describes that starts inside the time
\* shift buffer and before the live edge, and nothing the MPD does not describe or that starts in the
\* future (timeline/mod.rs).
WindowCovered ==
    stream.pc = "fetch" =>
        LET listed == {[start |-> s.start, dur |-> s.dur] : s \in ToSet(stream.segs)}
        IN  /\ {p \in Published(site, version) : InWindow(p)} \subseteq listed
            /\ listed \subseteq {p \in Published(site, version) :
                                    Mpd.dynamic => Mpd.start + p.start <= SinceNow}

\* Segments follow each other without overlap, however they are described.
NoOverlap ==
    \A i \in 1 .. Len(stream.segs) - 1 :
        stream.segs[i].start + stream.segs[i].dur <= stream.segs[i + 1].start

\* The list tiles what the MPD publishes of the window.
WindowTiled == TypeOK /\ WindowCovered /\ NoOverlap

\* A seek into a segment of the list begins with it, or before it at a random
\* access point: never in the middle of a sequence, never after the target,
\* and elsewhere than with the target's own sequence only to meet a grid.
SeekLandsInside ==
    stream.pc = "fetch" /\ stream.target # NoVal =>
        LET first == stream.segs[stream.start]
            at    == stream.target - Mpd.start
            step  == IF Hints.access # NoVal THEN Hints.access ELSE Hints.chunk
        IN  \A s \in ToSet(stream.segs) :
                s.start <= at /\ at < s.start + s.dur =>
                    /\ first.start <= s.start
                    /\ first.sub <= 1 \/ Mpd.set.sap
                    /\ Hints = NoVal /\ Mpd.set.access = <<>> => SequenceStart(s) = first.start
                    /\ stream.chunk # NoVal => first.start + (stream.chunk - 1) * step <= at

\* From tick to tick, whatever the MPD drops at its front, a segment keeps its
\* number and time and no other segment takes them over.
NamesAreStable ==
    [][ \A s \in ToSet(stream.segs), t \in ToSet(stream'.segs) :
            /\ s.start = t.start <=> (s.number = t.number /\ s.sub = t.sub)
            /\ s.start = t.start => s.time = t.time ]_stream

\* Content steering reorders the candidates and loses none: the location it
\* puts first is requested first.
SteeringOnlyReorders ==
    request # NoVal =>
        LET preferred == {i \in DOMAIN steering : AtLocation(Mpd.urls, steering[i]) # <<>>}
            first     == CHOOSE i \in preferred : \A j \in preferred : i <= j
        IN  /\ ToSet(request.bases) = ToSet(Candidates[site][version][request.rep][<<>>])
            /\ preferred # {} =>
                \E bu \in ToSet(AtLocation(Mpd.urls, steering[first])) :
                    IsPrefix(MergeBaseUrl(<<Mpd.host>>, bu), request.bases[1])

\* The right media, of the candidates in the order content steering asks for.
RequestsAreRight == OnlyMisplaced /\ SteeringOnlyReorders

\* While an index is completed, nothing beyond it and its declared range is
\* downloaded.
OnlyIndexBytes ==
    loading # NoVal =>
        LET file == File(loading.rep, loading.seg)
            ends == {file.base + off + file.doc[off].size - 1 : off \in DOMAIN file.doc}
        IN  \/ Target(loading.rep, loading.seg).range = NoVal
            \/ loading.end <= Target(loading.rep, loading.seg).range[2]
            \/ \E end \in ends : loading.end <= end

\* An index that its file holds whole is never given up, however it is nested
\* and wherever its declared range cuts it off: what is asked for next brings
\* it nearer, until it is read.
WholeIndexIsRead ==
    loading # NoVal =>
        LET file == File(loading.rep, loading.seg)
        IN  (\A off \in DOMAIN file.doc : file.base + off + file.doc[off].size <= file.size) =>
                Answer.kind = "found" \/ (Answer.kind = "need" /\ Extends /\ Answer.at < file.size)

\* The whole of an index is read, and nothing else.
IndexIsRead == OnlyIndexBytes /\ WholeIndexIsRead
=============================================================================
