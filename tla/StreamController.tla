--------------------------- MODULE StreamController ---------------------------
(***************************************************************************)
(* The run loop over the periods of a presentation                         *)
(* (stream_controller/mod.rs): manifest snapshots, period changes, the     *)
(* track streams of a period side by side, seeks, the end; and the         *)
(* sync-buffer prefetch that fetches the next period's first segment while *)
(* this one still plays (schedule/sync_prefetch.rs).                       *)
(*                                                                         *)
(* A stream is reduced to what crosses periods: it delivers the segments   *)
(* that its session's tracker does not have, in order, one at a time       *)
(* (batches, qualities and pauses are in AdaptationStream).                *)
(***************************************************************************)
EXTENDS MediaPeriods, DeliveredSegments

CONSTANTS
    Tracks,         \* of the host; track t plays Adaptation Set TrackSet[t]
    TrackSet,
    Presentations,  \* a sequence of presentations: MPDs, published one after the other
    SyncDepth,      \* min_buffer_s
    SeekTimes,      \* positions the host may seek to
    MaxSeeks,       \* bound: seek generations
    MaxNow,         \* bound: wall time
    Failing,        \* bound: the presentations whose requests may fail
    Commands        \* what else the host may do: "stop", "leave"

IsList(s) == s \in Seq({s[i] : i \in DOMAIN s})

\* An MPD has Periods, each with an @id of its own, which end in their order.
IsMpd(mpd) ==
    LET windows == WindowsOf(mpd)
    IN  /\ IsList(mpd.periods) /\ mpd.periods # <<>>
        /\ mpd.dynamic \in BOOLEAN /\ mpd.published \in Nat
        /\ \A i \in DOMAIN windows :
               /\ mpd.periods[i].count \in Nat
               /\ windows[i].start \in Nat /\ windows[i].end \in Nat \cup {NoTime}
        /\ \A i, j \in DOMAIN windows :
               /\ mpd.periods[i].id = mpd.periods[j].id => i = j
               /\ i < j /\ windows[j].end # NoTime
                      => windows[i].end # NoTime /\ windows[i].end <= windows[j].end

\* A refresh adds Periods behind those there are, which keep place and events.
Extends(new, old) ==
    /\ Len(old.periods) <= Len(new.periods)
    /\ \A i \in DOMAIN old.periods :
           /\ new.periods[i].id = old.periods[i].id
           /\ new.periods[i].events = old.periods[i].events

\* Every Period has media, which is over when the Period is, and that before
\* the next one starts.
IsTiled(mpd) ==
    LET windows == WindowsOf(mpd)
    IN  /\ \A i \in DOMAIN windows :
               /\ mpd.periods[i].count > 0 /\ windows[i].end # NoTime
               /\ windows[i].start + mpd.periods[i].count <= windows[i].end
        /\ \A i, j \in DOMAIN windows : i < j => windows[i].end <= windows[j].start

IsPresentation(mpds) ==
    /\ IsList(mpds) /\ mpds # <<>> /\ mpds[1].published = 0
    /\ \A v \in DOMAIN mpds : IsMpd(mpds[v])
    /\ \A v, w \in DOMAIN mpds : v <= w => Extends(mpds[w], mpds[v])
    /\ ~mpds[1].dynamic => Len(mpds) = 1 /\ IsTiled(mpds[1])

ASSUME ControllerAssumption ==
    /\ SyncDepth \in Nat /\ MaxSeeks \in Nat /\ MaxNow \in Nat
    /\ SeekTimes \subseteq Nat /\ NoTime \notin Nat
    /\ \A k \in DOMAIN Presentations : IsPresentation(Presentations[k])
    /\ Failing \subseteq DOMAIN Presentations

VARIABLES
    host,       \* the controller's flags, and whether receivers are left
    world,      \* the presentation, wall time
    loop,       \* the locals of the run loop
    session,    \* TrackSessionState of every track
    stream,     \* the locals of run_adaptation_stream, per track
    holding,    \* held_prefetch: segments to send after the next PeriodChanged
    emitted,    \* MpdEventDedup
    channel,    \* media sent to each track's receiver since the last seek
    period      \* the period last announced to the receivers

vars == <<host, world, loop, session, stream, holding, emitted, channel, period>>

\* What the steps of the run loop, the host and the world leave alone.
Media == <<session, stream, holding, emitted, channel, period>>

Idle == [at |-> "off", gen |-> 0, cursor |-> 1, held |-> <<>>]

NewSession == [haveInit |-> FALSE, tracker |-> NewTracker]

Init ==
    /\ host = [stopped |-> FALSE, listening |-> TRUE, seekTarget |-> NoTime, seekGen |-> 0]
    /\ \E k \in DOMAIN Presentations : world = [kind |-> k, now |-> 0]
    /\ loop = [at |-> "top", snapshot |-> 1, now |-> NoTime, windows |-> <<>>, pos |-> 1,
               last |-> 0, override |-> NoTime, gen |-> 0]
    /\ session = [t \in Tracks |-> NewSession]
    /\ stream = [t \in Tracks |-> Idle]
    /\ holding = [t \in Tracks |-> <<>>]
    /\ emitted = {}
    /\ channel = [t \in Tracks |-> <<>>]
    /\ period = NoId

-----------------------------------------------------------------------------
(* The host and the world.                                                 *)

Over == loop.at \in {"done", "failed"}

Published == Presentations[world.kind]

\* The MPD of this tick.
Mpd == Published[loop.snapshot]

Command(h) ==
    /\ ~Over /\ ~host.stopped /\ host.listening
    /\ host' = h
    /\ UNCHANGED <<world, loop, Media>>

Seek ==
    /\ host.seekGen < MaxSeeks
    /\ \E t \in SeekTimes : Command([host EXCEPT !.seekTarget = t, !.seekGen = @ + 1])

Stop == "stop" \in Commands /\ Command([host EXCEPT !.stopped = TRUE])

DropReceivers ==
    "leave" \in Commands /\ Command([host EXCEPT !.listening = FALSE])

Dynamic == Published[1].dynamic

CanFail == world.kind \in Failing

Later == [world EXCEPT !.now = IF Dynamic /\ @ < MaxNow THEN @ + 1 ELSE @]

\* Wall time passes where the run loop awaits, and while the MPD is on its way.
Tick ==
    /\ loop.at \in {"refreshing", "ticking", "preparing", "join"}
    /\ world' = Later /\ world' # world
    /\ UNCHANGED <<host, loop, Media>>

\* The MPD at the origin: the last one published by now.
AtOrigin ==
    CHOOSE n \in DOMAIN Published :
        /\ Published[n].published <= world.now
        /\ \A m \in DOMAIN Published : Published[m].published <= world.now => m <= n

-----------------------------------------------------------------------------
(* One tick.                                                               *)

Goto(at) == loop' = [loop EXCEPT !.at = at]

BeginTick ==
    /\ loop.at = "top"
    /\ Goto(IF host.stopped \/ ~host.listening THEN "done" ELSE "refreshing")
    /\ UNCHANGED <<host, world, Media>>

\* refresh_manifest returns a snapshot.
Refreshed ==
    /\ loop.at = "refreshing"
    /\ loop' = [loop EXCEPT !.at = "ticking", !.snapshot = AtOrigin]
    /\ UNCHANGED <<host, world, Media>>

RefreshFails ==
    /\ loop.at = "refreshing" /\ CanFail
    /\ Goto("failed")
    /\ UNCHANGED <<host, world, Media>>

Now == IF Mpd.dynamic THEN world.now ELSE NoTime

\* After manifest_tick: the seek is taken, the tick's periods are chosen, and
\* nothing is held yet.
BeginPeriods ==
    /\ loop.at = "ticking"
    /\ LET seek == IF host.seekTarget = NoTime THEN loop.override ELSE host.seekTarget
       IN  loop' = [loop EXCEPT
               !.at = "periods", !.now = Now, !.override = seek, !.pos = 1, !.gen = host.seekGen,
               !.windows = PeriodsToPlay(Mpd, Now, SyncDepth, seek)]
    /\ host' = [host EXCEPT !.seekTarget = NoTime]
    /\ holding' = [t \in Tracks |-> <<>>]
    /\ channel' = IF host.seekTarget = NoTime THEN channel ELSE [t \in Tracks |-> <<>>]
    /\ UNCHANGED <<world, session, stream, emitted, period>>

Window == loop.windows[loop.pos]

AfterWindows == loop.pos > Len(loop.windows) \/ host.stopped

SkipPeriod ==
    /\ loop.at = "periods" /\ ~AfterWindows
    /\ IsBeforeSeek(Window, loop.override)
    /\ loop' = [loop EXCEPT !.pos = @ + 1]
    /\ UNCHANGED <<host, world, Media>>

\* A slip: the link is looked for on the period that is left.
LinkHere_Swapped ==
    IF loop.last = 0 THEN "discontinuous" ELSE PeriodLink(Mpd, Window.idx, loop.last)

LinkHere ==
    IF loop.last = 0 THEN "discontinuous" ELSE PeriodLink(Mpd, loop.last, Window.idx)

\* A slip: a soft boundary forgets the frontier as a hard one does.
ResetSession_NoFrontier(soft) ==
    session' = [t \in Tracks |->
        IF soft THEN [session[t] EXCEPT !.tracker = NewTracker] ELSE NewSession]

ResetSession(soft) ==
    session' = [t \in Tracks |->
        IF soft THEN [session[t] EXCEPT !.tracker = SoftReset(@)] ELSE NewSession]

\* Sends to every track; an item remembers under which announcement it went out.
Sent(t, items, under) ==
    channel[t] \o [k \in DOMAIN items |-> [items[k] EXCEPT !.under = under]]

\* A slip: what is held goes out before the announcement.
EnterPeriod_FlushesFirst ==
    /\ loop.at = "periods" /\ ~AfterWindows /\ ~IsBeforeSeek(Window, loop.override)
    /\ loop' = [loop EXCEPT !.at = "preparing", !.last = Window.idx]
    /\ IF loop.last = Window.idx
       THEN UNCHANGED <<session, holding, channel, period>>
       ELSE /\ period' = Mpd.periods[Window.idx].id
            /\ ResetSession(Soft(LinkHere))
            /\ channel' = [t \in Tracks |-> Sent(t, holding[t], period)]
            /\ holding' = [t \in Tracks |-> <<>>]
    /\ UNCHANGED <<host, world, stream, emitted>>

\* emit_period_changed, on_period_change and the flush of what is held; then
\* the awaits on DRM.
EnterPeriod ==
    /\ loop.at = "periods" /\ ~AfterWindows /\ ~IsBeforeSeek(Window, loop.override)
    /\ loop' = [loop EXCEPT !.at = "preparing", !.last = Window.idx]
    /\ IF loop.last = Window.idx
       THEN UNCHANGED <<session, holding, channel, period>>
       ELSE /\ period' = Mpd.periods[Window.idx].id
            /\ ResetSession(Soft(LinkHere))
            /\ channel' = [t \in Tracks |-> Sent(t, holding[t], period')]
            /\ holding' = [t \in Tracks |-> <<>>]
    /\ UNCHANGED <<host, world, stream, emitted>>

PrepareFails ==
    /\ loop.at = "preparing" /\ CanFail
    /\ Goto("failed")
    /\ UNCHANGED <<host, world, Media>>

Segment(n) == [key |-> n, start |-> n - 1, dur |-> 1, sub |-> 0, url |-> NoUrl]

\* The segments of the i-th period of the tick's MPD, in its window; they get
\* available one after the other.
SegmentsOf(i, start) ==
    LET kept == {n \in 1 .. Mpd.periods[i].count :
                     IsKept(Mpd, Segment(n), start, loop.now, 0, TRUE)}
    IN  [n \in 1 .. Cardinality(kept) |-> Segment(n)]

\* period_target_time
Target ==
    IF loop.override # NoTime THEN SeekTargetIn(Window, loop.override)
    ELSE LiveTarget(Mpd, loop.now)

\* A slip: the index after the last one delivered.
StartIndex_OffByOne(segments, tracker) == AdvanceStartIndex(tracker, segments, 1, Window.start) + 1

\* The first segment that still plays after the target, past what is delivered.
StartIndex(segments, tracker) ==
    LET after  == {n \in DOMAIN segments : Window.start + SegEnd(segments[n]) > Target}
        wanted == IF Target = NoTime \/ after = {} THEN 1
                  ELSE CHOOSE n \in after : \A m \in after : n <= m
    IN  AdvanceStartIndex(tracker, segments, wanted, Window.start)

\* The segments of the current window's streams.
Segments == SegmentsOf(Window.idx, Window.start)

\* A slip: the events of a period come once its media is fetched anew.
StartStreams_EventsOnce ==
    /\ loop.at = "preparing"
    /\ Goto("join")
    /\ emitted' = IF emitted = {} THEN Mpd.periods[Window.idx].events ELSE emitted
    /\ stream' = [t \in Tracks |->
           [Idle EXCEPT !.at = IF session[t].haveInit THEN "head" ELSE "init",
                        !.gen = host.seekGen,
                        !.cursor = StartIndex(Segments, session[t].tracker)]]
    /\ session' = [t \in Tracks |-> [session[t] EXCEPT !.haveInit = TRUE]]
    /\ UNCHANGED <<host, world, holding, channel, period>>

\* MPD events, then one stream per track, up to its first await.
StartStreams ==
    /\ loop.at = "preparing"
    /\ Goto("join")
    /\ emitted' = emitted \cup Mpd.periods[Window.idx].events
    /\ stream' = [t \in Tracks |->
           [Idle EXCEPT !.at = IF session[t].haveInit THEN "head" ELSE "init",
                        !.gen = host.seekGen,
                        !.cursor = StartIndex(Segments, session[t].tracker)]]
    /\ session' = [t \in Tracks |-> [session[t] EXCEPT !.haveInit = TRUE]]
    /\ UNCHANGED <<host, world, holding, channel, period>>

Joined == \A t \in Tracks : stream[t].at \in {"returned", "raised"}

Raised == \E t \in Tracks : stream[t].at = "raised"

JoinFails ==
    /\ loop.at = "join" /\ Joined /\ Raised
    /\ Goto("failed")
    /\ UNCHANGED <<host, world, Media>>

\* A slip: a seek leaves the sessions as they are.
Join_KeepsSessions ==
    /\ loop.at = "join" /\ Joined /\ ~Raised
    /\ holding' = [t \in Tracks |-> IF stream[t].held = <<>> THEN holding[t] ELSE stream[t].held]
    /\ IF host.seekGen = loop.gen
       THEN /\ loop' = [loop EXCEPT !.at = "periods", !.pos = @ + 1]
            /\ UNCHANGED channel
       ELSE /\ loop' = [loop EXCEPT !.at = IF host.stopped THEN "done" ELSE "top"]
            /\ channel' = [t \in Tracks |-> <<>>]
    /\ UNCHANGED <<host, world, session, stream, emitted, period>>

\* What the streams prefetched is held; a seek meanwhile resets the sessions
\* and starts a new tick.
Join ==
    /\ loop.at = "join" /\ Joined /\ ~Raised
    /\ holding' = [t \in Tracks |-> IF stream[t].held = <<>> THEN holding[t] ELSE stream[t].held]
    /\ IF host.seekGen = loop.gen
       THEN /\ loop' = [loop EXCEPT !.at = "periods", !.pos = @ + 1]
            /\ UNCHANGED <<session, channel>>
       ELSE /\ loop' = [loop EXCEPT !.at = IF host.stopped THEN "done" ELSE "top"]
            /\ ResetSession(FALSE)
            /\ channel' = [t \in Tracks |-> <<>>]
    /\ UNCHANGED <<host, world, stream, emitted, period>>

\* A slip: a live presentation with an update period never ends.
ShouldEnd_OnlyStatic ==
    IF Mpd.updates THEN FALSE ELSE ~Mpd.dynamic \/ Mpd.duration # NoTime

\* should_end_after_tick; `updates` is a minimumUpdatePeriod that is not zero.
ShouldEnd ==
    IF Mpd.updates /\ Mpd.dynamic
    THEN Mpd.duration \notin {NoTime, 0} /\ loop.now >= Mpd.duration
    ELSE ~Mpd.dynamic \/ Mpd.duration # NoTime

\* The end of the tick: the end of the session, or a sleep until the next.
EndTick ==
    /\ loop.at = "periods" /\ AfterWindows
    /\ loop' = IF host.stopped \/ ShouldEnd THEN [loop EXCEPT !.at = "done"]
               ELSE [loop EXCEPT !.at = "sleeping", !.override = NoTime]
    /\ UNCHANGED <<host, world, Media>>

\* The gate of wait_while_paused and the sleep, of one unit of time at least.
Wake ==
    /\ loop.at = "sleeping"
    /\ \/ Goto("top")
       \/ (host.stopped \/ ~host.listening) /\ Goto("done")
    /\ world' = Later
    /\ UNCHANGED <<host, Media>>

RunLoop ==
    \/ BeginTick \/ Refreshed \/ RefreshFails \/ BeginPeriods \/ SkipPeriod \/ EnterPeriod
    \/ PrepareFails \/ StartStreams \/ JoinFails \/ Join \/ EndTick \/ Wake

-----------------------------------------------------------------------------
(* The track streams.                                                      *)

Step(t, s) ==
    /\ stream' = [stream EXCEPT ![t] = s]
    /\ UNCHANGED <<host, world, loop, session, holding, emitted, channel, period>>

Return(t) == Step(t, [stream[t] EXCEPT !.at = "returned", !.held = <<>>])

Interrupted(t) == host.stopped \/ host.seekGen # stream[t].gen

Item(i, number) == [period |-> Mpd.periods[i].id, number |-> number, under |-> NoId]

InitFetched(t) ==
    /\ stream[t].at = "init"
    /\ stream' = [stream EXCEPT ![t].at = "head"]
    /\ channel' = [channel EXCEPT ![t] = Sent(t, <<Item(Window.idx, 0)>>, period)]
    /\ UNCHANGED <<host, world, loop, session, holding, emitted, period>>

\* release_init, and the error of the session.
InitFails(t) ==
    /\ stream[t].at = "init" /\ CanFail
    /\ stream' = [stream EXCEPT ![t].at = "raised"]
    /\ session' = [session EXCEPT ![t].haveInit = FALSE]
    /\ UNCHANGED <<host, world, loop, holding, emitted, channel, period>>

\* next_window: of the tick, else the one that follows in the MPD.
Following ==
    IF loop.pos < Len(loop.windows) THEN loop.windows[loop.pos + 1].idx
    ELSE IF Window.idx < Len(Mpd.periods) THEN Window.idx + 1 ELSE 0

\* build_sync_prefetch_plans: a set of the next period carries this track on.
HasPlan(t) ==
    /\ Following # 0 /\ Window.end # NoTime
    /\ LET link == PeriodLink(Mpd, Window.idx, Following)
           here == Mpd.periods[Window.idx].sets[TrackSet[t]]
       IN  /\ Soft(link)
           /\ \E j \in DOMAIN Mpd.periods[Following].sets :
                  LET there == Mpd.periods[Following].sets[j]
                  IN  \/ Soft(SetLink(here, Mpd.periods[Window.idx].id, there))
                      \/ link = "continuous" /\ here.id # NoId /\ here.id = there.id

Tracker(t) == session[t].tracker

\* A slip: the next period is fetched however far its boundary is.
LoopHead_Eager(t) ==
    /\ stream[t].at = "head"
    /\ LET next == AdvanceStartIndex(Tracker(t), Segments, stream[t].cursor, Window.start)
       IN  IF next > Len(Segments)
           THEN Step(t, [stream[t] EXCEPT !.at = "returned"])
           ELSE IF Interrupted(t) THEN Return(t)
           ELSE Step(t, [stream[t] EXCEPT
                    !.cursor = next,
                    !.at = IF stream[t].held = <<>> /\ HasPlan(t) THEN "prefetch" ELSE "fetch"])

\* The loop's head: what is delivered is passed over, and the first segment
\* that is not may wait for the next period's.
LoopHead(t) ==
    /\ stream[t].at = "head"
    /\ LET next == AdvanceStartIndex(Tracker(t), Segments, stream[t].cursor, Window.start)
       IN  IF next > Len(Segments)
           THEN Step(t, [stream[t] EXCEPT !.at = "returned"])
           ELSE IF Interrupted(t) THEN Return(t)
           ELSE Step(t, [stream[t] EXCEPT
                    !.cursor = next,
                    !.at = IF /\ stream[t].held = <<>> /\ HasPlan(t)
                              /\ Tracker(t).lastAbsEnd >= Window.end - SyncDepth
                           THEN "prefetch" ELSE "fetch"])

\* prefetch_next_period_first_segment: the first of its segments that is not
\* delivered is marked and held; with none, the stream goes on.
Prefetched(t) ==
    /\ stream[t].at = "prefetch"
    /\ LET start    == WindowsOf(Mpd)[Following].start
           segments == SegmentsOf(Following, start)
           first    == AdvanceStartIndex(Tracker(t), segments, 1, start)
       IN  IF first > Len(segments)
           THEN stream' = [stream EXCEPT ![t].at = "fetch"] /\ UNCHANGED session
           ELSE /\ stream' = [stream EXCEPT ![t].at = "fetch",
                                            ![t].held = <<Item(Following, segments[first].key)>>]
                /\ session' = [session EXCEPT
                       ![t].tracker = MarkDelivered(@, segments[first], start)]
    /\ UNCHANGED <<host, world, loop, holding, emitted, channel, period>>

\* Past the awaits on capacity, the network and DRM.
Deliver(t) ==
    /\ stream[t].at = "fetch"
    /\ IF Interrupted(t) THEN Return(t)
       ELSE LET segment == Segments[stream[t].cursor]
            IN  /\ channel' = [channel EXCEPT ![t] =
                       Sent(t, <<Item(Window.idx, segment.key)>>, period)]
                /\ session' = [session EXCEPT ![t].tracker = MarkDelivered(@, segment, Window.start)]
                /\ stream' = [stream EXCEPT ![t].at = "head", ![t].cursor = @ + 1]
                /\ UNCHANGED <<host, world, loop, holding, emitted, period>>

FetchFails(t) ==
    /\ stream[t].at \in {"prefetch", "fetch"} /\ CanFail
    /\ Step(t, [stream[t] EXCEPT !.at = "raised"])

StreamStep ==
    \E t \in Tracks :
        \/ InitFetched(t) \/ InitFails(t) \/ LoopHead(t) \/ Prefetched(t) \/ Deliver(t)
        \/ FetchFails(t)

Next == Seek \/ Stop \/ DropReceivers \/ Tick \/ RunLoop \/ StreamStep

\* The task is polled, requests end; the host need not act.
Fairness == WF_vars(RunLoop) /\ WF_vars(StreamStep)

Spec == Init /\ [][Next]_vars

FairSpec == Spec /\ Fairness

-----------------------------------------------------------------------------
Places == {"off", "init", "head", "prefetch", "fetch", "returned", "raised"}

TypeOK ==
    /\ loop.at \in {"top", "refreshing", "ticking", "periods", "preparing", "join", "sleeping",
                    "done", "failed"}
    /\ loop.pos \in 1 .. Len(loop.windows) + 1
    /\ loop.last \in 0 .. Len(Mpd.periods)
    /\ loop.override \in SeekTimes \cup {NoTime}
    /\ \A t \in Tracks :
           /\ stream[t].at \in Places
           /\ loop.at = "join" => stream[t].cursor \in 1 .. Len(Segments) + 1
           /\ \A p \in {stream[t].held, holding[t]} : Len(p) <= 1

\* The items of a log that are media, and the order of two items.
IsMedia(item) == item.number > 0

Order(id) == CHOOSE i \in DOMAIN Mpd.periods : Mpd.periods[i].id = id

Precedes(a, b) ==
    \/ Order(a.period) < Order(b.period)
    \/ a.period = b.period /\ a.number < b.number

(* Media and Init segments reach a receiver between the announcement of    *)
(* their period and the next one, those that were prefetched included.     *)
InItsPeriod ==
    \A t \in Tracks : \A k \in DOMAIN channel[t] : channel[t][k].under = channel[t][k].period

(* Since the last seek no segment arrives twice and none out of order,     *)
(* over period changes, prefetches and refreshes of the manifest.          *)
NoReplay ==
    \A t \in Tracks : \A i, j \in DOMAIN channel[t] :
        i < j /\ IsMedia(channel[t][i]) /\ IsMedia(channel[t][j])
            => Precedes(channel[t][i], channel[t][j])

(* Behind a hard boundary the consumer has the Init before the media, over *)
(* a soft one it is not given again.                                       *)
InitPerHardBoundary ==
    \A t \in Tracks : \A k \in DOMAIN channel[t] :
        LET mine    == channel[t][k].period
            earlier == {i \in 1 .. k - 1 : channel[t][i].period = mine}
            before  == {i \in 1 .. k - 1 : channel[t][i].period # mine}
        IN  earlier = {} =>
               IF before = {} THEN ~IsMedia(channel[t][k]) \/ Dynamic
               ELSE IsMedia(channel[t][k])
                    <=> Soft(PeriodLink(Mpd, Order(channel[t][k - 1].period), Order(mine)))

(* While streams run, the MPD events of every period whose media has       *)
(* arrived have been sent.                                                 *)
EventsPrecedeMedia ==
    loop.at = "join" => \A t \in Tracks : \A k \in DOMAIN channel[t] :
        Mpd.periods[Order(channel[t][k].period)].events \subseteq emitted

(* What a receiver must know of a period it knows before its media: the    *)
(* announcement and the events.                                            *)
PeriodsAreAnnounced == TypeOK /\ InItsPeriod /\ EventsPrecedeMedia

(* A segment counts as delivered only if it was sent, or is held for the   *)
(* announcement of its period: what is prefetched gets lost nowhere        *)
(* between the stream, the run loop and the receiver.                      *)
MarkedIsSentOrHeld ==
    /\ ~host.stopped /\ host.seekGen = loop.gen /\ loop.at # "failed"
    /\ Dynamic => host.seekGen = 0
    => \A t \in Tracks : \A i \in DOMAIN Mpd.periods, n \in Tracker(t).keys :
            WindowsOf(Mpd)[i].start = Tracker(t).periodStart =>
                \E log \in {channel[t], holding[t], stream[t].held} : \E k \in DOMAIN log :
                    log[k].period = Mpd.periods[i].id /\ log[k].number = n

\* The first media after a seek to a published segment is that segment.
SeekLands ==
    loop.override # NoTime /\ loop.gen = host.seekGen /\ loop.at \in {"preparing", "join"} =>
        LET windows == WindowsOf(Mpd)
            i       == PeriodAt(windows, loop.override)
            number  == loop.override - windows[i].start + 1
        IN  /\ i # 0
            /\ number \in DOMAIN SegmentsOf(i, windows[i].start)
            => \A t \in Tracks : \A k \in DOMAIN channel[t] :
                   /\ IsMedia(channel[t][k])
                   /\ \A j \in 1 .. k - 1 : ~IsMedia(channel[t][j])
                   => channel[t][k].period = Mpd.periods[i].id /\ channel[t][k].number = number

(* Once the run loop has taken a seek on a static presentation, the first  *)
(* media that arrives is the segment at its target, in whatever period it  *)
(* lies.                                                                   *)
RestartsAtTarget == ~Dynamic => SeekLands

AllMedia ==
    UNION {{[period |-> Mpd.periods[i].id, number |-> n] :
               n \in 1 .. Mpd.periods[i].count} : i \in DOMAIN Mpd.periods}

\* The media between some that arrived that did not arrive.
Missing(t) ==
    {x \in AllMedia :
        /\ \E j, k \in DOMAIN channel[t] :
               /\ IsMedia(channel[t][j]) /\ Precedes(channel[t][j], x)
               /\ IsMedia(channel[t][k]) /\ Precedes(x, channel[t][k])
        /\ \A k \in DOMAIN channel[t] :
               channel[t][k].period # x.period \/ channel[t][k].number # x.number}

(* Nothing is lost over a hard boundary, a refresh or a seek, but what a   *)
(* live tick leaves behind (its period and its target move on with the     *)
(* clock); and before a soft boundary what starts less than the sync depth *)
(* ahead of it.                                                            *)
OnlyPrefetchSkips ==
    \A t \in Tracks : \A x \in Missing(t) :
        LET i   == Order(x.period)
            end == WindowsOf(Mpd)[i].start + x.number
        IN  \/ Dynamic /\ end <= loop.now
            \/ /\ i < Len(Mpd.periods) /\ Soft(PeriodLink(Mpd, i, i + 1))
               /\ end > WindowsOf(Mpd)[i].end - SyncDepth + 1

(* From the seek's target on, every segment once and in its order, behind  *)
(* its Init, and the tracker says no more than that.                       *)
EachSegmentOnce ==
    /\ RestartsAtTarget /\ NoReplay /\ InitPerHardBoundary
    /\ OnlyPrefetchSkips /\ MarkedIsSentOrHeld

Finite == ~Dynamic \/ Published[Len(Published)].duration # NoTime

(* A presentation that has an end ends, however often the host seeks:      *)
(* over every period, refresh and prefetch.                                *)
Ends == Finite => <>Over

-----------------------------------------------------------------------------
(* What the source says and the program does not do.                       *)

(* "Tracks media segments already emitted ... so live manifest refreshes   *)
(* cannot re-deliver or skip fragments" (delivered_segments.rs): nothing   *)
(* is skipped ahead of a soft boundary.                                    *)
PrefetchSkipsNothing == \A t \in Tracks : Missing(t) = {}

(* The same, of what is delivered again: without a seek every segment      *)
(* reaches the receiver once.                                              *)
LiveNoReplay == host.seekGen = 0 => NoReplay

(* "Seek ... the engine restarts segment delivery from target" (seek):     *)
(* also on a live presentation, whose run loop sleeps between two ticks.   *)
LiveSeekLands == SeekLands
=============================================================================
