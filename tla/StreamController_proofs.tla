------------------------ MODULE StreamController_proofs ------------------------
(***************************************************************************)
(* What a receiver is told of a Period before its media: for every number  *)
(* of tracks and Periods, every way the presentation grows, every link     *)
(* between its Periods, every seek and every bound. And for presentations  *)
(* that do not grow: every segment from the target on, once and in order.  *)
(***************************************************************************)
EXTENDS StreamController, FiniteSetTheorems, WellFoundedInduction, TLAPS

Mpds == UNION {{Presentations[k][v] : v \in DOMAIN Presentations[k]} :
                  k \in DOMAIN Presentations}

Names == {NoId} \cup UNION {{mpd.periods[i].id : i \in DOMAIN mpd.periods} : mpd \in Mpds}

Items == [period : Names, number : Nat, under : Names]

Windows == [idx : Nat, start : Nat, end : Nat \cup {NoTime}]

Trackers ==
    [ keys : SUBSET Nat, urls : {{}}, lastEnd : Nat, lastAbsEnd : Nat, periodStart : Nat ]

Hosts ==
    [ stopped : BOOLEAN, listening : BOOLEAN, seekTarget : SeekTimes \cup {NoTime}, seekGen : Nat ]

Worlds == [kind : DOMAIN Presentations, now : Nat]

Loops ==
    [ at : { "top", "refreshing", "ticking", "periods", "preparing", "join", "sleeping", "done",
             "failed" },
      snapshot : Nat, now : Nat \cup {NoTime}, windows : Seq(Windows), pos : Nat \ {0},
      last : Nat, override : SeekTimes \cup {NoTime}, gen : Nat ]

Sessions == [haveInit : BOOLEAN, tracker : Trackers]

Streams == [at : Places, gen : Nat, cursor : Nat \ {0}, held : Seq(Items)]

Typed ==
    /\ host \in Hosts /\ world \in Worlds /\ loop \in Loops
    /\ loop.snapshot \in DOMAIN Published
    /\ session \in [Tracks -> Sessions] /\ stream \in [Tracks -> Streams]
    /\ holding \in [Tracks -> Seq(Items)] /\ channel \in [Tracks -> Seq(Items)]

-----------------------------------------------------------------------------
(* The invariant of every presentation.                                    *)

\* The MPD is one that was published; the period that was announced is in it.
Snapshot ==
    /\ Mpd.published <= world.now
    /\ loop.last <= Len(Mpd.periods)
    /\ period = IF loop.last = 0 THEN NoId ELSE Mpd.periods[loop.last].id

\* The tick's windows are consecutive Periods of the MPD.
Consecutive(windows, all) ==
    \E f \in 0 .. Len(all) : \A k \in 1 .. Len(windows) : f + k \in 1 .. Len(all) /\ windows[k] = all[f + k]

InTick == loop.at \in {"periods", "preparing", "join"}

InPeriod == loop.at \in {"preparing", "join"}

TickInv ==
    /\ loop.pos <= Len(loop.windows) + 1
    /\ InTick => Consecutive(loop.windows, WindowsOf(Mpd))
    /\ InPeriod => /\ loop.pos <= Len(loop.windows) /\ loop.last = Window.idx
                   /\ ~IsBeforeSeek(Window, loop.override)

\* What is fetched ahead in a window is of the Period behind it, and no
\* Period that the seek passes over.
Ahead(log, w) ==
    log # <<>> =>
        /\ Len(log) = 1 /\ w.idx < Len(Mpd.periods)
        /\ log[1].period = Mpd.periods[w.idx + 1].id
        /\ w.end # NoTime /\ ~IsBeforeSeek(w, loop.override)

HoldingInv ==
    \A t \in Tracks :
        /\ Len(holding[t]) <= 1
        /\ InPeriod => holding[t] = <<>>
        /\ loop.at = "periods" /\ holding[t] # <<>> =>
               /\ loop.pos > 1 /\ loop.last = loop.windows[loop.pos - 1].idx
               /\ Ahead(holding[t], loop.windows[loop.pos - 1])

Resting == {"off", "returned", "raised"}

StreamInv(t) ==
    /\ Len(stream[t].held) <= 1
    /\ loop.at # "join" => stream[t].at \in Resting
    /\ loop.at = "join" =>
           /\ stream[t].cursor <= Len(Segments) + 1
           /\ stream[t].at \in {"prefetch", "fetch"} => stream[t].cursor <= Len(Segments)
           /\ stream[t].at = "prefetch" => HasPlan(t)
           /\ Ahead(stream[t].held, Window)

\* The events of a Period are out, but while it is prepared.
Told(i) ==
    \/ Mpd.periods[i].events \subseteq emitted
    \/ loop.at \in {"preparing", "failed"} /\ i = loop.last

ChannelInv ==
    /\ loop.at = "join" => Told(loop.last)
    /\ \A t \in Tracks : \A k \in DOMAIN channel[t] :
           /\ channel[t][k].under = channel[t][k].period
           /\ \E i \in DOMAIN Mpd.periods : channel[t][k].period = Mpd.periods[i].id /\ Told(i)

AnnouncedInv ==
    /\ Typed /\ Snapshot /\ TickInv /\ HoldingInv
    /\ \A t \in Tracks : StreamInv(t)
    /\ ChannelInv

-----------------------------------------------------------------------------
(* What the presentations are.                                             *)

(* The MPDs of the presentation that plays, and how they follow on.        *)
LEMMA PublishedIs ==
    ASSUME world.kind \in DOMAIN Presentations
    PROVE  /\ Published \in Seq({Published[i] : i \in DOMAIN Published}) /\ Published # <<>>
           /\ Published[1].published = 0
           /\ \A v \in DOMAIN Published : IsMpd(Published[v]) /\ Published[v] \in Mpds
           /\ \A v, w \in DOMAIN Published : v <= w => Extends(Published[w], Published[v])
           /\ ~Published[1].dynamic => Len(Published) = 1 /\ IsTiled(Published[1])
<1>1. IsPresentation(Published)
  BY ControllerAssumption DEF Published
<1>2. \A v \in DOMAIN Published : Published[v] \in Mpds
  BY DEF Mpds, Published
<1> QED BY <1>1, <1>2 DEF IsPresentation, IsList

(* An MPD's Periods.                                                       *)
LEMMA MpdIs ==
    ASSUME NEW mpd, IsMpd(mpd)
    PROVE  /\ Len(mpd.periods) \in Nat \ {0} /\ DOMAIN mpd.periods = 1 .. Len(mpd.periods)
           /\ mpd.published \in Nat /\ mpd.dynamic \in BOOLEAN
           /\ \A i, j \in 1 .. Len(mpd.periods) :
                  mpd.periods[i].id = mpd.periods[j].id => i = j
           /\ \A i \in 1 .. Len(mpd.periods) : mpd.periods[i].count \in Nat
<1>1. mpd.periods \in Seq({mpd.periods[i] : i \in DOMAIN mpd.periods}) /\ mpd.periods # <<>>
  BY DEF IsMpd, IsList
<1>2. DOMAIN mpd.periods = 1 .. Len(mpd.periods) /\ Len(mpd.periods) \in Nat \ {0}
  BY <1>1
<1>3. DOMAIN WindowsOf(mpd) = DOMAIN mpd.periods
  BY DEF WindowsOf
<1>4. /\ mpd.published \in Nat /\ mpd.dynamic \in BOOLEAN
      /\ \A i, j \in DOMAIN WindowsOf(mpd) : mpd.periods[i].id = mpd.periods[j].id => i = j
      /\ \A i \in DOMAIN WindowsOf(mpd) : mpd.periods[i].count \in Nat
  BY DEF IsMpd
<1> QED BY <1>2, <1>3, <1>4

(* Its windows.                                                            *)
LEMMA WindowsAre ==
    ASSUME NEW mpd, IsMpd(mpd)
    PROVE  /\ WindowsOf(mpd) \in Seq(Windows) /\ Len(WindowsOf(mpd)) = Len(mpd.periods)
           /\ DOMAIN WindowsOf(mpd) = 1 .. Len(mpd.periods)
           /\ \A i \in 1 .. Len(mpd.periods) :
                  WindowsOf(mpd)[i] \in Windows /\ WindowsOf(mpd)[i].idx = i
           /\ \A i, j \in 1 .. Len(mpd.periods) :
                  /\ i < j /\ WindowsOf(mpd)[j].end # NoTime
                  => /\ WindowsOf(mpd)[i].end # NoTime
                     /\ WindowsOf(mpd)[i].end <= WindowsOf(mpd)[j].end
<1> DEFINE W == WindowsOf(mpd)
<1>1. DOMAIN W = 1 .. Len(mpd.periods) /\ Len(mpd.periods) \in Nat
  BY MpdIs DEF WindowsOf
<1>2. W = [i \in DOMAIN W |-> W[i]]
  BY DEF WindowsOf
<1>3. \A i \in DOMAIN W : W[i] = [idx |-> i, start |-> W[i].start, end |-> W[i].end]
  BY DEF WindowsOf
<1>4. /\ \A i \in DOMAIN W : W[i].start \in Nat /\ W[i].end \in Nat \cup {NoTime}
      /\ \A i, j \in DOMAIN W : i < j /\ W[j].end # NoTime
             => W[i].end # NoTime /\ W[i].end <= W[j].end
  BY DEF IsMpd
<1> HIDE DEF W
<1>5. \A i \in DOMAIN W : W[i] \in Windows /\ W[i].idx = i
  <2> SUFFICES ASSUME NEW i \in DOMAIN W PROVE W[i] \in Windows /\ W[i].idx = i
    OBVIOUS
  <2>1. PICK a \in Nat, b \in Nat \cup {NoTime} : a = W[i].start /\ b = W[i].end
    BY <1>4
  <2>2. W[i] = [idx |-> i, start |-> a, end |-> b] /\ i \in Nat
    BY <1>1, <1>3, <2>1
  <2> QED BY <2>1, <2>2 DEF Windows
<1>6. W \in Seq(Windows) /\ Len(W) = Len(mpd.periods)
  BY <1>1, <1>2, <1>5
<1> QED BY <1>1, <1>4, <1>5, <1>6 DEF W

(* The MPD of the tick.                                                    *)
LEMMA TheMpd ==
    ASSUME Typed
    PROVE  /\ world.kind \in DOMAIN Presentations
           /\ DOMAIN Published = 1 .. Len(Published) /\ Len(Published) \in Nat \ {0}
           /\ loop.snapshot \in DOMAIN Published
           /\ IsMpd(Mpd) /\ Mpd \in Mpds
           /\ \A i \in DOMAIN Mpd.periods : Mpd.periods[i].id \in Names
<1>1. world.kind \in DOMAIN Presentations /\ loop.snapshot \in DOMAIN Published
  BY DEF Typed, Worlds
<1>2. IsMpd(Mpd) /\ Mpd \in Mpds
  BY <1>1, PublishedIs DEF Mpd
<1>3. DOMAIN Published = 1 .. Len(Published) /\ Len(Published) \in Nat \ {0}
  BY <1>1, PublishedIs
<1>4. \A i \in DOMAIN Mpd.periods : Mpd.periods[i].id \in Names
  BY <1>2 DEF Names
<1> QED BY <1>1, <1>2, <1>3, <1>4

(* A non-empty set of naturals has a least element; with a bound, also a   *)
(* greatest one.                                                           *)
LEMMA LeastExists ==
    ASSUME NEW T \in SUBSET Nat, T # {}
    PROVE  \E x \in T : \A y \in T : x <= y
<1> DEFINE R == {ss \in Nat \X Nat : ss[1] < ss[2]}
<1>1. IsWellFoundedOn(R, Nat)
  <2> HIDE DEF R
  <2>1. R = OpToRel(<, Nat)
    BY Zenon DEF OpToRel, R
  <2> QED BY <2>1, NatLessThanWellFounded, Zenon
<1> HIDE DEF R
<1>2. PICK x \in T : \A y \in T : ~ (<<y, x>> \in R)
  BY <1>1, WFMin
<1>3. \A y \in T : ~(y < x)
  BY <1>2 DEF R
<1> QED BY <1>3

LEMMA GreatestExists ==
    ASSUME NEW n \in Nat, NEW T \in SUBSET (0 .. n), T # {}
    PROVE  \E x \in T : \A y \in T : y <= x
<1> DEFINE U == {n - x : x \in T}
<1>1. U \in SUBSET Nat /\ U # {}
  <2>1. \A x \in T : n - x \in Nat
    OBVIOUS
  <2> QED BY <2>1
<1>2. PICK u \in U : \A y \in U : u <= y
  BY <1>1, LeastExists
<1>3. PICK x \in T : u = n - x
  OBVIOUS
<1>4. \A y \in T : n - y \in U
  OBVIOUS
<1>5. \A y \in T : n - x <= n - y
  BY <1>2, <1>3, <1>4
<1>6. \A y \in T : y <= x
  BY <1>5
<1> QED BY <1>6

(* What a refresh returns.                                                 *)
LEMMA OriginIs ==
    ASSUME Typed, Snapshot
    PROVE  /\ AtOrigin \in DOMAIN Published /\ loop.snapshot <= AtOrigin
           /\ Published[AtOrigin].published <= world.now
<1> DEFINE T == {n \in DOMAIN Published : Published[n].published <= world.now}
<1>1. T \in SUBSET (0 .. Len(Published)) /\ Len(Published) \in Nat /\ loop.snapshot \in T
  BY TheMpd DEF Snapshot, Mpd
<1>2. \E x \in T : \A y \in T : y <= x
  BY <1>1, GreatestExists
<1>3. \E n \in DOMAIN Published :
          /\ Published[n].published <= world.now
          /\ \A m \in DOMAIN Published : Published[m].published <= world.now => m <= n
  BY <1>2
<1>4. /\ AtOrigin \in DOMAIN Published /\ Published[AtOrigin].published <= world.now
      /\ \A m \in DOMAIN Published : Published[m].published <= world.now => m <= AtOrigin
  BY <1>3 DEF AtOrigin
<1> QED BY <1>1, <1>4

(* The period that holds a time.                                           *)
LEMMA CurrentIs ==
    ASSUME NEW windows \in Seq(Windows), windows # <<>>, NEW t
    PROVE  /\ FirstHolding(windows, t) \in 0 .. Len(windows)
           /\ FirstHolding(windows, t) # 0 => Holds(windows[FirstHolding(windows, t)], t)
           /\ \A i \in DOMAIN windows : Holds(windows[i], t) =>
                  FirstHolding(windows, t) # 0 /\ FirstHolding(windows, t) <= i
           /\ CurrentPeriod(windows, t) \in 1 .. Len(windows)
<1> DEFINE at == {i \in DOMAIN windows : Holds(windows[i], t)}
<1>1. at \in SUBSET (1 .. Len(windows)) /\ at \in SUBSET Nat /\ Len(windows) \in Nat \ {0}
  OBVIOUS
<1>2. CASE at = {}
  <2>1. FirstHolding(windows, t) = 0
    BY <1>2 DEF FirstHolding
  <2> QED BY <1>1, <1>2, <2>1 DEF CurrentPeriod
<1>3. CASE at # {}
  <2>1. \E i \in at : \A j \in at : i <= j
    BY <1>1, <1>3, LeastExists
  <2>2. FirstHolding(windows, t) = CHOOSE i \in at : \A j \in at : i <= j
    BY <1>3 DEF FirstHolding
  <2> HIDE DEF at
  <2>3. FirstHolding(windows, t) \in at /\ \A j \in at : FirstHolding(windows, t) <= j
    BY <2>1, <2>2
  <2> QED BY <1>1, <2>3 DEF CurrentPeriod, at
<1> QED BY <1>2, <1>3

(* What a tick plays.                                                      *)
LEMMA PlayedIs ==
    ASSUME NEW mpd, IsMpd(mpd), NEW now, NEW depth, NEW seek
    PROVE  /\ PeriodsToPlay(mpd, now, depth, seek) \in Seq(Windows)
           /\ Consecutive(PeriodsToPlay(mpd, now, depth, seek), WindowsOf(mpd))
<1> DEFINE W == WindowsOf(mpd)
           current == CurrentPeriod(W, now)
           first == IF seek = NoTime \/ PeriodAt(W, seek) = 0 THEN current ELSE PeriodAt(W, seek)
           from == IF first <= current THEN first ELSE current
           to == IF NearNext(mpd, W, current, now, depth) THEN current + 1 ELSE current
<1>1. W \in Seq(Windows) /\ Len(W) \in Nat \ {0} /\ W # <<>>
  BY WindowsAre, MpdIs
<1>2. current \in 1 .. Len(W) /\ PeriodAt(W, seek) \in 0 .. Len(W)
  BY <1>1, CurrentIs DEF PeriodAt
<1>3. from \in 1 .. Len(W) /\ to \in 1 .. Len(W) /\ from <= to
  <2> HIDE DEF W
  <2>1. NearNext(mpd, W, current, now, depth) => current < Len(W)
    BY DEF NearNext
  <2> HIDE DEF current
  <2> QED BY <1>1, <1>2, <2>1
<1>4. LivePeriods(mpd, now, depth, seek) = SubSeq(W, from, to)
  BY DEF LivePeriods
<1> HIDE DEF W, from, to
<1>5. SubSeq(W, from, to) \in Seq(Windows) /\ Consecutive(SubSeq(W, from, to), W)
  <2>1. /\ SubSeq(W, from, to) \in Seq(Windows) /\ Len(SubSeq(W, from, to)) = to - from + 1
        /\ \A k \in 1 .. to - from + 1 : SubSeq(W, from, to)[k] = W[from - 1 + k]
    BY <1>1, <1>3
  <2>2. from - 1 \in 0 .. Len(W)
    BY <1>1, <1>3
  <2>3. \A k \in 1 .. Len(SubSeq(W, from, to)) :
            from - 1 + k \in 1 .. Len(W) /\ SubSeq(W, from, to)[k] = W[from - 1 + k]
    BY <1>1, <1>3, <2>1
  <2> HIDE DEF from, to
  <2> QED BY <2>1, <2>2, <2>3 DEF Consecutive
<1>6. W \in Seq(Windows) /\ Consecutive(W, W)
  <2>1. \A k \in 1 .. Len(W) : 0 + k \in 1 .. Len(W) /\ W[k] = W[0 + k]
    BY <1>1
  <2>2. 0 \in 0 .. Len(W)
    BY <1>1
  <2> QED BY <1>1, <2>1, <2>2 DEF Consecutive
<1> QED BY <1>4, <1>5, <1>6 DEF PeriodsToPlay, W

-----------------------------------------------------------------------------
(* Segments and plans.                                                     *)

(* The segments of a Period: those that are available.                     *)
LEMMA SegmentsAre ==
    ASSUME Typed, NEW i \in DOMAIN Mpd.periods, NEW start
    PROVE  /\ Len(SegmentsOf(i, start)) \in 0 .. Mpd.periods[i].count
           /\ DOMAIN SegmentsOf(i, start) = 1 .. Len(SegmentsOf(i, start))
           /\ \A n \in 1 .. Len(SegmentsOf(i, start)) : SegmentsOf(i, start)[n] = Segment(n)
<1> DEFINE count == Mpd.periods[i].count
           kept == {n \in 1 .. count : IsKept(Mpd, Segment(n), start, loop.now, 0, TRUE)}
<1>1. count \in Nat
  BY TheMpd, MpdIs
<1> HIDE DEF count
<1>2. IsFiniteSet(1 .. count) /\ Cardinality(1 .. count) = count
  BY <1>1, FS_Interval
<1>3. Cardinality(kept) \in Nat /\ Cardinality(kept) <= count
  BY <1>2, FS_Subset, FS_CardinalityType
<1>4. SegmentsOf(i, start) = [n \in 1 .. Cardinality(kept) |-> Segment(n)]
  BY DEF SegmentsOf, count
<1> HIDE DEF kept
<1>5. /\ Len(SegmentsOf(i, start)) \in 0 .. count
      /\ DOMAIN SegmentsOf(i, start) = 1 .. Len(SegmentsOf(i, start))
      /\ \A n \in 1 .. Len(SegmentsOf(i, start)) : SegmentsOf(i, start)[n] = Segment(n)
  BY <1>1, <1>3, <1>4
<1> QED BY <1>5 DEF count

(* From where on a track goes.                                             *)
LEMMA AdvanceIs ==
    ASSUME NEW tracker, NEW segments, NEW i \in Nat \ {0}, NEW start, Len(segments) \in Nat
    PROVE  LET n == AdvanceStartIndex(tracker, segments, i, start)
           IN  /\ n \in 1 .. Len(segments) + 1
               /\ n <= Len(segments) => n >= i /\ ~IsDelivered(tracker, segments[n], start)
               /\ \A j \in i .. Len(segments) :
                      j < n => IsDelivered(tracker, segments[j], start)
<1> DEFINE fresh == {j \in i .. Len(segments) : ~IsDelivered(tracker, segments[j], start)}
           n == AdvanceStartIndex(tracker, segments, i, start)
<1>1. fresh \in SUBSET Nat
  OBVIOUS
<1>2. CASE fresh = {}
  <2>1. n = Len(segments) + 1
    BY <1>2 DEF AdvanceStartIndex
  <2> HIDE DEF n
  <2> QED BY <1>2, <2>1 DEF n
<1>3. CASE fresh # {}
  <2>1. n = CHOOSE j \in fresh : \A k \in fresh : j <= k
    BY <1>3 DEF AdvanceStartIndex
  <2>2. \E j \in fresh : \A k \in fresh : j <= k
    BY <1>1, <1>3, LeastExists
  <2> HIDE DEF n, fresh
  <2>3. n \in fresh /\ \A k \in fresh : n <= k
    BY <2>1, <2>2
  <2> QED BY <2>3 DEF n, fresh
<1> QED BY <1>2, <1>3

\* The first segment that still plays after the target.
Wanted(segments) ==
    LET after == {n \in DOMAIN segments : Window.start + SegEnd(segments[n]) > Target}
    IN  IF Target = NoTime \/ after = {} THEN 1
        ELSE CHOOSE n \in after : \A m \in after : n <= m

LEMMA WantedIs ==
    ASSUME NEW segments, Len(segments) \in Nat, DOMAIN segments = 1 .. Len(segments)
    PROVE  LET w == Wanted(segments)
           IN  /\ w \in 1 .. Len(segments) + 1
               /\ Target = NoTime => w = 1
               /\ Target # NoTime =>
                      \/ /\ w \in 1 .. Len(segments)
                         /\ Window.start + SegEnd(segments[w]) > Target
                         /\ \A m \in 1 .. Len(segments) :
                                Window.start + SegEnd(segments[m]) > Target => w <= m
                      \/ /\ w = 1
                         /\ \A m \in 1 .. Len(segments) :
                                ~(Window.start + SegEnd(segments[m]) > Target)
<1> DEFINE after == {n \in DOMAIN segments : Window.start + SegEnd(segments[n]) > Target}
           w == Wanted(segments)
<1>1. after \in SUBSET Nat
  OBVIOUS
<1>2. CASE Target = NoTime \/ after = {}
  <2>1. w = 1
    BY <1>2 DEF Wanted
  <2> HIDE DEF w
  <2> QED BY <1>2, <2>1 DEF w
<1>3. CASE ~(Target = NoTime \/ after = {})
  <2>1. w = CHOOSE n \in after : \A m \in after : n <= m
    BY <1>3 DEF Wanted
  <2>2. \E n \in after : \A m \in after : n <= m
    BY <1>1, <1>3, LeastExists
  <2> HIDE DEF w, after
  <2>3. w \in after /\ \A m \in after : w <= m
    BY <2>1, <2>2
  <2> QED BY <1>3, <2>3 DEF w, after
<1> QED BY <1>2, <1>3

LEMMA StartIndexIs ==
    ASSUME NEW segments, NEW tracker
    PROVE  StartIndex(segments, tracker)
               = AdvanceStartIndex(tracker, segments, Wanted(segments), Window.start)
BY DEF StartIndex, Wanted

LEMMA TypedFields ==
    ASSUME Typed
    PROVE  /\ loop \in Loops /\ loop.snapshot \in Nat /\ loop.now \in Nat \cup {NoTime}
           /\ loop.windows \in Seq(Windows) /\ Len(loop.windows) \in Nat
           /\ loop.pos \in Nat \ {0} /\ loop.last \in Nat /\ loop.gen \in Nat
           /\ loop.override \in SeekTimes \cup {NoTime}
           /\ host \in Hosts /\ host.seekTarget \in SeekTimes \cup {NoTime}
           /\ host.seekGen \in Nat /\ host.stopped \in BOOLEAN
           /\ world \in Worlds /\ world.now \in Nat
<1>1. loop \in Loops /\ host \in Hosts /\ world \in Worlds
  BY DEF Typed
<1>2. /\ loop.snapshot \in Nat /\ loop.now \in Nat \cup {NoTime} /\ loop.windows \in Seq(Windows)
      /\ loop.pos \in Nat \ {0} /\ loop.last \in Nat /\ loop.gen \in Nat
      /\ loop.override \in SeekTimes \cup {NoTime}
  BY <1>1 DEF Loops
<1>3. /\ host.seekTarget \in SeekTimes \cup {NoTime}
      /\ host.seekGen \in Nat /\ host.stopped \in BOOLEAN /\ world.now \in Nat
  BY <1>1 DEF Hosts, Worlds
<1>4. Len(loop.windows) \in Nat
  BY <1>2
<1> QED BY <1>1, <1>2, <1>3, <1>4

(* A tick's window is one of the MPD's, the next one the one behind it.    *)
LEMMA WindowIs ==
    ASSUME Typed, TickInv, InTick, loop.pos <= Len(loop.windows)
    PROVE  /\ Window.idx \in 1 .. Len(Mpd.periods) /\ Window = WindowsOf(Mpd)[Window.idx]
           /\ Window \in Windows
           /\ DOMAIN Mpd.periods = 1 .. Len(Mpd.periods) /\ Len(Mpd.periods) \in Nat
           /\ Following = IF Window.idx < Len(Mpd.periods) THEN Window.idx + 1 ELSE 0
           /\ loop.pos > 1 =>
                  /\ loop.windows[loop.pos - 1].idx = Window.idx - 1
                  /\ loop.windows[loop.pos - 1] = WindowsOf(Mpd)[Window.idx - 1]
                  /\ Window.idx - 1 \in 1 .. Len(Mpd.periods)
<1> DEFINE W == WindowsOf(Mpd)
<1>1. /\ Len(W) = Len(Mpd.periods) /\ Len(W) \in Nat
      /\ \A i \in 1 .. Len(W) : W[i] \in Windows /\ W[i].idx = i
      /\ DOMAIN Mpd.periods = 1 .. Len(Mpd.periods)
  BY TheMpd, WindowsAre, MpdIs
<1>2. loop.pos \in 1 .. Len(loop.windows) /\ Len(loop.windows) \in Nat
  BY TypedFields
<1> HIDE DEF W
<1>3. PICK f \in 0 .. Len(W) :
          \A k \in 1 .. Len(loop.windows) : f + k \in 1 .. Len(W) /\ loop.windows[k] = W[f + k]
  BY DEF TickInv, Consecutive, W
<1>4. Window = W[f + loop.pos] /\ Window.idx = f + loop.pos /\ f + loop.pos \in 1 .. Len(W)
  BY <1>1, <1>2, <1>3 DEF Window
<1>5. ASSUME loop.pos < Len(loop.windows)
      PROVE  loop.windows[loop.pos + 1].idx = f + loop.pos + 1 /\ f + loop.pos + 1 \in 1 .. Len(W)
  <2>1. loop.pos + 1 \in 1 .. Len(loop.windows) /\ f + (loop.pos + 1) = f + loop.pos + 1
    BY <1>2, <1>5
  <2> QED BY <1>1, <1>3, <2>1
<1>6. ASSUME loop.pos > 1
      PROVE  /\ loop.windows[loop.pos - 1].idx = f + loop.pos - 1
             /\ loop.windows[loop.pos - 1] = W[f + loop.pos - 1]
             /\ f + loop.pos - 1 \in 1 .. Len(W)
  <2>1. loop.pos - 1 \in 1 .. Len(loop.windows) /\ f + (loop.pos - 1) = f + loop.pos - 1
    BY <1>2, <1>6
  <2> QED BY <1>1, <1>3, <2>1
<1>7. Following = IF Window.idx < Len(Mpd.periods) THEN Window.idx + 1 ELSE 0
  BY <1>1, <1>2, <1>4, <1>5 DEF Following
<1> QED BY <1>1, <1>2, <1>4, <1>6, <1>7 DEF W

-----------------------------------------------------------------------------
(* Steps of the host, of the world and of the run loop.                    *)

(* A step that moves no media, and is left by no stream that runs.         *)
LEMMA RestKeepsInv ==
    ASSUME AnnouncedInv, Typed', UNCHANGED Media,
           world'.kind = world.kind, world.now <= world'.now,
           UNCHANGED <<loop.snapshot, loop.windows, loop.pos, loop.last, loop.now>>,
           \/ loop' = loop
           \/ /\ loop'.at \notin {"periods", "preparing", "join"}
              /\ \A t \in Tracks : stream[t].at \in Resting
              /\ loop.at # "failed" /\ (loop.at = "preparing" => loop'.at = "failed")
    PROVE  AnnouncedInv'
<1>1. Mpd' = Mpd /\ Published' = Published
  BY DEF Mpd, Published
<1>2. Mpd.published \in Nat /\ world.now \in Nat /\ world'.now \in Nat
  <2>1. Mpd.published \in Nat
    BY TheMpd, MpdIs DEF AnnouncedInv
  <2> QED BY <2>1 DEF AnnouncedInv, Typed, Worlds
<1>3. Snapshot'
  BY <1>1, <1>2 DEF AnnouncedInv, Snapshot, Media
<1>4. CASE loop' = loop
  <2>1. TickInv' /\ HoldingInv'
    BY <1>1, <1>4 DEF AnnouncedInv, TickInv, HoldingInv, Media, InTick, InPeriod, Window, Ahead
  <2>2. \A t : HasPlan(t)' = HasPlan(t)
    BY <1>1, <1>4 DEF HasPlan, Following, Window
  <2>3. Segments' = Segments
    BY <1>1, <1>4 DEF Segments, SegmentsOf, Window
  <2>4. \A t \in Tracks : StreamInv(t)'
    BY <1>1, <1>4, <2>2, <2>3 DEF AnnouncedInv, StreamInv, Media, Window, Ahead
  <2>5. ChannelInv'
    BY <1>1, <1>4 DEF AnnouncedInv, ChannelInv, Told, Media
  <2> QED BY <1>3, <2>1, <2>4, <2>5 DEF AnnouncedInv
<1>5. CASE loop' # loop
  <2>1. TickInv' /\ HoldingInv'
    BY <1>1, <1>5 DEF AnnouncedInv, TickInv, HoldingInv, Media, InTick, InPeriod
  <2>2. \A t \in Tracks : StreamInv(t)'
    BY <1>5 DEF AnnouncedInv, StreamInv, Media
  <2>3. \A i : Told(i) => Told(i)'
    BY <1>1, <1>5 DEF Told, Media
  <2>4. ChannelInv'
    BY <1>1, <1>5, <2>3 DEF AnnouncedInv, ChannelInv, Media
  <2> QED BY <1>3, <2>1, <2>2, <2>4 DEF AnnouncedInv
<1> QED BY <1>4, <1>5

(* A step on a record of a set of records.                                 *)
LEMMA HostIs ==
    ASSUME NEW h \in Hosts
    PROVE  /\ h.seekTarget \in SeekTimes \cup {NoTime} /\ h.seekGen \in Nat
           /\ \A t \in SeekTimes : [h EXCEPT !.seekTarget = t, !.seekGen = @ + 1] \in Hosts
           /\ [h EXCEPT !.stopped = TRUE] \in Hosts /\ [h EXCEPT !.listening = FALSE] \in Hosts
           /\ [h EXCEPT !.seekTarget = NoTime] \in Hosts
           /\ [h EXCEPT !.seekTarget = NoTime].seekGen = h.seekGen
<1>1. h.seekTarget \in SeekTimes \cup {NoTime} /\ h.seekGen \in Nat
  BY DEF Hosts
<1>2. \A t \in SeekTimes : [h EXCEPT !.seekTarget = t, !.seekGen = @ + 1] \in Hosts
  <2> SUFFICES ASSUME NEW t \in SeekTimes
               PROVE  [h EXCEPT !.seekTarget = t, !.seekGen = @ + 1] \in Hosts
    OBVIOUS
  <2>1. PICK n \in Nat : n = h.seekGen + 1
    BY <1>1
  <2>2. [h EXCEPT !.seekTarget = t, !.seekGen = n] \in Hosts
    BY DEF Hosts
  <2> QED BY <2>1, <2>2
<1>3. /\ [h EXCEPT !.stopped = TRUE] \in Hosts /\ [h EXCEPT !.listening = FALSE] \in Hosts
      /\ [h EXCEPT !.seekTarget = NoTime] \in Hosts
      /\ [h EXCEPT !.seekTarget = NoTime].seekGen = h.seekGen
  BY DEF Hosts
<1> QED BY <1>1, <1>2, <1>3

LEMMA CommandKeepsInv ==
    ASSUME AnnouncedInv, Seek \/ Stop \/ DropReceivers
    PROVE  AnnouncedInv'
<1>1. Typed /\ UNCHANGED <<world, loop, Media>>
  BY DEF AnnouncedInv, Seek, Stop, DropReceivers, Command
<1>2. host \in Hosts
  BY <1>1 DEF Typed
<1>3. host' \in Hosts
  <2>1. CASE Seek
    BY <1>2, <2>1, HostIs DEF Seek, Command
  <2>2. CASE Stop \/ DropReceivers
    BY <1>2, <2>2, HostIs DEF Stop, DropReceivers, Command
  <2> QED BY <2>1, <2>2
<1>4. Typed'
  BY <1>1, <1>3 DEF Typed, Media, Published
<1>5. world.now <= world'.now
  BY <1>1 DEF Typed, Worlds
<1> QED BY <1>1, <1>4, <1>5, RestKeepsInv

LEMMA LaterIs ==
    ASSUME Typed
    PROVE  Later \in Worlds /\ Later.kind = world.kind /\ world.now <= Later.now
<1>1. world \in Worlds /\ world.now \in Nat
  BY DEF Typed, Worlds
<1>2. PICK n \in Nat : n = (IF Dynamic /\ world.now < MaxNow THEN world.now + 1 ELSE world.now)
  BY <1>1
<1>3. Later = [world EXCEPT !.now = n] /\ world.now <= n
  BY <1>1, <1>2 DEF Later
<1> QED BY <1>1, <1>3 DEF Worlds

LEMMA TickKeepsInv ==
    ASSUME AnnouncedInv, Tick
    PROVE  AnnouncedInv'
<1>1. Typed /\ UNCHANGED <<host, loop, Media>> /\ world' = Later
  BY DEF AnnouncedInv, Tick
<1>2. Typed'
  BY <1>1, LaterIs DEF Typed, Media, Published
<1> QED BY <1>1, <1>2, LaterIs, RestKeepsInv

(* The steps that only move the run loop on.                               *)
LEMMA LoopMoveKeepsInv ==
    ASSUME AnnouncedInv,
           BeginTick \/ RefreshFails \/ PrepareFails \/ JoinFails \/ EndTick \/ Wake
    PROVE  AnnouncedInv'
<1>1. Typed /\ UNCHANGED <<host, Media>> /\ loop \in Loops
  BY DEF AnnouncedInv, BeginTick, RefreshFails, PrepareFails, JoinFails, EndTick, Wake, Typed
<1>2. world' \in Worlds /\ world'.kind = world.kind /\ world.now <= world'.now
  BY <1>1, LaterIs
  DEF Typed, Worlds, BeginTick, RefreshFails, PrepareFails, JoinFails, EndTick, Wake
<1>3. PICK at \in {"top", "refreshing", "sleeping", "done", "failed"} :
          /\ \/ loop' = [loop EXCEPT !.at = at]
             \/ loop' = [loop EXCEPT !.at = at, !.override = NoTime]
          /\ loop.at # "failed" /\ (loop.at = "preparing" => at = "failed")
          /\ loop.at = "join" => Joined
  BY DEF BeginTick, RefreshFails, PrepareFails, JoinFails, EndTick, Wake, Goto
<1>8. at \in { "top", "refreshing", "ticking", "periods", "preparing", "join", "sleeping",
               "done", "failed" }
  OBVIOUS
<1>9. /\ loop' \in Loops /\ loop'.at = at
      /\ loop'.snapshot = loop.snapshot /\ loop'.windows = loop.windows /\ loop'.pos = loop.pos
      /\ loop'.last = loop.last /\ loop'.now = loop.now
  <2>1. loop \in Loops
    BY <1>1
  <2>2. loop' = [loop EXCEPT !.at = at] \/ loop' = [loop EXCEPT !.at = at, !.override = NoTime]
    BY <1>3
  <2> QED BY <1>8, <2>1, <2>2 DEF Loops
<1>4. /\ loop' \in Loops /\ loop'.at = at
      /\ UNCHANGED <<loop.snapshot, loop.windows, loop.pos, loop.last, loop.now>>
  BY <1>9
<1>5. Typed'
  BY <1>1, <1>2, <1>4, <1>9 DEF Typed, Media, Published
<1>6. \A t \in Tracks : stream[t].at \in Resting
  BY <1>3 DEF AnnouncedInv, StreamInv, Joined, Resting
<1> QED BY <1>1, <1>2, <1>3, <1>4, <1>5, <1>6, <1>9, RestKeepsInv

LEMMA RefreshedKeepsInv ==
    ASSUME AnnouncedInv, Refreshed
    PROVE  AnnouncedInv'
<1>1. Typed /\ Snapshot /\ loop.at = "refreshing"
      /\ loop' = [loop EXCEPT !.at = "ticking", !.snapshot = AtOrigin]
      /\ UNCHANGED <<host, world, Media>>
  BY DEF AnnouncedInv, Refreshed
<1>2. /\ AtOrigin \in DOMAIN Published /\ loop.snapshot <= AtOrigin
      /\ Published[AtOrigin].published <= world.now /\ AtOrigin \in Nat
  BY <1>1, OriginIs, TheMpd
<1>3. /\ loop' \in Loops /\ loop'.at = "ticking" /\ loop'.snapshot = AtOrigin
      /\ loop'.pos = loop.pos /\ loop'.windows = loop.windows /\ loop'.last = loop.last
  BY <1>1, <1>2, TypedFields DEF Loops
<1>4. Published' = Published /\ Mpd' = Published[AtOrigin]
  BY <1>1, <1>3 DEF Published, Mpd
<1>5. Typed'
  BY <1>1, <1>2, <1>3, <1>4 DEF Typed, Media
<1>6. IsMpd(Mpd) /\ IsMpd(Mpd') /\ Extends(Mpd', Mpd)
  BY <1>1, <1>2, <1>4, TheMpd, PublishedIs DEF Mpd
<1>7. /\ Len(Mpd.periods) <= Len(Mpd'.periods)
      /\ Len(Mpd.periods) \in Nat /\ Len(Mpd'.periods) \in Nat
      /\ DOMAIN Mpd.periods = 1 .. Len(Mpd.periods)
      /\ DOMAIN Mpd'.periods = 1 .. Len(Mpd'.periods)
      /\ \A i \in 1 .. Len(Mpd.periods) : /\ Mpd'.periods[i].id = Mpd.periods[i].id
                                          /\ Mpd'.periods[i].events = Mpd.periods[i].events
  BY <1>6, MpdIs DEF Extends
<1>8. Snapshot'
  BY <1>1, <1>2, <1>3, <1>4, <1>7, TypedFields DEF Snapshot, Media
<1>9. TickInv' /\ HoldingInv' /\ \A t \in Tracks : StreamInv(t)'
  BY <1>1, <1>3 DEF AnnouncedInv, TickInv, HoldingInv, StreamInv, Media, InTick, InPeriod
<1>10. ASSUME NEW i \in DOMAIN Mpd.periods, Told(i)
       PROVE  i \in DOMAIN Mpd'.periods /\ Told(i)'
  BY <1>1, <1>7, <1>10 DEF Told, Media
<1>11. ChannelInv'
  BY <1>1, <1>3, <1>7, <1>10 DEF AnnouncedInv, ChannelInv, Media
<1> QED BY <1>5, <1>8, <1>9, <1>11 DEF AnnouncedInv

(* A tick's windows are chosen, and the seek is taken.                     *)
LEMMA BegunIs ==
    ASSUME AnnouncedInv, BeginPeriods
    PROVE  LET seek    == IF host.seekTarget = NoTime THEN loop.override ELSE host.seekTarget
               windows == PeriodsToPlay(Mpd, Now, SyncDepth, seek)
               none    == [t \in Tracks |-> <<>>]
           IN  /\ Typed /\ Snapshot /\ loop.at = "ticking"
               /\ UNCHANGED <<world, session, stream, emitted, period>>
               /\ host' = [host EXCEPT !.seekTarget = NoTime] /\ holding' = none
               /\ channel' = IF host.seekTarget = NoTime THEN channel ELSE none
               /\ loop' \in Loops /\ loop'.at = "periods" /\ loop'.snapshot = loop.snapshot
               /\ loop'.pos = 1 /\ loop'.windows = windows /\ loop'.last = loop.last
               /\ loop'.now = Now /\ loop'.override = seek /\ loop'.gen = host.seekGen
               /\ Consecutive(windows, WindowsOf(Mpd))
               /\ Published' = Published /\ Mpd' = Mpd
<1> DEFINE seek == IF host.seekTarget = NoTime THEN loop.override ELSE host.seekTarget
           windows == PeriodsToPlay(Mpd, Now, SyncDepth, seek)
           none == [t \in Tracks |-> <<>>]
<1>1. /\ Typed /\ Snapshot /\ loop.at = "ticking"
      /\ UNCHANGED <<world, session, stream, emitted, period>>
      /\ host' = [host EXCEPT !.seekTarget = NoTime] /\ holding' = none
      /\ channel' = IF host.seekTarget = NoTime THEN channel ELSE none
  BY DEF AnnouncedInv, BeginPeriods
<1>2. /\ seek \in SeekTimes \cup {NoTime} /\ Now \in Nat \cup {NoTime}
      /\ IsMpd(Mpd) /\ host.seekGen \in Nat
  BY <1>1, TypedFields, TheMpd DEF Now
<1>3. windows \in Seq(Windows) /\ Consecutive(windows, WindowsOf(Mpd))
  BY <1>2, PlayedIs
<1>4. loop' = [loop EXCEPT !.at = "periods", !.now = Now, !.override = seek, !.pos = 1,
                           !.gen = host.seekGen, !.windows = windows]
  BY DEF BeginPeriods
<1> HIDE DEF seek, windows
<1>5. /\ loop' \in Loops /\ loop'.at = "periods" /\ loop'.snapshot = loop.snapshot
      /\ loop'.pos = 1 /\ loop'.windows = windows /\ loop'.last = loop.last
      /\ loop'.now = Now /\ loop'.override = seek /\ loop'.gen = host.seekGen
  <2>1. loop \in Loops /\ loop.snapshot \in Nat /\ loop.last \in Nat
    BY <1>1, TypedFields
  <2>2. loop' = [ at |-> "periods", snapshot |-> loop.snapshot, now |-> Now,
                  windows |-> windows, pos |-> 1, last |-> loop.last, override |-> seek,
                  gen |-> host.seekGen ]
    BY <1>4, <2>1 DEF Loops
  <2>3. windows \in Seq(Windows)
    BY <1>3
  <2> QED BY <1>2, <2>1, <2>2, <2>3 DEF Loops
<1>6. Published' = Published /\ Mpd' = Mpd
  BY <1>1, <1>5 DEF Published, Mpd
<1> QED BY <1>1, <1>3, <1>5, <1>6 DEF seek, windows

LEMMA BeginPeriodsKeepsInv ==
    ASSUME AnnouncedInv, BeginPeriods
    PROVE  AnnouncedInv'
<1> DEFINE seek == IF host.seekTarget = NoTime THEN loop.override ELSE host.seekTarget
           windows == PeriodsToPlay(Mpd, Now, SyncDepth, seek)
           none == [t \in Tracks |-> <<>>]
<1>1. /\ Typed /\ Snapshot /\ loop.at = "ticking"
      /\ UNCHANGED <<world, session, stream, emitted, period>>
      /\ host' = [host EXCEPT !.seekTarget = NoTime] /\ holding' = none
      /\ channel' = IF host.seekTarget = NoTime THEN channel ELSE none
  BY BegunIs
<1>2. Consecutive(windows, WindowsOf(Mpd)) /\ Published' = Published /\ Mpd' = Mpd
  BY BegunIs
<1>3. /\ loop' \in Loops /\ loop'.at = "periods" /\ loop'.snapshot = loop.snapshot
      /\ loop'.pos = 1 /\ loop'.windows = windows /\ loop'.last = loop.last
  BY BegunIs
<1> HIDE DEF seek, windows
<1>4. Typed'
  <2>1. host' \in Hosts
    BY <1>1, HostIs DEF Typed
  <2>2. none \in [Tracks -> Seq(Items)]
    OBVIOUS
  <2>3. holding' \in [Tracks -> Seq(Items)] /\ channel' \in [Tracks -> Seq(Items)]
    BY <1>1, <2>2 DEF Typed
  <2> QED BY <1>1, <1>2, <1>3, <2>1, <2>3 DEF Typed
<1>5. Snapshot'
  BY <1>1, <1>2, <1>3 DEF Snapshot
<1>6. TickInv' /\ HoldingInv' /\ \A t \in Tracks : StreamInv(t)'
  <2>1. TickInv'
    BY <1>2, <1>3 DEF TickInv, InTick, InPeriod
  <2>2. HoldingInv'
    BY <1>1, <1>3 DEF HoldingInv, InPeriod
  <2>3. \A t \in Tracks : StreamInv(t)'
    BY <1>1, <1>3 DEF AnnouncedInv, StreamInv
  <2> QED BY <2>1, <2>2, <2>3
<1>7. ASSUME NEW i, Told(i)
       PROVE  Told(i)'
  BY <1>1, <1>2, <1>7 DEF Told
<1>8. ChannelInv'
  BY <1>1, <1>2, <1>3, <1>7 DEF AnnouncedInv, ChannelInv
<1> QED BY <1>4, <1>5, <1>6, <1>8 DEF AnnouncedInv

(* Behind a window that something is held for, no Period is passed over:   *)
(* the next to be entered is the one it was fetched for.                   *)
LEMMA HeldIsNext ==
    ASSUME AnnouncedInv, loop.at = "periods", loop.pos <= Len(loop.windows),
           NEW t \in Tracks, holding[t] # <<>>
    PROVE  /\ ~IsBeforeSeek(Window, loop.override)
           /\ loop.last = Window.idx - 1 /\ loop.last # Window.idx
           /\ Len(holding[t]) = 1 /\ holding[t][1].period = Mpd.periods[Window.idx].id
<1> DEFINE w == loop.windows[loop.pos - 1]
<1>1. /\ loop.pos > 1 /\ loop.last = w.idx /\ Ahead(holding[t], w)
  BY DEF AnnouncedInv, HoldingInv
<1>2. /\ Window.idx \in 1 .. Len(Mpd.periods) /\ Window = WindowsOf(Mpd)[Window.idx]
      /\ Len(Mpd.periods) \in Nat /\ w.idx = Window.idx - 1
      /\ w = WindowsOf(Mpd)[Window.idx - 1] /\ Window.idx - 1 \in 1 .. Len(Mpd.periods)
  BY <1>1, WindowIs DEF AnnouncedInv, InTick
<1> HIDE DEF w
<1>3. /\ Window.end # NoTime => w.end # NoTime /\ w.end <= Window.end
      /\ w \in Windows /\ Window \in Windows
  <2>1. IsMpd(Mpd) /\ Window.idx - 1 < Window.idx
    BY <1>2, TheMpd DEF AnnouncedInv
  <2>2. /\ WindowsOf(Mpd)[Window.idx].end # NoTime
              => /\ WindowsOf(Mpd)[Window.idx - 1].end # NoTime
                 /\ WindowsOf(Mpd)[Window.idx - 1].end <= WindowsOf(Mpd)[Window.idx].end
        /\ WindowsOf(Mpd)[Window.idx - 1] \in Windows /\ WindowsOf(Mpd)[Window.idx] \in Windows
    BY <1>2, <2>1, WindowsAre
  <2> QED BY <1>2, <2>2
<1>4. /\ Len(holding[t]) = 1 /\ holding[t][1].period = Mpd.periods[w.idx + 1].id
      /\ w.end # NoTime /\ ~IsBeforeSeek(w, loop.override)
  BY <1>1 DEF Ahead
<1>5. loop.override # NoTime => loop.override \in Nat
  BY TypedFields, ControllerAssumption DEF AnnouncedInv
<1>6. ~IsBeforeSeek(Window, loop.override)
  BY <1>3, <1>4, <1>5, ControllerAssumption DEF IsBeforeSeek, Windows
<1> QED BY <1>1, <1>2, <1>4, <1>6

LEMMA SkipPeriodKeepsInv ==
    ASSUME AnnouncedInv, SkipPeriod
    PROVE  AnnouncedInv'
<1>1. /\ Typed /\ Snapshot /\ loop.at = "periods" /\ loop.pos <= Len(loop.windows)
      /\ IsBeforeSeek(Window, loop.override) /\ UNCHANGED <<host, world, Media>>
      /\ loop' = [loop EXCEPT !.pos = loop.pos + 1]
  BY TypedFields DEF AnnouncedInv, SkipPeriod, AfterWindows
<1>2. PICK pos \in Nat \ {0} : pos = loop.pos + 1 /\ pos <= Len(loop.windows) + 1
  BY <1>1, TypedFields
<1>3. /\ loop' \in Loops /\ loop'.at = "periods" /\ loop'.snapshot = loop.snapshot
      /\ loop'.pos = pos /\ loop'.windows = loop.windows /\ loop'.last = loop.last
      /\ loop'.now = loop.now /\ loop'.override = loop.override
  <2>1. loop' = [loop EXCEPT !.pos = pos]
    BY <1>1, <1>2
  <2> QED BY <1>1, <1>2, <2>1, TypedFields DEF Loops
<1>4. Published' = Published /\ Mpd' = Mpd
  BY <1>1, <1>3 DEF Published, Mpd
<1>5. Typed' /\ Snapshot'
  BY <1>1, <1>3, <1>4 DEF Typed, Snapshot, Media
<1>6. TickInv'
  BY <1>1, <1>2, <1>3, <1>4 DEF AnnouncedInv, TickInv, InTick, InPeriod
<1>7. \A t \in Tracks : holding'[t] = <<>>
  BY <1>1, HeldIsNext DEF Media
<1>8. HoldingInv' /\ \A t \in Tracks : StreamInv(t)'
  BY <1>1, <1>3, <1>7 DEF AnnouncedInv, HoldingInv, StreamInv, Media, InPeriod
<1>9. ASSUME NEW i, Told(i)
      PROVE  Told(i)'
  BY <1>1, <1>4, <1>9 DEF Told, Media
<1>10. ChannelInv'
  BY <1>1, <1>3, <1>4, <1>9 DEF AnnouncedInv, ChannelInv, Media
<1> QED BY <1>5, <1>6, <1>8, <1>10 DEF AnnouncedInv

LEMMA ConcatIs ==
    ASSUME NEW S, NEW a \in Seq(S), NEW b \in Seq(S)
    PROVE  /\ a \o b \in Seq(S) /\ Len(a \o b) = Len(a) + Len(b)
           /\ Len(a) \in Nat /\ Len(b) \in Nat
           /\ DOMAIN a = 1 .. Len(a) /\ DOMAIN (a \o b) = 1 .. Len(a) + Len(b)
           /\ \A k \in 1 .. Len(a) : (a \o b)[k] = a[k]
           /\ \A k \in 1 .. Len(b) : (a \o b)[Len(a) + k] = b[k]
OBVIOUS

\* A log and what it becomes when the items go out under an announcement.
Appended(log, items, under, new) ==
    /\ new \in Seq(Items) /\ Len(new) = Len(log) + Len(items)
    /\ Len(log) \in Nat /\ Len(items) \in Nat /\ DOMAIN log = 1 .. Len(log)
    /\ DOMAIN new = 1 .. Len(log) + Len(items)
    /\ \A k \in 1 .. Len(log) : new[k] = log[k]
    /\ \A k \in 1 .. Len(items) :
           /\ new[Len(log) + k].period = items[k].period
           /\ new[Len(log) + k].number = items[k].number
           /\ new[Len(log) + k].under = under

LEMMA LenIs ==
    ASSUME NEW S, NEW s \in Seq(S)
    PROVE  Len(s) \in Nat /\ (Len(s) = 0 <=> s = <<>>) /\ DOMAIN s = 1 .. Len(s)
OBVIOUS

LEMMA OneOrNone ==
    ASSUME NEW S, NEW s \in Seq(S), Len(s) <= 1
    PROVE  Len(s) \in {0, 1} /\ (Len(s) = 0 => s = <<>>) /\ (s # <<>> => Len(s) = 1)
<1>1. PICK n : n = Len(s)
  OBVIOUS
<1>2. n \in Nat /\ n <= 1 /\ (n = 0 <=> s = <<>>)
  BY <1>1, LenIs
<1>3. n = 0 \/ n = 1
  BY <1>2
<1> QED BY <1>1, <1>2, <1>3

LEMMA AppendedItem ==
    ASSUME NEW log, NEW items, NEW under, NEW new, Appended(log, items, under, new),
           NEW k \in DOMAIN new
    PROVE  \/ k \in DOMAIN log /\ new[k] = log[k]
           \/ \E m \in 1 .. Len(items) :
                  /\ k = Len(log) + m /\ new[k].period = items[m].period
                  /\ new[k].number = items[m].number /\ new[k].under = under
<1>1. PICK n \in Nat, c \in Nat : n = Len(log) /\ c = Len(items)
  BY DEF Appended
<1>2. k \in 1 .. n + c /\ DOMAIN log = 1 .. n
  BY <1>1 DEF Appended
<1>3. k \in 1 .. n \/ (k - n \in 1 .. c /\ k = n + (k - n))
  BY <1>1, <1>2
<1>4. CASE k \in 1 .. n
  BY <1>1, <1>2, <1>4 DEF Appended
<1>5. CASE k - n \in 1 .. c /\ k = n + (k - n)
  BY <1>1, <1>5 DEF Appended
<1> QED BY <1>3, <1>4, <1>5

(* What a track is sent.                                                   *)
LEMMA SentIs ==
    ASSUME Typed, NEW t \in Tracks, NEW items \in Seq(Items), NEW under \in Names
    PROVE  Appended(channel[t], items, under, Sent(t, items, under))
<1> DEFINE old == channel[t]
           new == [k \in DOMAIN items |-> [items[k] EXCEPT !.under = under]]
<1>1. old \in Seq(Items)
  BY DEF Typed
<1>2. \A k \in DOMAIN items : items[k] \in Items
  OBVIOUS
<1>3. \A k \in DOMAIN items :
          /\ [items[k] EXCEPT !.under = under] \in Items
          /\ [items[k] EXCEPT !.under = under].period = items[k].period
          /\ [items[k] EXCEPT !.under = under].number = items[k].number
          /\ [items[k] EXCEPT !.under = under].under = under
  BY <1>2 DEF Items
<1>4. /\ new \in Seq(Items) /\ Len(new) = Len(items) /\ DOMAIN new = DOMAIN items
      /\ \A k \in DOMAIN items :
             /\ new[k].period = items[k].period /\ new[k].number = items[k].number
             /\ new[k].under = under
  <2>1. \A k \in DOMAIN items : new[k] = [items[k] EXCEPT !.under = under]
    OBVIOUS
  <2>2. DOMAIN items = 1 .. Len(items) /\ Len(items) \in Nat
    OBVIOUS
  <2>3. new \in [1 .. Len(items) -> Items]
    BY <1>3, <2>2
  <2>4. new \in Seq(Items)
    BY <2>2, <2>3
  <2> HIDE DEF new
  <2>5. Len(new) = Len(items)
    BY <2>2, <2>3, <2>4
  <2> QED BY <1>3, <2>1, <2>2, <2>3, <2>4, <2>5
<1>5. Sent(t, items, under) = old \o new
  BY DEF Sent
<1> HIDE DEF old, new
<1>6. /\ old \o new \in Seq(Items) /\ Len(old \o new) = Len(old) + Len(new)
      /\ Len(old) \in Nat /\ Len(new) \in Nat /\ DOMAIN old = 1 .. Len(old)
      /\ DOMAIN (old \o new) = 1 .. Len(old) + Len(new)
      /\ \A k \in 1 .. Len(old) : (old \o new)[k] = old[k]
      /\ \A k \in 1 .. Len(new) : (old \o new)[Len(old) + k] = new[k]
  <2>1. new \in Seq(Items)
    BY <1>4
  <2> QED BY <1>1, <2>1, ConcatIs
<1>7. DOMAIN items = 1 .. Len(items)
  OBVIOUS
<1> QED BY <1>4, <1>5, <1>6, <1>7 DEF old, Appended

LEMMA TrackerIs ==
    /\ NewTracker \in Trackers
    /\ \A tracker \in Trackers : SoftReset(tracker) \in Trackers
<1>1. NewTracker \in Trackers
  BY DEF NewTracker, Trackers
<1>2. \A tracker \in Trackers : SoftReset(tracker) \in Trackers
  BY DEF SoftReset, Trackers
<1> QED BY <1>1, <1>2

LEMMA ResetIs ==
    ASSUME Typed, NEW soft \in BOOLEAN, ResetSession(soft)
    PROVE  session' \in [Tracks -> Sessions]
<1>1. NewSession \in Sessions
  BY TrackerIs DEF NewSession, Sessions
<1>2. ASSUME NEW t \in Tracks
      PROVE  [session[t] EXCEPT !.tracker = SoftReset(@)] \in Sessions
  <2>1. session[t] \in Sessions
    BY DEF Typed
  <2>2. session[t].tracker \in Trackers
    BY <2>1 DEF Sessions
  <2>3. PICK new \in Trackers : new = SoftReset(session[t].tracker)
    BY <2>2, TrackerIs
  <2>4. [session[t] EXCEPT !.tracker = new] \in Sessions
    BY <2>1, <2>3 DEF Sessions
  <2> QED BY <2>3, <2>4
<1> QED BY <1>1, <1>2 DEF ResetSession

(* Nothing is held when the period that was announced goes on.             *)
LEMMA EnteredIs ==
    ASSUME AnnouncedInv, EnterPeriod
    PROVE  /\ Typed /\ Snapshot /\ loop.at = "periods" /\ loop.pos <= Len(loop.windows)
           /\ ~host.stopped /\ ~IsBeforeSeek(Window, loop.override)
           /\ UNCHANGED <<host, world, stream, emitted>>
           /\ Window.idx \in 1 .. Len(Mpd.periods)
           /\ loop' \in Loops /\ loop'.at = "preparing" /\ loop'.last = Window.idx
           /\ loop'.snapshot = loop.snapshot /\ loop'.pos = loop.pos
           /\ loop'.windows = loop.windows /\ loop'.now = loop.now
           /\ loop'.override = loop.override /\ loop'.gen = loop.gen
           /\ Published' = Published /\ Mpd' = Mpd /\ Window' = Window
           /\ \A t \in Tracks : holding'[t] = <<>>
           /\ holding' \in [Tracks -> Seq(Items)]
           /\ period' = Mpd.periods[Window.idx].id
           /\ loop.last = Window.idx =>
                  channel' = channel /\ session' = session /\ holding' = holding
           /\ loop.last # Window.idx =>
                  /\ ResetSession(Soft(LinkHere))
                  /\ channel' = [t \in Tracks |-> Sent(t, holding[t], period')]
<1>1. /\ Typed /\ Snapshot /\ loop.at = "periods" /\ loop.pos <= Len(loop.windows)
      /\ ~host.stopped /\ ~IsBeforeSeek(Window, loop.override)
      /\ UNCHANGED <<host, world, stream, emitted>>
      /\ loop' = [loop EXCEPT !.at = "preparing", !.last = Window.idx]
  BY TypedFields DEF AnnouncedInv, EnterPeriod, AfterWindows
<1>2. Window.idx \in 1 .. Len(Mpd.periods) /\ Window.idx \in Nat
  BY <1>1, WindowIs DEF AnnouncedInv, InTick
<1>3. /\ loop' \in Loops /\ loop'.at = "preparing" /\ loop'.last = Window.idx
      /\ loop'.snapshot = loop.snapshot /\ loop'.pos = loop.pos
      /\ loop'.windows = loop.windows /\ loop'.now = loop.now
      /\ loop'.override = loop.override /\ loop'.gen = loop.gen
  BY <1>1, <1>2, TypedFields DEF Loops
<1>4. Published' = Published /\ Mpd' = Mpd /\ Window' = Window
  BY <1>1, <1>3 DEF Published, Mpd, Window
<1>5. CASE loop.last = Window.idx
  <2>1. UNCHANGED <<session, holding, channel, period>>
    BY <1>5 DEF EnterPeriod
  <2>2. \A t \in Tracks : holding[t] = <<>>
    BY <1>1, <1>5, HeldIsNext
  <2>3. period' = Mpd.periods[Window.idx].id /\ holding \in [Tracks -> Seq(Items)]
    BY <1>1, <1>2, <1>5, <2>1 DEF Snapshot, Typed
  <2> QED BY <1>1, <1>2, <1>3, <1>4, <1>5, <2>1, <2>2, <2>3
<1>6. CASE loop.last # Window.idx
  <2>1. /\ period' = Mpd.periods[Window.idx].id
        /\ ResetSession(Soft(LinkHere))
        /\ channel' = [t \in Tracks |-> Sent(t, holding[t], period')]
        /\ holding' = [t \in Tracks |-> <<>>]
    BY <1>6 DEF EnterPeriod
  <2>2. holding' \in [Tracks -> Seq(Items)] /\ \A t \in Tracks : holding'[t] = <<>>
    BY <2>1
  <2> QED BY <1>1, <1>2, <1>3, <1>4, <1>6, <2>1, <2>2
<1> QED BY <1>5, <1>6

(* What is held is of the period that is announced.                        *)
LEMMA FlushedIs ==
    ASSUME AnnouncedInv, EnterPeriod, loop.last # Window.idx, NEW t \in Tracks
    PROVE  /\ Appended(channel[t], holding[t], period', channel'[t])
           /\ channel[t] \in Seq(Items) /\ holding[t] \in Seq(Items)
           /\ channel'[t] \in Seq(Items)
           /\ Len(holding[t]) \in {0, 1} /\ (Len(holding[t]) = 0 => holding[t] = <<>>)
           /\ holding[t] # <<>> =>
                  /\ Len(holding[t]) = 1 /\ loop.last = Window.idx - 1
                  /\ holding[t][1].period = period'
           /\ \A k \in DOMAIN channel'[t] :
                  \/ k \in DOMAIN channel[t] /\ channel'[t][k] = channel[t][k]
                  \/ channel'[t][k].period = period' /\ channel'[t][k].under = period'
<1>1. /\ Typed /\ channel'[t] = Sent(t, holding[t], period')
      /\ period' = Mpd.periods[Window.idx].id /\ period' \in Names
      /\ loop.at = "periods" /\ loop.pos <= Len(loop.windows)
  <2>1. Mpd.periods[Window.idx].id \in Names
    BY EnteredIs, TheMpd, MpdIs
  <2> QED BY <2>1, EnteredIs
<1>2. holding[t] \in Seq(Items) /\ channel[t] \in Seq(Items)
  BY <1>1 DEF Typed
<1>3. /\ Len(holding[t]) \in {0, 1} /\ (Len(holding[t]) = 0 => holding[t] = <<>>)
      /\ holding[t] # <<>> => Len(holding[t]) = 1
  <2>1. Len(holding[t]) <= 1
    BY DEF AnnouncedInv, HoldingInv
  <2> QED BY <1>2, <2>1, OneOrNone
<1>4. holding[t] # <<>> => /\ Len(holding[t]) = 1 /\ loop.last = Window.idx - 1
                           /\ holding[t][1].period = period'
  BY <1>1, HeldIsNext
<1>5. Appended(channel[t], holding[t], period', channel'[t])
  BY <1>1, <1>2, SentIs
<1>6. ASSUME NEW k \in DOMAIN channel'[t]
      PROVE  \/ k \in DOMAIN channel[t] /\ channel'[t][k] = channel[t][k]
             \/ channel'[t][k].period = period' /\ channel'[t][k].under = period'
  <2>1. CASE k \in DOMAIN channel[t] /\ channel'[t][k] = channel[t][k]
    BY <2>1
  <2>2. CASE \E m \in 1 .. Len(holding[t]) :
                 /\ channel'[t][k].period = holding[t][m].period
                 /\ channel'[t][k].under = period'
    <3>1. PICK m \in 1 .. Len(holding[t]) : /\ channel'[t][k].period = holding[t][m].period
                                            /\ channel'[t][k].under = period'
      BY <2>2
    <3>2. m = 1 /\ holding[t] # <<>>
      BY <1>3, <3>1
    <3> QED BY <1>4, <3>1, <3>2
  <2> QED BY <1>5, <2>1, <2>2, AppendedItem
<1>7. channel'[t] \in Seq(Items)
  BY <1>5 DEF Appended
<1> QED BY <1>2, <1>3, <1>4, <1>5, <1>6, <1>7

LEMMA EnterPeriodKeepsInv ==
    ASSUME AnnouncedInv, EnterPeriod
    PROVE  AnnouncedInv'
<1>1. Typed'
  <2>1. channel' \in [Tracks -> Seq(Items)]
    <3>1. CASE loop.last = Window.idx
      BY <3>1, EnteredIs DEF Typed
    <3>2. CASE loop.last # Window.idx
      <4>1. channel' = [t \in Tracks |-> Sent(t, holding[t], period')]
        BY <3>2, EnteredIs
      <4>2. \A t \in Tracks : channel'[t] \in Seq(Items)
        BY <3>2, FlushedIs
      <4> QED BY <4>1, <4>2
    <3> QED BY <3>1, <3>2
  <2>2. session' \in [Tracks -> Sessions]
    <3>1. CASE loop.last = Window.idx
      BY <3>1, EnteredIs DEF Typed
    <3>2. CASE loop.last # Window.idx
      <4>1. Soft(LinkHere) \in BOOLEAN
        BY DEF Soft
      <4> QED BY <3>2, <4>1, EnteredIs, ResetIs
    <3> QED BY <3>1, <3>2
  <2> QED BY <2>1, <2>2, EnteredIs DEF Typed
<1>2. Snapshot'
  <2>1. Window.idx # 0 /\ Window.idx <= Len(Mpd.periods)
    BY EnteredIs, TheMpd, MpdIs
  <2> QED BY <2>1, EnteredIs DEF Snapshot
<1>3. TickInv' /\ HoldingInv'
  BY EnteredIs DEF AnnouncedInv, TickInv, HoldingInv, InTick, InPeriod
<1>4. \A t \in Tracks : StreamInv(t)'
  BY EnteredIs DEF AnnouncedInv, StreamInv
<1>5. \A i : Told(i) => Told(i)'
  BY EnteredIs DEF Told
<1>6. Told(Window.idx)' /\ Window.idx \in DOMAIN Mpd.periods
  BY EnteredIs, TheMpd, MpdIs DEF Told
<1>7. ChannelInv'
  <2> SUFFICES ASSUME NEW t \in Tracks, NEW k \in DOMAIN channel'[t]
               PROVE  /\ channel'[t][k].under = channel'[t][k].period
                      /\ \E i \in DOMAIN Mpd'.periods :
                             channel'[t][k].period = Mpd'.periods[i].id /\ Told(i)'
    BY EnteredIs DEF ChannelInv
  <2>1. CASE k \in DOMAIN channel[t] /\ channel'[t][k] = channel[t][k]
    BY <1>5, <2>1, EnteredIs DEF AnnouncedInv, ChannelInv
  <2>2. CASE /\ channel'[t][k].period = Mpd.periods[Window.idx].id
             /\ channel'[t][k].under = channel'[t][k].period
    BY <1>6, <2>2, EnteredIs
  <2>3. CASE loop.last = Window.idx
    BY <2>1, <2>3, EnteredIs
  <2>4. CASE loop.last # Window.idx
    <3>1. \/ k \in DOMAIN channel[t] /\ channel'[t][k] = channel[t][k]
          \/ channel'[t][k].period = period' /\ channel'[t][k].under = period'
      BY <2>4, FlushedIs
    <3> QED BY <2>1, <2>2, <3>1, EnteredIs
  <2> QED BY <2>3, <2>4
<1> QED BY <1>1, <1>2, <1>3, <1>4, <1>7 DEF AnnouncedInv

LEMMA StartedIs ==
    ASSUME AnnouncedInv, StartStreams
    PROVE  /\ Typed /\ Snapshot /\ TickInv /\ loop.at = "preparing"
           /\ loop.pos <= Len(loop.windows) /\ loop.last = Window.idx
           /\ ~IsBeforeSeek(Window, loop.override)
           /\ UNCHANGED <<host, world, holding, channel, period>>
           /\ Window.idx \in 1 .. Len(Mpd.periods) /\ Window.idx \in DOMAIN Mpd.periods
           /\ loop' \in Loops /\ loop'.at = "join" /\ loop'.last = loop.last
           /\ loop'.snapshot = loop.snapshot /\ loop'.pos = loop.pos
           /\ loop'.windows = loop.windows /\ loop'.now = loop.now
           /\ loop'.override = loop.override /\ loop'.gen = loop.gen
           /\ Published' = Published /\ Mpd' = Mpd /\ Window' = Window /\ Segments' = Segments
           /\ emitted' = emitted \cup Mpd.periods[Window.idx].events
           /\ \A t \in Tracks :
                  /\ stream'[t] =
                         [ at |-> IF session[t].haveInit THEN "head" ELSE "init",
                           gen |-> host.seekGen,
                           cursor |-> StartIndex(Segments, session[t].tracker), held |-> <<>> ]
                  /\ session'[t] = [haveInit |-> TRUE, tracker |-> session[t].tracker]
                  /\ stream'[t].cursor \in 1 .. Len(Segments) + 1
                  /\ session[t] \in Sessions /\ session[t].tracker \in Trackers
           /\ stream' \in [Tracks -> Streams] /\ session' \in [Tracks -> Sessions]
<1>1. /\ Typed /\ Snapshot /\ TickInv /\ loop.at = "preparing"
      /\ loop.pos <= Len(loop.windows) /\ loop.last = Window.idx
      /\ ~IsBeforeSeek(Window, loop.override)
      /\ UNCHANGED <<host, world, holding, channel, period>>
      /\ loop' = [loop EXCEPT !.at = "join"]
      /\ emitted' = emitted \cup Mpd.periods[Window.idx].events
  BY DEF AnnouncedInv, TickInv, InPeriod, StartStreams, Goto
<1>2. Window.idx \in 1 .. Len(Mpd.periods) /\ Window.idx \in DOMAIN Mpd.periods
  BY <1>1, WindowIs DEF InTick
<1>3. /\ loop' \in Loops /\ loop'.at = "join" /\ loop'.last = loop.last
      /\ loop'.snapshot = loop.snapshot /\ loop'.pos = loop.pos
      /\ loop'.windows = loop.windows /\ loop'.now = loop.now
      /\ loop'.override = loop.override /\ loop'.gen = loop.gen
  BY <1>1, TypedFields DEF Loops
<1>4. Published' = Published /\ Mpd' = Mpd /\ Window' = Window
  BY <1>1, <1>3 DEF Published, Mpd, Window
<1>5. Segments' = Segments
  BY <1>3, <1>4 DEF Segments, SegmentsOf
<1>6. /\ Len(Segments) \in Nat /\ DOMAIN Segments = 1 .. Len(Segments)
  <2>1. Mpd.periods[Window.idx].count \in Nat
    BY <1>1, <1>2, TheMpd, MpdIs
  <2> QED BY <1>1, <1>2, <2>1, SegmentsAre DEF Segments
<1>7. ASSUME NEW t \in Tracks
      PROVE  StartIndex(Segments, session[t].tracker) \in 1 .. Len(Segments) + 1
  <2>1. Wanted(Segments) \in Nat \ {0}
    BY <1>6, WantedIs
  <2> QED BY <1>6, <2>1, AdvanceIs, StartIndexIs
<1>8. ASSUME NEW t \in Tracks
      PROVE  /\ session[t] \in Sessions /\ session[t].tracker \in Trackers
             /\ session'[t] = [haveInit |-> TRUE, tracker |-> session[t].tracker]
             /\ session'[t] \in Sessions
  <2>1. session[t] \in Sessions
    BY <1>1 DEF Typed
  <2>2. session'[t] = [session[t] EXCEPT !.haveInit = TRUE]
    BY DEF StartStreams
  <2> QED BY <2>1, <2>2 DEF Sessions
<1>9. ASSUME NEW t \in Tracks
      PROVE  /\ stream'[t] =
                    [ at |-> IF session[t].haveInit THEN "head" ELSE "init",
                      gen |-> host.seekGen,
                      cursor |-> StartIndex(Segments, session[t].tracker), held |-> <<>> ]
             /\ stream'[t] \in Streams /\ stream'[t].cursor \in 1 .. Len(Segments) + 1
  <2>1. PICK n \in 1 .. Len(Segments) + 1 : n = StartIndex(Segments, session[t].tracker)
    BY <1>7
  <2>2. PICK place \in {"head", "init"} : place = IF session[t].haveInit THEN "head" ELSE "init"
    OBVIOUS
  <2>3. stream'[t] = [Idle EXCEPT !.at = place, !.gen = host.seekGen, !.cursor = n]
    BY <2>1, <2>2 DEF StartStreams
  <2>4. stream'[t] = [at |-> place, gen |-> host.seekGen, cursor |-> n, held |-> <<>>]
    BY <2>3 DEF Idle
  <2>5. host.seekGen \in Nat /\ n \in Nat \ {0} /\ <<>> \in Seq(Items) /\ place \in Places
    BY <1>1, <1>6, TypedFields DEF Places
  <2> QED BY <2>1, <2>2, <2>4, <2>5 DEF Streams
<1>10. stream' \in [Tracks -> Streams] /\ session' \in [Tracks -> Sessions]
  <2>1. stream' = [t \in Tracks |-> stream'[t]] /\ session' = [t \in Tracks |-> session'[t]]
    BY DEF StartStreams
  <2> QED BY <1>8, <1>9, <2>1
<1> QED BY <1>1, <1>2, <1>3, <1>4, <1>5, <1>8, <1>9, <1>10

LEMMA StartStreamsKeepsInv ==
    ASSUME AnnouncedInv, StartStreams
    PROVE  AnnouncedInv'
<1>1. Typed' /\ Snapshot'
  BY StartedIs DEF Typed, Snapshot
<1>2. TickInv' /\ HoldingInv'
  BY StartedIs DEF AnnouncedInv, TickInv, HoldingInv, InTick, InPeriod
<1>3. ASSUME NEW t \in Tracks
      PROVE  StreamInv(t)'
  <2>1. /\ stream'[t].held = <<>> /\ stream'[t].at \in {"init", "head"}
        /\ stream'[t].cursor \in 1 .. Len(Segments) + 1
    BY StartedIs
  <2>2. stream'[t].cursor <= Len(Segments) + 1
    <3>1. Len(Segments) \in Nat
      BY StartedIs, SegmentsAre, TheMpd, MpdIs DEF Segments
    <3> QED BY <2>1, <3>1
  <2> QED BY <2>1, <2>2, StartedIs DEF StreamInv, Ahead
<1>4. \A i : (Told(i) => Told(i)') /\ (i = Window.idx => Told(i)')
  BY StartedIs DEF Told
<1>5. ChannelInv'
  BY <1>4, StartedIs DEF AnnouncedInv, ChannelInv
<1> QED BY <1>1, <1>2, <1>3, <1>5 DEF AnnouncedInv

LEMMA JoinedIs ==
    ASSUME AnnouncedInv, Join
    PROVE  /\ Typed /\ Snapshot /\ loop.at = "join" /\ loop.pos <= Len(loop.windows)
           /\ loop.last = Window.idx /\ Joined /\ ~Raised /\ Told(loop.last)
           /\ UNCHANGED <<host, world, stream, emitted, period>>
           /\ \A t \in Tracks : holding[t] = <<>> /\ holding'[t] = stream[t].held
           /\ loop' \in Loops /\ loop'.last = loop.last /\ loop'.snapshot = loop.snapshot
           /\ loop'.windows = loop.windows /\ loop'.now = loop.now
           /\ loop'.override = loop.override /\ loop'.gen = loop.gen
           /\ Published' = Published /\ Mpd' = Mpd
           /\ holding' \in [Tracks -> Seq(Items)] /\ session' \in [Tracks -> Sessions]
           /\ channel' \in [Tracks -> Seq(Items)]
           /\ host.seekGen = loop.gen =>
                  /\ loop'.at = "periods" /\ loop'.pos = loop.pos + 1
                  /\ UNCHANGED <<session, channel>>
           /\ host.seekGen # loop.gen =>
                  /\ loop'.at \in {"done", "top"} /\ (loop'.at = "done" => host.stopped)
                  /\ loop'.pos = loop.pos
                  /\ session' = [t \in Tracks |-> NewSession]
                  /\ channel' = [t \in Tracks |-> <<>>]
<1>1. /\ Typed /\ Snapshot /\ loop.at = "join" /\ loop.pos <= Len(loop.windows)
      /\ loop.last = Window.idx /\ Joined /\ ~Raised /\ Told(loop.last)
      /\ UNCHANGED <<host, world, stream, emitted, period>>
      /\ holding' = [t \in Tracks |->
             IF stream[t].held = <<>> THEN holding[t] ELSE stream[t].held]
  BY DEF AnnouncedInv, TickInv, InPeriod, ChannelInv, Join
<1>2. \A t \in Tracks : /\ holding[t] = <<>> /\ holding'[t] = stream[t].held
                        /\ stream[t].held \in Seq(Items)
  <2>1. \A t \in Tracks : holding[t] = <<>>
    BY <1>1 DEF AnnouncedInv, HoldingInv, InPeriod
  <2>2. \A t \in Tracks : stream[t].held \in Seq(Items)
    BY <1>1 DEF Typed, Streams
  <2> QED BY <1>1, <2>1, <2>2
<1>3. holding' \in [Tracks -> Seq(Items)]
  BY <1>1, <1>2
<1>4. CASE host.seekGen = loop.gen
  <2>1. /\ loop' = [loop EXCEPT !.at = "periods", !.pos = loop.pos + 1]
        /\ UNCHANGED <<session, channel>>
    BY <1>4 DEF Join
  <2>2. PICK pos \in Nat \ {0} : pos = loop.pos + 1
    BY <1>1, TypedFields
  <2>3. loop' = [loop EXCEPT !.at = "periods", !.pos = pos]
    BY <2>1, <2>2
  <2>4. /\ loop' \in Loops /\ loop'.last = loop.last /\ loop'.snapshot = loop.snapshot
        /\ loop'.windows = loop.windows /\ loop'.now = loop.now
        /\ loop'.override = loop.override /\ loop'.gen = loop.gen
        /\ loop'.at = "periods" /\ loop'.pos = pos
    BY <1>1, <2>3, TypedFields DEF Loops
  <2>5. Published' = Published /\ Mpd' = Mpd
    BY <1>1, <2>4 DEF Published, Mpd
  <2>6. session' \in [Tracks -> Sessions] /\ channel' \in [Tracks -> Seq(Items)]
    BY <1>1, <2>1 DEF Typed
  <2> QED BY <1>1, <1>2, <1>3, <1>4, <2>1, <2>2, <2>4, <2>5, <2>6
<1>5. CASE host.seekGen # loop.gen
  <2>1. PICK place \in {"done", "top"} : /\ loop' = [loop EXCEPT !.at = place]
                                         /\ place = "done" => host.stopped
    BY <1>5 DEF Join
  <2>2. ResetSession(FALSE) /\ channel' = [t \in Tracks |-> <<>>]
    BY <1>5 DEF Join
  <2>3. session' = [t \in Tracks |-> NewSession] /\ session' \in [Tracks -> Sessions]
    BY <1>1, <2>2, ResetIs DEF ResetSession
  <2>4. /\ loop' \in Loops /\ loop'.last = loop.last /\ loop'.snapshot = loop.snapshot
        /\ loop'.windows = loop.windows /\ loop'.now = loop.now
        /\ loop'.override = loop.override /\ loop'.gen = loop.gen
        /\ loop'.at = place /\ loop'.pos = loop.pos
    BY <1>1, <2>1, TypedFields DEF Loops
  <2>5. Published' = Published /\ Mpd' = Mpd
    BY <1>1, <2>4 DEF Published, Mpd
  <2>6. channel' \in [Tracks -> Seq(Items)]
    BY <2>2
  <2> QED BY <1>1, <1>2, <1>3, <1>5, <2>1, <2>2, <2>3, <2>4, <2>5, <2>6
<1> QED BY <1>4, <1>5

LEMMA JoinKeepsInv ==
    ASSUME AnnouncedInv, Join
    PROVE  AnnouncedInv'
<1>1. Typed' /\ Snapshot'
  BY JoinedIs DEF Typed, Snapshot
<1>2. \A t \in Tracks : stream[t].at \in Resting /\ Len(stream[t].held) <= 1
  BY JoinedIs DEF Joined, Resting, AnnouncedInv, StreamInv
<1>3. \A t \in Tracks : StreamInv(t)'
  BY <1>2, JoinedIs DEF StreamInv
<1>4. \A i : Told(i) => Told(i)'
  BY JoinedIs DEF Told
<1>5. ChannelInv'
  <2>1. CASE host.seekGen = loop.gen
    BY <1>4, <2>1, JoinedIs DEF AnnouncedInv, ChannelInv
  <2>2. CASE host.seekGen # loop.gen
    BY <2>2, JoinedIs DEF ChannelInv
  <2> QED BY <2>1, <2>2
<1>6. TickInv'
  <2>1. loop.pos \in Nat /\ Len(loop.windows) \in Nat
    BY JoinedIs, TypedFields
  <2> QED BY <2>1, JoinedIs DEF AnnouncedInv, TickInv, InTick, InPeriod
<1>7. HoldingInv'
  <2>1. CASE host.seekGen = loop.gen
    <3>1. loop'.pos > 1 /\ loop'.pos - 1 = loop.pos
      <4>1. loop'.pos = loop.pos + 1 /\ loop.pos \in Nat \ {0}
        BY <2>1, JoinedIs, TypedFields
      <4> QED BY <4>1
    <3>2. \A t \in Tracks : Ahead(stream[t].held, Window)
      BY JoinedIs DEF AnnouncedInv, StreamInv
    <3>3. PICK w : w = Window
      OBVIOUS
    <3>4. /\ loop'.at = "periods" /\ loop'.pos > 1 /\ loop'.windows[loop'.pos - 1] = w
          /\ loop'.last = w.idx /\ Mpd' = Mpd /\ loop'.override = loop.override
      BY <2>1, <3>1, <3>3, JoinedIs DEF Window
    <3>5. ASSUME NEW t \in Tracks
          PROVE  Len(holding'[t]) <= 1 /\ Ahead(holding[t], w)'
      <4>1. PICK log : log = stream[t].held /\ log = holding'[t]
        BY JoinedIs
      <4>2. Len(log) <= 1 /\ Ahead(log, w)
        BY <1>2, <3>2, <3>3, <4>1
      <4> QED BY <3>4, <4>1, <4>2 DEF Ahead
    <3> QED BY <3>4, <3>5 DEF HoldingInv, InPeriod, Ahead
  <2>2. CASE host.seekGen # loop.gen
    BY <1>2, <2>2, JoinedIs DEF HoldingInv, InPeriod
  <2> QED BY <2>1, <2>2
<1> QED BY <1>1, <1>3, <1>5, <1>6, <1>7 DEF AnnouncedInv

-----------------------------------------------------------------------------
(* Steps of the streams.                                                   *)

LEMMA ItemIs ==
    ASSUME Typed, NEW i \in DOMAIN Mpd.periods, NEW n \in Nat
    PROVE  /\ Item(i, n) \in Items /\ <<Item(i, n)>> \in Seq(Items)
           /\ Item(i, n).period = Mpd.periods[i].id /\ Item(i, n).number = n
           /\ Len(<<Item(i, n)>>) = 1 /\ <<Item(i, n)>>[1] = Item(i, n)
<1>1. Mpd.periods[i].id \in Names /\ NoId \in Names
  BY TheMpd DEF Names
<1>2. Item(i, n) \in Items
  BY <1>1 DEF Item, Items
<1> QED BY <1>2 DEF Item

\* What may follow of a stream.
Placed(t, q) ==
    /\ q \in Streams /\ Len(q.held) <= 1 /\ q.cursor <= Len(Segments) + 1
    /\ q.at \in {"prefetch", "fetch"} => q.cursor <= Len(Segments)
    /\ q.at = "prefetch" => HasPlan(t)
    /\ Ahead(q.held, Window)

\* An item of the window's period goes out.
Gives(t, n) ==
    /\ n \in Nat
    /\ channel' = [channel EXCEPT ![t] = Sent(t, <<Item(Window.idx, n)>>, period)]

LEMMA RunningIs ==
    ASSUME AnnouncedInv, NEW t \in Tracks, stream[t].at \notin Resting
    PROVE  /\ Typed /\ loop.at = "join" /\ Placed(t, stream[t])
           /\ Window.idx \in 1 .. Len(Mpd.periods) /\ Window.idx \in DOMAIN Mpd.periods
           /\ loop.pos <= Len(loop.windows) /\ InTick
           /\ Len(Segments) \in Nat /\ DOMAIN Segments = 1 .. Len(Segments)
           /\ \A n \in 1 .. Len(Segments) : Segments[n] = Segment(n)
           /\ session[t] \in Sessions /\ Tracker(t) \in Trackers
           /\ stream[t].cursor \in 1 .. Len(Segments) + 1
           /\ period = Mpd.periods[Window.idx].id /\ loop.last = Window.idx
<1>1. Typed /\ loop.at = "join" /\ stream[t] \in Streams /\ session[t] \in Sessions
  BY DEF AnnouncedInv, StreamInv, Typed
<1>2. Placed(t, stream[t])
  BY <1>1 DEF AnnouncedInv, StreamInv, Placed
<1>3. InTick /\ loop.pos <= Len(loop.windows) /\ loop.last = Window.idx /\ TickInv
  BY <1>1 DEF InTick, AnnouncedInv, TickInv, InPeriod
<1>4. Window.idx \in 1 .. Len(Mpd.periods) /\ Window.idx \in DOMAIN Mpd.periods
  BY <1>1, <1>3, WindowIs
<1>5. /\ Len(Segments) \in Nat /\ DOMAIN Segments = 1 .. Len(Segments)
      /\ \A n \in 1 .. Len(Segments) : Segments[n] = Segment(n)
  <2>1. Mpd.periods[Window.idx].count \in Nat
    BY <1>1, <1>4, TheMpd, MpdIs
  <2> QED BY <1>1, <1>4, <2>1, SegmentsAre DEF Segments
<1>6. Tracker(t) \in Trackers
  BY <1>1 DEF Tracker, Sessions
<1>7. stream[t].cursor \in 1 .. Len(Segments) + 1
  <2>1. stream[t].cursor \in Nat \ {0} /\ stream[t].cursor <= Len(Segments) + 1
    BY <1>1, <1>2 DEF Streams, Placed
  <2> QED BY <1>5, <2>1
<1>8. period = Mpd.periods[Window.idx].id
  <2>1. period = IF loop.last = 0 THEN NoId ELSE Mpd.periods[loop.last].id
    BY DEF AnnouncedInv, Snapshot
  <2>2. Window.idx # 0
    BY <1>4, <1>1, TheMpd, MpdIs
  <2> QED BY <1>3, <2>1, <2>2
<1> QED BY <1>1, <1>2, <1>3, <1>4, <1>5, <1>6, <1>7, <1>8

(* What a stream gives is of the period that was announced.                *)
LEMMA GivenIs ==
    ASSUME AnnouncedInv, NEW t \in Tracks, stream[t].at \notin Resting, NEW n, Gives(t, n)
    PROVE  /\ channel' \in [Tracks -> Seq(Items)]
           /\ Appended(channel[t], <<Item(Window.idx, n)>>, period, channel'[t])
           /\ Len(channel[t]) \in Nat /\ DOMAIN channel[t] = 1 .. Len(channel[t])
           /\ DOMAIN channel'[t] = 1 .. Len(channel[t]) + 1
           /\ \A k \in 1 .. Len(channel[t]) : channel'[t][k] = channel[t][k]
           /\ channel'[t][Len(channel[t]) + 1].period = period
           /\ channel'[t][Len(channel[t]) + 1].number = n
           /\ channel'[t][Len(channel[t]) + 1].under = period
           /\ \A u \in Tracks : u # t => channel'[u] = channel[u]
           /\ \A k \in DOMAIN channel'[t] :
                  \/ k \in DOMAIN channel[t] /\ channel'[t][k] = channel[t][k]
                  \/ channel'[t][k].period = period /\ channel'[t][k].under = period
<1> DEFINE items == <<Item(Window.idx, n)>>
<1>1. /\ Typed /\ n \in Nat /\ Window.idx \in DOMAIN Mpd.periods
      /\ period = Mpd.periods[Window.idx].id
      /\ channel' = [channel EXCEPT ![t] = Sent(t, items, period)]
      /\ channel \in [Tracks -> Seq(Items)]
  BY RunningIs DEF Gives, Typed
<1>2. /\ items \in Seq(Items) /\ Len(items) = 1 /\ items[1].period = period
      /\ items[1].number = n /\ period \in Names
  BY <1>1, ItemIs, TheMpd
<1> HIDE DEF items
<1>3. Appended(channel[t], items, period, channel'[t])
  BY <1>1, <1>2, SentIs
<1>4. channel'[t] \in Seq(Items)
  BY <1>3 DEF Appended
<1>5. channel' \in [Tracks -> Seq(Items)] /\ \A u \in Tracks : u # t => channel'[u] = channel[u]
  BY <1>1, <1>4
<1>6. /\ Len(channel[t]) \in Nat /\ DOMAIN channel[t] = 1 .. Len(channel[t])
      /\ DOMAIN channel'[t] = 1 .. Len(channel[t]) + 1
      /\ \A k \in 1 .. Len(channel[t]) : channel'[t][k] = channel[t][k]
      /\ channel'[t][Len(channel[t]) + 1].period = period
      /\ channel'[t][Len(channel[t]) + 1].number = n
      /\ channel'[t][Len(channel[t]) + 1].under = period
  BY <1>2, <1>3 DEF Appended
<1>7. ASSUME NEW k \in DOMAIN channel'[t]
      PROVE  \/ k \in DOMAIN channel[t] /\ channel'[t][k] = channel[t][k]
             \/ channel'[t][k].period = period /\ channel'[t][k].under = period
  <2>1. \A m \in 1 .. Len(items) : m = 1
    BY <1>2
  <2> QED BY <1>2, <1>3, <2>1, AppendedItem
<1> QED BY <1>3, <1>5, <1>6, <1>7 DEF items

(* A stream's step, as its place, its session and its channel show it.     *)
LEMMA StreamStepKeepsInv ==
    ASSUME AnnouncedInv, NEW t \in Tracks, stream[t].at \notin Resting, NEW q, Placed(t, q),
           UNCHANGED <<host, world, loop, holding, emitted, period>>,
           stream' = [stream EXCEPT ![t] = q],
           session' \in [Tracks -> Sessions],
           channel' = channel \/ \E n \in Nat : Gives(t, n)
    PROVE  AnnouncedInv'
<1>1. /\ Typed /\ loop.at = "join" /\ loop.last = Window.idx
      /\ Window.idx \in DOMAIN Mpd.periods /\ period = Mpd.periods[Window.idx].id
  BY RunningIs
<1>2. /\ Published' = Published /\ Mpd' = Mpd /\ Window' = Window /\ Segments' = Segments
      /\ \A u : HasPlan(u)' = HasPlan(u)
  BY DEF Published, Mpd, Window, Segments, SegmentsOf, HasPlan, Following
<1>3. channel' \in [Tracks -> Seq(Items)]
  BY <1>1, GivenIs DEF Typed
<1>4. /\ stream' \in [Tracks -> Streams] /\ stream'[t] = q
      /\ \A u \in Tracks : u # t => stream'[u] = stream[u]
  BY <1>1 DEF Typed, Placed
<1>5. Typed'
  BY <1>1, <1>2, <1>3, <1>4 DEF Typed
<1>6. Snapshot' /\ TickInv' /\ HoldingInv'
  BY <1>1, <1>2 DEF AnnouncedInv, Snapshot, TickInv, HoldingInv, InTick, InPeriod, Ahead
<1>7. ASSUME NEW u \in Tracks
      PROVE  StreamInv(u)'
  <2>1. CASE u = t
    BY <1>1, <1>2, <1>4, <2>1 DEF StreamInv, Placed, Ahead
  <2>2. CASE u # t
    BY <1>1, <1>2, <1>4, <2>2 DEF AnnouncedInv, StreamInv, Ahead
  <2> QED BY <2>1, <2>2
<1>8. (\A i : Told(i)' <=> Told(i)) /\ Told(Window.idx)
  BY <1>1, <1>2 DEF AnnouncedInv, ChannelInv, Told
<1>9. ChannelInv'
  <2>1. (loop.at = "join" => Told(loop.last))'
    BY <1>1, <1>8
  <2>2. ASSUME NEW u \in Tracks, NEW k \in DOMAIN channel'[u]
        PROVE  /\ channel'[u][k].under = channel'[u][k].period
               /\ \E i \in DOMAIN Mpd'.periods :
                      channel'[u][k].period = Mpd'.periods[i].id /\ Told(i)'
    <3>1. \/ k \in DOMAIN channel[u] /\ channel'[u][k] = channel[u][k]
          \/ channel'[u][k].period = period /\ channel'[u][k].under = period
      BY <2>2, GivenIs
    <3>2. CASE k \in DOMAIN channel[u] /\ channel'[u][k] = channel[u][k]
      BY <1>2, <1>8, <3>2 DEF AnnouncedInv, ChannelInv
    <3>3. CASE channel'[u][k].period = period /\ channel'[u][k].under = period
      BY <1>1, <1>2, <1>8, <3>3
    <3> QED BY <3>1, <3>2, <3>3
  <2> QED BY <2>1, <2>2 DEF ChannelInv
<1> QED BY <1>5, <1>6, <1>7, <1>9 DEF AnnouncedInv

\* The tracker once segment n of the Period that starts then is marked.
Marked(tracker, n, start, new) ==
    LET same == tracker.periodStart = start
        base == IF same THEN tracker.lastEnd ELSE 0
    IN  /\ new \in Trackers
        /\ new.keys = (IF same THEN tracker.keys ELSE {}) \cup {n}
        /\ new.lastEnd = IF base > n THEN base ELSE n
        /\ new.lastAbsEnd = IF tracker.lastAbsEnd > start + n THEN tracker.lastAbsEnd
                            ELSE start + n
        /\ new.periodStart = start

LEMMA MarkIs ==
    ASSUME NEW tracker \in Trackers, NEW n \in Nat \ {0}, NEW start \in Nat
    PROVE  Marked(tracker, n, start, MarkDelivered(tracker, Segment(n), start))
<1> DEFINE same == tracker.periodStart = start
           base == IF same THEN tracker.lastEnd ELSE 0
           keys == IF same THEN tracker.keys ELSE {}
           new == MarkDelivered(tracker, Segment(n), start)
           here == IF start = tracker.periodStart THEN tracker
                   ELSE [SoftReset(tracker) EXCEPT !.periodStart = start]
<1>1. /\ here \in Trackers /\ here.keys = keys /\ here.lastEnd = base
      /\ here.lastAbsEnd = tracker.lastAbsEnd /\ here.periodStart = start /\ here.urls = {}
  <2>1. CASE same
    BY <2>1 DEF Trackers
  <2>2. CASE ~same
    BY <2>2 DEF Trackers, SoftReset
  <2> QED BY <2>1, <2>2
<1>2. /\ Segment(n).key = n /\ Segment(n).url = NoUrl /\ SegEnd(Segment(n)) = n
  BY DEF Segment, SegEnd
<1> HIDE DEF here, keys, base
<1>3. PICK last \in Nat : last = IF base > n THEN base ELSE n
  BY <1>1 DEF Trackers
<1>4. PICK abs \in Nat : abs = IF tracker.lastAbsEnd > start + n THEN tracker.lastAbsEnd
                               ELSE start + n
  BY DEF Trackers
<1>5. new = [here EXCEPT !.keys = @ \cup {Segment(n).key},
                         !.urls = IF Segment(n).url = NoUrl THEN @ ELSE @ \cup {Segment(n).url},
                         !.lastEnd = Larger(@, SegEnd(Segment(n))),
                         !.lastAbsEnd = Larger(@, start + SegEnd(Segment(n)))]
  BY DEF MarkDelivered, here
<1>6. Larger(base, n) = last /\ Larger(tracker.lastAbsEnd, start + n) = abs
  BY <1>3, <1>4 DEF Larger
<1>7. new = [ keys |-> keys \cup {n}, urls |-> {}, lastEnd |-> last, lastAbsEnd |-> abs,
              periodStart |-> start ]
  <2> HIDE DEF new
  <2> QED BY <1>1, <1>2, <1>5, <1>6 DEF Trackers
<1>8. keys \in SUBSET Nat
  BY <1>1 DEF Trackers
<1> HIDE DEF new
<1>9. new \in Trackers
  BY <1>7, <1>8 DEF Trackers
<1> QED BY <1>3, <1>4, <1>7, <1>9 DEF Marked, new, keys, base

\* A stream that goes on elsewhere, with what it holds or without.
Moves(q, p) ==
    /\ p.at \in Places /\ p.gen = q.gen /\ p.cursor = q.cursor
    /\ p.held = q.held \/ p.held = <<>>
    /\ p = [at |-> p.at, gen |-> p.gen, cursor |-> p.cursor, held |-> p.held]

LEMMA MovesKeepPlace ==
    ASSUME NEW t, NEW q, NEW p, Placed(t, q), Moves(q, p), p.at \notin {"prefetch", "fetch"}
    PROVE  Placed(t, p)
<1>1. <<>> \in Seq(Items) /\ Len(<<>>) <= 1
  OBVIOUS
<1>2. /\ p.at \in Places /\ p.gen \in Nat /\ p.cursor \in Nat \ {0} /\ p.held \in Seq(Items)
      /\ Len(p.held) <= 1 /\ p.cursor <= Len(Segments) + 1
  BY <1>1 DEF Placed, Moves, Streams
<1>3. p = [at |-> p.at, gen |-> p.gen, cursor |-> p.cursor, held |-> p.held]
  BY DEF Moves
<1>4. p \in Streams
  <2>1. PICK at \in Places, gen \in Nat, cursor \in Nat \ {0}, held \in Seq(Items) :
            p = [at |-> at, gen |-> gen, cursor |-> cursor, held |-> held]
    BY <1>2, <1>3
  <2> QED BY <2>1 DEF Streams
<1>5. Ahead(p.held, Window)
  BY DEF Placed, Moves, Ahead
<1> QED BY <1>2, <1>4, <1>5 DEF Placed

LEMMA MoveIs ==
    ASSUME NEW q \in Streams, NEW at \in Places
    PROVE  /\ Moves(q, [q EXCEPT !.at = at]) /\ [q EXCEPT !.at = at].at = at
           /\ [q EXCEPT !.at = at].held = q.held /\ [q EXCEPT !.at = at].gen = q.gen
           /\ [q EXCEPT !.at = at].cursor = q.cursor
           /\ Moves(q, [q EXCEPT !.at = at, !.held = <<>>])
           /\ [q EXCEPT !.at = at, !.held = <<>>].at = at
           /\ [q EXCEPT !.at = at, !.held = <<>>].held = <<>>
           /\ [q EXCEPT !.at = at, !.held = <<>>].gen = q.gen
<1> DEFINE a1 == [q EXCEPT !.at = at]
           b1 == [a1 EXCEPT !.held = <<>>]
<1>5. a1 = [at |-> at, gen |-> q.gen, cursor |-> q.cursor, held |-> q.held]
  BY DEF Streams
<1> HIDE DEF a1
<1>6. b1 = [at |-> at, gen |-> q.gen, cursor |-> q.cursor, held |-> <<>>]
  BY <1>5
<1>1. /\ [q EXCEPT !.at = at] = [at |-> at, gen |-> q.gen, cursor |-> q.cursor, held |-> q.held]
      /\ [q EXCEPT !.at = at, !.held = <<>>]
             = [at |-> at, gen |-> q.gen, cursor |-> q.cursor, held |-> <<>>]
  BY <1>5, <1>6, Zenon DEF a1
<1> HIDE DEF b1
<1>2. PICK a, b : a = [q EXCEPT !.at = at] /\ b = [q EXCEPT !.at = at, !.held = <<>>]
  OBVIOUS
<1>3. /\ a.at = at /\ a.gen = q.gen /\ a.cursor = q.cursor /\ a.held = q.held
      /\ b.at = at /\ b.gen = q.gen /\ b.cursor = q.cursor /\ b.held = <<>>
      /\ a = [at |-> a.at, gen |-> a.gen, cursor |-> a.cursor, held |-> a.held]
      /\ b = [at |-> b.at, gen |-> b.gen, cursor |-> b.cursor, held |-> b.held]
  BY <1>1, <1>2
<1>4. Moves(q, a) /\ Moves(q, b)
  BY <1>3 DEF Moves
<1> QED BY <1>2, <1>3, <1>4, Zenon

LEMMA EntersIs ==
    ASSUME NEW q \in Streams, NEW at, NEW n
    PROVE  [q EXCEPT !.cursor = n, !.at = at]
               = [at |-> at, gen |-> q.gen, cursor |-> n, held |-> q.held]
<1> DEFINE one == [q EXCEPT !.cursor = n]
<1>1. one = [at |-> q.at, gen |-> q.gen, cursor |-> n, held |-> q.held]
  BY DEF Streams
<1> HIDE DEF one
<1>2. [one EXCEPT !.at = at] = [at |-> at, gen |-> q.gen, cursor |-> n, held |-> q.held]
  BY <1>1
<1> QED BY <1>2, Zenon DEF one

LEMMA InitStepKeepsInv ==
    ASSUME AnnouncedInv, NEW t \in Tracks, InitFetched(t) \/ InitFails(t) \/ FetchFails(t)
    PROVE  AnnouncedInv'
<1> DEFINE q == stream[t]
           p(at) == [q EXCEPT !.at = at]
<1>1. q.at \notin Resting
  BY DEF InitFetched, InitFails, FetchFails, Resting
<1>2. Placed(t, q) /\ q \in Streams /\ Typed /\ session[t] \in Sessions
  BY <1>1, RunningIs DEF Placed
<1>3. ASSUME NEW at \in {"head", "raised"}
      PROVE  Placed(t, p(at))
  <2>1. at \in Places /\ at \notin {"prefetch", "fetch"}
    BY <1>3 DEF Places
  <2>2. Moves(q, p(at)) /\ p(at).at = at
    BY <1>2, <2>1, MoveIs
  <2> QED BY <1>2, <2>1, <2>2, MovesKeepPlace
<1>4. CASE InitFetched(t)
  <2>1. /\ stream' = [stream EXCEPT ![t] = p("head")] /\ session' = session
        /\ UNCHANGED <<host, world, loop, holding, emitted, period>> /\ Gives(t, 0)
    BY <1>2, <1>4 DEF InitFetched, Gives, Typed
  <2>2. Placed(t, p("head")) /\ session' \in [Tracks -> Sessions] /\ 0 \in Nat
    BY <1>2, <1>3, <2>1 DEF Typed
  <2> HIDE DEF p
  <2> QED BY <1>1, <2>1, <2>2, StreamStepKeepsInv
<1>5. CASE InitFails(t) \/ FetchFails(t)
  <2>1. /\ stream' = [stream EXCEPT ![t] = p("raised")] /\ channel' = channel
        /\ UNCHANGED <<host, world, loop, holding, emitted, period>>
        /\ session' = session \/ session' = [session EXCEPT ![t] = [session[t] EXCEPT !.haveInit = FALSE]]
    BY <1>2, <1>5 DEF InitFails, FetchFails, Step, Typed
  <2>2. [session[t] EXCEPT !.haveInit = FALSE] \in Sessions
    BY <1>2 DEF Sessions
  <2>3. Placed(t, p("raised")) /\ session' \in [Tracks -> Sessions]
    BY <1>2, <1>3, <2>1, <2>2 DEF Typed
  <2> HIDE DEF p
  <2> QED BY <1>1, <2>1, <2>3, StreamStepKeepsInv
<1> QED BY <1>4, <1>5

\* Where the head of the loop finds the stream.
NextAt(t) == AdvanceStartIndex(Tracker(t), Segments, stream[t].cursor, Window.start)

(* What the loop's head does of a stream.                                  *)
LEMMA HeadIs ==
    ASSUME AnnouncedInv, NEW t \in Tracks, LoopHead(t)
    PROVE  /\ stream[t].at = "head" /\ stream[t] \in Streams
           /\ UNCHANGED <<host, world, loop, session, holding, emitted, channel, period>>
           /\ stream' = [stream EXCEPT ![t] = stream'[t]] /\ stream'[t].gen = stream[t].gen
           /\ NextAt(t) \in 1 .. Len(Segments) + 1 /\ stream'[t] \in Streams
           /\ \/ /\ NextAt(t) = Len(Segments) + 1 /\ stream'[t].at = "returned"
                 /\ stream'[t].held = stream[t].held /\ Moves(stream[t], stream'[t])
              \/ /\ Interrupted(t) /\ stream'[t].at = "returned" /\ stream'[t].held = <<>>
                 /\ Moves(stream[t], stream'[t])
              \/ /\ ~Interrupted(t)
                 /\ NextAt(t) <= Len(Segments)
                 /\ stream'[t].cursor = NextAt(t) /\ stream'[t].held = stream[t].held
                 /\ stream'[t].at = IF /\ stream[t].held = <<>> /\ HasPlan(t)
                                       /\ Tracker(t).lastAbsEnd >= Window.end - SyncDepth
                                    THEN "prefetch" ELSE "fetch"
<1> DEFINE q == stream[t]
           next == NextAt(t)
           to == IF /\ stream[t].held = <<>> /\ HasPlan(t)
                    /\ Tracker(t).lastAbsEnd >= Window.end - SyncDepth
                 THEN "prefetch" ELSE "fetch"
<1>1. q.at = "head" /\ q.at \notin Resting
  BY DEF LoopHead, Resting
<1>2. Placed(t, q) /\ q \in Streams /\ Typed /\ Len(Segments) \in Nat /\ stream \in [Tracks -> Streams]
  BY <1>1, RunningIs DEF Placed, Typed
<1>3. next \in 1 .. Len(Segments) + 1
  <2>1. q.cursor \in Nat \ {0}
    BY <1>2 DEF Streams
  <2> QED BY <1>2, <2>1, AdvanceIs DEF NextAt
<1>4. "returned" \in Places /\ to \in Places
  BY DEF Places
<1>5. CASE next > Len(Segments)
  <2>1. Step(t, [q EXCEPT !.at = "returned"])
    BY <1>5 DEF LoopHead, NextAt
  <2>2. /\ Moves(q, [q EXCEPT !.at = "returned"])
        /\ [q EXCEPT !.at = "returned"].at = "returned"
        /\ [q EXCEPT !.at = "returned"].held = q.held
        /\ [q EXCEPT !.at = "returned"].gen = q.gen
        /\ [q EXCEPT !.at = "returned"] \in Streams
    BY <1>2, <1>4, MoveIs DEF Streams
  <2>3. stream'[t] = [q EXCEPT !.at = "returned"]
    BY <1>2, <2>1 DEF Step
  <2>4. next = Len(Segments) + 1
    BY <1>2, <1>3, <1>5
  <2> HIDE DEF next
  <2> QED BY <1>1, <1>2, <1>3, <2>1, <2>2, <2>3, <2>4 DEF Step, next
<1>6. CASE next <= Len(Segments) /\ Interrupted(t)
  <2>1. Step(t, [q EXCEPT !.at = "returned", !.held = <<>>])
    BY <1>2, <1>3, <1>6 DEF LoopHead, NextAt, Return
  <2>2. /\ Moves(q, [q EXCEPT !.at = "returned", !.held = <<>>])
        /\ [q EXCEPT !.at = "returned", !.held = <<>>].at = "returned"
        /\ [q EXCEPT !.at = "returned", !.held = <<>>].held = <<>>
        /\ [q EXCEPT !.at = "returned", !.held = <<>>].gen = q.gen
    BY <1>2, <1>4, MoveIs
  <2>3. [q EXCEPT !.at = "returned", !.held = <<>>] \in Streams
    <3>1. <<>> \in Seq(Items)
      OBVIOUS
    <3> QED BY <1>2, <1>4, <3>1 DEF Streams
  <2>4. stream'[t] = [q EXCEPT !.at = "returned", !.held = <<>>]
    BY <1>2, <2>1 DEF Step
  <2> HIDE DEF next
  <2> QED BY <1>1, <1>2, <1>3, <1>6, <2>1, <2>2, <2>3, <2>4 DEF Step, next
<1>7. CASE next <= Len(Segments) /\ ~Interrupted(t)
  <2>1. PICK n \in 1 .. Len(Segments) + 1 : n = next
    BY <1>3
  <2>2. Step(t, [q EXCEPT !.cursor = n, !.at = to])
    BY <1>2, <1>3, <1>7, <2>1 DEF LoopHead, NextAt
  <2> HIDE DEF to
  <2>3. [q EXCEPT !.cursor = n, !.at = to]
            = [at |-> to, gen |-> q.gen, cursor |-> n, held |-> q.held]
    <3>1. q \in Streams
      BY <1>2
    <3> QED BY <3>1, EntersIs, Zenon
  <2>4. stream'[t] = [at |-> to, gen |-> q.gen, cursor |-> n, held |-> q.held]
    BY <1>2, <2>2, <2>3 DEF Step
  <2>5. n \in Nat \ {0} /\ q.gen \in Nat /\ q.held \in Seq(Items)
    BY <1>2, <2>1 DEF Streams
  <2>6. /\ stream'[t] \in Streams /\ stream'[t].gen = q.gen /\ stream'[t].at = to
        /\ stream'[t].cursor = n /\ stream'[t].held = q.held
    BY <1>4, <2>4, <2>5 DEF Streams
  <2>7. stream' = [stream EXCEPT ![t] = stream'[t]]
    BY <1>2, <2>2, <2>3, <2>4 DEF Step
  <2> HIDE DEF next
  <2> QED BY <1>1, <1>2, <1>3, <1>7, <2>1, <2>2, <2>6, <2>7 DEF Step, next, to
<1>8. next > Len(Segments) \/ next <= Len(Segments)
  BY <1>2, <1>3
<1> QED BY <1>5, <1>6, <1>7, <1>8

LEMMA LoopHeadKeepsInv ==
    ASSUME AnnouncedInv, NEW t \in Tracks, LoopHead(t)
    PROVE  AnnouncedInv'
<1> DEFINE p == stream'[t]
           next == NextAt(t)
<1>1. stream[t].at \notin Resting
  BY DEF LoopHead, Resting
<1>2. Placed(t, stream[t]) /\ Typed /\ Len(Segments) \in Nat
  BY <1>1, RunningIs
<1>3. next \in 1 .. Len(Segments) + 1 /\ p \in Streams
  BY HeadIs
<1>4. \/ Moves(stream[t], p) /\ p.at = "returned"
      \/ /\ p.held = stream[t].held /\ p.cursor = next /\ next <= Len(Segments)
         /\ p.at \in {"prefetch", "fetch"} /\ (p.at = "prefetch" => HasPlan(t))
  BY HeadIs
<1> HIDE DEF p, next
<1>5. Placed(t, p)
  <2>1. CASE Moves(stream[t], p) /\ p.at = "returned"
    BY <1>2, <2>1, MovesKeepPlace
  <2>2. CASE /\ p.held = stream[t].held /\ p.cursor = next /\ next <= Len(Segments)
             /\ p.at \in {"prefetch", "fetch"} /\ (p.at = "prefetch" => HasPlan(t))
    <3>1. next <= Len(Segments) + 1
      BY <1>2, <1>3
    <3> QED BY <1>2, <1>3, <2>2, <3>1 DEF Placed
  <2> QED BY <1>4, <2>1, <2>2
<1>6. session' \in [Tracks -> Sessions]
  BY <1>2, HeadIs DEF Typed
<1>7. /\ stream' = [stream EXCEPT ![t] = p] /\ channel' = channel
      /\ UNCHANGED <<host, world, loop, holding, emitted, period>>
  BY HeadIs DEF p
<1> QED BY <1>1, <1>5, <1>6, <1>7, StreamStepKeepsInv

LEMMA SessionMarks ==
    ASSUME Typed, NEW t \in Tracks, NEW n \in Nat \ {0}, NEW start \in Nat,
           session' = [session EXCEPT
               ![t].tracker = MarkDelivered(session[t].tracker, Segment(n), start)]
    PROVE  /\ session' \in [Tracks -> Sessions]
           /\ session'[t].tracker = MarkDelivered(Tracker(t), Segment(n), start)
           /\ session'[t].haveInit = session[t].haveInit
           /\ \A u \in Tracks : u # t => session'[u] = session[u]
<1>1. session \in [Tracks -> Sessions] /\ session[t] \in Sessions
  BY DEF Typed
<1>2. session[t].tracker \in Trackers
  BY <1>1 DEF Sessions
<1>3. PICK new \in Trackers : new = MarkDelivered(session[t].tracker, Segment(n), start)
  BY <1>2, MarkIs DEF Marked
<1>4. session' = [session EXCEPT ![t] = [session[t] EXCEPT !.tracker = new]]
  BY <1>1, <1>3
<1>5. /\ [session[t] EXCEPT !.tracker = new] \in Sessions
      /\ [session[t] EXCEPT !.tracker = new].tracker = new
      /\ [session[t] EXCEPT !.tracker = new].haveInit = session[t].haveInit
  BY <1>1, <1>3 DEF Sessions
<1> QED BY <1>1, <1>3, <1>4, <1>5 DEF Tracker

(* What is fetched ahead: the first segment of the Period behind the       *)
(* window's that is not delivered.                                         *)
LEMMA PrefetchedIs ==
    ASSUME AnnouncedInv, NEW t \in Tracks, Prefetched(t)
    PROVE  LET j     == Window.idx + 1
               start == WindowsOf(Mpd)[j].start
               ahead == SegmentsOf(j, start)
               first == AdvanceStartIndex(Tracker(t), ahead, 1, start)
           IN  /\ stream[t].at = "prefetch" /\ stream[t] \in Streams /\ HasPlan(t)
               /\ j = Following /\ Window.end # NoTime
               /\ j \in 1 .. Len(Mpd.periods) /\ j \in DOMAIN Mpd.periods /\ start \in Nat
               /\ Len(ahead) \in Nat /\ DOMAIN ahead = 1 .. Len(ahead)
               /\ \A n \in 1 .. Len(ahead) : ahead[n] = Segment(n)
               /\ first \in 1 .. Len(ahead) + 1
               /\ UNCHANGED <<host, world, loop, holding, emitted, channel, period>>
               /\ stream' = [stream EXCEPT ![t] = stream'[t]] /\ stream'[t] \in Streams
               /\ stream'[t].at = "fetch" /\ stream'[t].gen = stream[t].gen
               /\ stream'[t].cursor = stream[t].cursor
               /\ session' \in [Tracks -> Sessions]
               /\ \A u \in Tracks : u # t => session'[u] = session[u]
               /\ session'[t].haveInit = session[t].haveInit
               /\ \/ /\ first = Len(ahead) + 1 /\ session' = session
                     /\ stream'[t].held = stream[t].held
                  \/ /\ first \in 1 .. Len(ahead)
                     /\ stream'[t].held = <<Item(j, first)>>
                     /\ session'[t].tracker = MarkDelivered(Tracker(t), Segment(first), start)
<1> DEFINE q == stream[t]
           j == Window.idx + 1
           start == WindowsOf(Mpd)[j].start
           ahead == SegmentsOf(j, start)
           first == AdvanceStartIndex(Tracker(t), ahead, 1, start)
<1>1. q.at = "prefetch" /\ q.at \notin Resting
  BY DEF Prefetched, Resting
<1>2. /\ Typed /\ q \in Streams /\ HasPlan(t) /\ InTick /\ loop.pos <= Len(loop.windows) /\ TickInv
      /\ stream \in [Tracks -> Streams] /\ session \in [Tracks -> Sessions]
  BY <1>1, RunningIs DEF Placed, AnnouncedInv, Typed
<1>3. /\ j = Following /\ Window.end # NoTime /\ j \in 1 .. Len(Mpd.periods)
      /\ j \in DOMAIN Mpd.periods
  <2>1. Following # 0 /\ Window.end # NoTime
    BY <1>2 DEF HasPlan
  <2>2. /\ Window.idx \in 1 .. Len(Mpd.periods) /\ Len(Mpd.periods) \in Nat
        /\ Following = IF Window.idx < Len(Mpd.periods) THEN Window.idx + 1 ELSE 0
        /\ DOMAIN Mpd.periods = 1 .. Len(Mpd.periods)
    BY <1>2, WindowIs
  <2> QED BY <2>1, <2>2
<1>4. start \in Nat
  <2>1. WindowsOf(Mpd)[j] \in Windows
    BY <1>2, <1>3, TheMpd, WindowsAre
  <2> QED BY <2>1 DEF Windows
<1> HIDE DEF j, start
<1>5. /\ Len(ahead) \in Nat /\ DOMAIN ahead = 1 .. Len(ahead)
      /\ \A n \in 1 .. Len(ahead) : ahead[n] = Segment(n)
  <2>1. Mpd.periods[j].count \in Nat
    BY <1>2, <1>3, TheMpd, MpdIs
  <2> QED BY <1>2, <1>3, <2>1, SegmentsAre
<1> HIDE DEF ahead
<1>6. first \in 1 .. Len(ahead) + 1
  BY <1>5, AdvanceIs
<1>7. UNCHANGED <<host, world, loop, holding, emitted, channel, period>>
  BY DEF Prefetched
<1>8. /\ first > Len(ahead) => stream' = [stream EXCEPT ![t].at = "fetch"] /\ session' = session
      /\ ~(first > Len(ahead)) =>
             /\ stream' = [stream EXCEPT ![t].at = "fetch",
                                         ![t].held = <<Item(j, ahead[first].key)>>]
             /\ session' = [session EXCEPT
                    ![t].tracker = MarkDelivered(session[t].tracker, ahead[first], start)]
  BY <1>3 DEF Prefetched, ahead, start, j
<1> HIDE DEF first
<1>9. CASE first > Len(ahead)
  <2>1. stream' = [stream EXCEPT ![t] = [q EXCEPT !.at = "fetch"]] /\ session' = session
    BY <1>2, <1>8, <1>9
  <2>2. stream'[t] = [q EXCEPT !.at = "fetch"] /\ stream' = [stream EXCEPT ![t] = stream'[t]]
    BY <1>2, <2>1
  <2>3. /\ stream'[t] \in Streams /\ stream'[t].at = "fetch" /\ stream'[t].gen = q.gen
        /\ stream'[t].cursor = q.cursor /\ stream'[t].held = q.held
    BY <1>2, <2>2 DEF Streams, Places
  <2>4. first = Len(ahead) + 1
    BY <1>5, <1>6, <1>9
  <2>5. session' \in [Tracks -> Sessions] /\ \A u \in Tracks : session'[u] = session[u]
    BY <1>2, <2>1
  <2> QED
    BY <1>1, <1>2, <1>3, <1>4, <1>5, <1>6, <1>7, <2>1, <2>2, <2>3, <2>4, <2>5
    DEF first, ahead, start, j
<1>10. CASE ~(first > Len(ahead))
  <2>1. first \in 1 .. Len(ahead)
    BY <1>5, <1>6, <1>10
  <2>2. ahead[first] = Segment(first) /\ Segment(first).key = first
    BY <1>5, <2>1 DEF Segment
  <2>3. PICK held : held = <<Item(j, first)>>
    OBVIOUS
  <2>4. held \in Seq(Items)
    BY <1>2, <1>3, <2>1, <2>3, ItemIs
  <2>5. stream' = [stream EXCEPT ![t] = [q EXCEPT !.at = "fetch", !.held = held]]
    BY <1>2, <1>8, <1>10, <2>2, <2>3
  <2>6. stream'[t] = [q EXCEPT !.at = "fetch", !.held = held]
        /\ stream' = [stream EXCEPT ![t] = stream'[t]]
    BY <1>2, <2>5
  <2>7. /\ stream'[t] \in Streams /\ stream'[t].at = "fetch" /\ stream'[t].gen = q.gen
        /\ stream'[t].cursor = q.cursor /\ stream'[t].held = held
    BY <1>2, <2>4, <2>6 DEF Streams, Places
  <2>8. session' = [session EXCEPT
            ![t].tracker = MarkDelivered(session[t].tracker, Segment(first), start)]
    BY <1>8, <1>10, <2>2
  <2>9. first \in Nat \ {0}
    BY <2>1
  <2>10. /\ session' \in [Tracks -> Sessions]
         /\ session'[t].tracker = MarkDelivered(Tracker(t), Segment(first), start)
         /\ session'[t].haveInit = session[t].haveInit
         /\ \A u \in Tracks : u # t => session'[u] = session[u]
    BY <1>2, <1>4, <2>8, <2>9, SessionMarks
  <2> QED
    BY <1>1, <1>2, <1>3, <1>4, <1>5, <1>6, <1>7, <2>1, <2>3, <2>6, <2>7, <2>10
    DEF first, ahead, start, j
<1> QED BY <1>9, <1>10

LEMMA PrefetchedKeepsInv ==
    ASSUME AnnouncedInv, NEW t \in Tracks, Prefetched(t)
    PROVE  AnnouncedInv'
<1> DEFINE p == stream'[t]
<1>1. stream[t].at \notin Resting /\ stream[t].at = "prefetch"
  BY DEF Prefetched, Resting
<1>2. Placed(t, stream[t]) /\ Typed /\ Len(Segments) \in Nat
  BY <1>1, RunningIs
<1>3. /\ p \in Streams /\ p.at = "fetch" /\ p.cursor = stream[t].cursor
      /\ session' \in [Tracks -> Sessions] /\ stream' = [stream EXCEPT ![t] = p]
      /\ UNCHANGED <<host, world, loop, holding, emitted, channel, period>>
  BY PrefetchedIs
<1>4. \/ p.held = stream[t].held
      \/ \E n \in Nat : p.held = <<Item(Window.idx + 1, n)>>
  BY PrefetchedIs
<1>5. /\ Window.idx + 1 \in DOMAIN Mpd.periods /\ Window.idx < Len(Mpd.periods)
      /\ Window.end # NoTime /\ ~IsBeforeSeek(Window, loop.override)
  <2>1. loop.at = "join" /\ Window.idx \in 1 .. Len(Mpd.periods)
    BY <1>1, RunningIs
  <2>2. Window.idx + 1 \in 1 .. Len(Mpd.periods) /\ Window.end # NoTime
        /\ Window.idx + 1 \in DOMAIN Mpd.periods
    BY PrefetchedIs
  <2> QED BY <2>1, <2>2 DEF AnnouncedInv, TickInv, InPeriod
<1> HIDE DEF p
<1>6. Len(p.held) <= 1 /\ Ahead(p.held, Window)
  <2>1. CASE p.held = stream[t].held
    BY <1>2, <2>1 DEF Placed
  <2>2. CASE \E n \in Nat : p.held = <<Item(Window.idx + 1, n)>>
    <3>1. PICK n \in Nat : p.held = <<Item(Window.idx + 1, n)>>
      BY <2>2
    <3>2. Len(p.held) = 1 /\ p.held[1].period = Mpd.periods[Window.idx + 1].id
      BY <1>2, <1>5, <3>1, ItemIs
    <3> QED BY <1>5, <3>2 DEF Ahead
  <2> QED BY <1>4, <2>1, <2>2
<1>7. Placed(t, p)
  BY <1>1, <1>2, <1>3, <1>6 DEF Placed
<1> QED BY <1>1, <1>3, <1>7, StreamStepKeepsInv

(* What a delivery does.                                                   *)
LEMMA DeliverIs ==
    ASSUME AnnouncedInv, NEW t \in Tracks, Deliver(t)
    PROVE  LET c == stream[t].cursor
           IN  /\ stream[t].at = "fetch" /\ stream[t] \in Streams
               /\ c \in 1 .. Len(Segments) /\ Window.start \in Nat
               /\ UNCHANGED <<host, world, loop, holding, emitted, period>>
               /\ stream' = [stream EXCEPT ![t] = stream'[t]] /\ stream'[t] \in Streams
               /\ stream'[t].gen = stream[t].gen
               /\ \/ /\ Interrupted(t) /\ stream'[t].at = "returned"
                     /\ stream'[t].held = <<>> /\ Moves(stream[t], stream'[t])
                     /\ UNCHANGED <<session, channel>>
                  \/ /\ ~Interrupted(t) /\ stream'[t].at = "head" /\ stream'[t].cursor = c + 1
                     /\ stream'[t].held = stream[t].held /\ Gives(t, c)
                     /\ session'[t].tracker = MarkDelivered(Tracker(t), Segment(c), Window.start)
                     /\ session'[t].haveInit = session[t].haveInit
                     /\ \A u \in Tracks : u # t => session'[u] = session[u]
               /\ session' \in [Tracks -> Sessions]
<1> DEFINE q == stream[t]
           c == q.cursor
<1>1. q.at = "fetch" /\ q.at \notin Resting
  BY DEF Deliver, Resting
<1>2. /\ Typed /\ q \in Streams /\ Placed(t, q) /\ stream \in [Tracks -> Streams]
      /\ session \in [Tracks -> Sessions]
      /\ Len(Segments) \in Nat /\ \A n \in 1 .. Len(Segments) : Segments[n] = Segment(n)
      /\ q.cursor \in 1 .. Len(Segments) + 1
  BY <1>1, RunningIs DEF Placed, Typed
<1>3. c \in 1 .. Len(Segments) /\ c \in Nat \ {0}
  BY <1>1, <1>2 DEF Placed
<1>4. Segments[c] = Segment(c) /\ Segments[c].key = c
  BY <1>2, <1>3 DEF Segment
<1>5. Window.start \in Nat
  <2>1. Window \in Windows
    BY <1>1, RunningIs, WindowIs DEF AnnouncedInv
  <2> QED BY <2>1 DEF Windows
<1>6. CASE Interrupted(t)
  <2>1. Return(t)
    BY <1>6 DEF Deliver
  <2>2. /\ stream' = [stream EXCEPT ![t] = [q EXCEPT !.at = "returned", !.held = <<>>]]
        /\ UNCHANGED <<host, world, loop, session, holding, emitted, channel, period>>
    BY <2>1 DEF Return, Step
  <2>3. stream'[t] = [q EXCEPT !.at = "returned", !.held = <<>>]
    BY <1>2, <2>2
  <2>4. "returned" \in Places /\ <<>> \in Seq(Items)
    BY DEF Places
  <2>5. /\ Moves(q, stream'[t]) /\ stream'[t].at = "returned" /\ stream'[t].held = <<>>
        /\ stream'[t].gen = q.gen
    <3>1. /\ Moves(q, [q EXCEPT !.at = "returned", !.held = <<>>])
          /\ [q EXCEPT !.at = "returned", !.held = <<>>].at = "returned"
          /\ [q EXCEPT !.at = "returned", !.held = <<>>].held = <<>>
          /\ [q EXCEPT !.at = "returned", !.held = <<>>].gen = q.gen
      BY <1>2, <2>4, MoveIs
    <3> QED BY <2>3, <3>1
  <2>6. stream'[t] \in Streams
    BY <1>2, <2>3, <2>4 DEF Streams
  <2>7. stream' = [stream EXCEPT ![t] = stream'[t]] /\ session' \in [Tracks -> Sessions]
    BY <1>2, <2>2, <2>3
  <2> QED BY <1>1, <1>2, <1>3, <1>5, <1>6, <2>2, <2>5, <2>6, <2>7
<1>7. CASE ~Interrupted(t)
  <2>1. /\ channel' = [channel EXCEPT ![t] = Sent(t, <<Item(Window.idx, Segments[c].key)>>, period)]
        /\ session' = [session EXCEPT
               ![t].tracker = MarkDelivered(session[t].tracker, Segments[c], Window.start)]
        /\ stream' = [stream EXCEPT ![t].at = "head", ![t].cursor = c + 1]
        /\ UNCHANGED <<host, world, loop, holding, emitted, period>>
    BY <1>2, <1>7 DEF Deliver
  <2>2. Gives(t, c)
    BY <1>3, <1>4, <2>1 DEF Gives
  <2>3. /\ session' \in [Tracks -> Sessions]
        /\ session'[t].tracker = MarkDelivered(Tracker(t), Segment(c), Window.start)
        /\ session'[t].haveInit = session[t].haveInit
        /\ \A u \in Tracks : u # t => session'[u] = session[u]
    BY <1>2, <1>3, <1>4, <1>5, <2>1, SessionMarks
  <2>4. PICK n \in Nat \ {0} : n = c + 1
    BY <1>3
  <2>5. stream' = [stream EXCEPT ![t] = [q EXCEPT !.cursor = n, !.at = "head"]]
    <3>1. stream' = [stream EXCEPT ![t] = [q EXCEPT !.at = "head", !.cursor = n]]
      BY <1>2, <2>1, <2>4
    <3>2. [q EXCEPT !.at = "head", !.cursor = n] = [q EXCEPT !.cursor = n, !.at = "head"]
      BY <1>2 DEF Streams
    <3> QED BY <3>1, <3>2
  <2>6. [q EXCEPT !.cursor = n, !.at = "head"]
            = [at |-> "head", gen |-> q.gen, cursor |-> n, held |-> q.held]
    BY <1>2, EntersIs
  <2>7. stream'[t] = [at |-> "head", gen |-> q.gen, cursor |-> n, held |-> q.held]
    BY <1>2, <2>5, <2>6
  <2>8. "head" \in Places /\ q.gen \in Nat /\ q.held \in Seq(Items)
    BY <1>2 DEF Places, Streams
  <2>9. /\ stream'[t] \in Streams /\ stream'[t].at = "head" /\ stream'[t].gen = q.gen
        /\ stream'[t].cursor = n /\ stream'[t].held = q.held
    BY <2>7, <2>8 DEF Streams
  <2>10. stream' = [stream EXCEPT ![t] = stream'[t]]
    BY <1>2, <2>5, <2>6, <2>7
  <2> QED BY <1>1, <1>2, <1>3, <1>5, <1>7, <2>1, <2>2, <2>3, <2>4, <2>9, <2>10
<1> QED BY <1>6, <1>7

LEMMA DeliverKeepsInv ==
    ASSUME AnnouncedInv, NEW t \in Tracks, Deliver(t)
    PROVE  AnnouncedInv'
<1> DEFINE p == stream'[t]
           c == stream[t].cursor
<1>1. stream[t].at \notin Resting
  BY DEF Deliver, Resting
<1>2. Placed(t, stream[t]) /\ Typed /\ Len(Segments) \in Nat
  BY <1>1, RunningIs
<1>3. /\ p \in Streams /\ stream' = [stream EXCEPT ![t] = p]
      /\ session' \in [Tracks -> Sessions]
      /\ UNCHANGED <<host, world, loop, holding, emitted, period>>
      /\ c \in 1 .. Len(Segments)
      /\ channel' = channel \/ Gives(t, c)
      /\ \/ Moves(stream[t], p) /\ p.at = "returned"
         \/ p.at = "head" /\ p.cursor = c + 1 /\ p.held = stream[t].held
  BY DeliverIs
<1> HIDE DEF p, c
<1>4. Placed(t, p)
  <2>1. CASE Moves(stream[t], p) /\ p.at = "returned"
    BY <1>2, <2>1, MovesKeepPlace
  <2>2. CASE p.at = "head" /\ p.cursor = c + 1 /\ p.held = stream[t].held
    BY <1>2, <1>3, <2>2 DEF Placed
  <2> QED BY <1>3, <2>1, <2>2
<1>5. channel' = channel \/ \E n \in Nat : Gives(t, n)
  BY <1>2, <1>3
<1> QED BY <1>1, <1>3, <1>4, <1>5, StreamStepKeepsInv

-----------------------------------------------------------------------------
(* The theorem.                                                            *)

LEMMA InitHasInv == Init => AnnouncedInv
<1> SUFFICES ASSUME Init PROVE AnnouncedInv
  OBVIOUS
<1>1. PICK k \in DOMAIN Presentations : world = [kind |-> k, now |-> 0]
  BY DEF Init
<1>2. /\ world \in Worlds /\ world.kind \in DOMAIN Presentations /\ world.now = 0
  BY <1>1 DEF Worlds
<1>3. loop = [at |-> "top", snapshot |-> 1, now |-> NoTime, windows |-> <<>>, pos |-> 1,
              last |-> 0, override |-> NoTime, gen |-> 0]
  BY DEF Init
<1>4. <<>> \in Seq(Windows) /\ <<>> \in Seq(Items) /\ Len(<<>>) = 0
  OBVIOUS
<1>5. /\ loop \in Loops /\ loop.at = "top" /\ loop.snapshot = 1 /\ loop.pos = 1
      /\ loop.last = 0 /\ loop.windows = <<>>
  BY <1>3, <1>4 DEF Loops
<1>6. 1 \in DOMAIN Published /\ IsMpd(Published[1]) /\ Published[1].published = 0
  <2>1. /\ Published \in Seq({Published[i] : i \in DOMAIN Published}) /\ Published # <<>>
        /\ Published[1].published = 0 /\ \A v \in DOMAIN Published : IsMpd(Published[v])
    BY <1>2, PublishedIs
  <2>2. 1 \in DOMAIN Published
    BY <2>1
  <2> QED BY <2>1, <2>2
<1>7. Mpd = Published[1] /\ Len(Mpd.periods) \in Nat
  BY <1>5, <1>6, MpdIs DEF Mpd
<1>8. NewSession \in Sessions /\ Idle \in Streams
  BY <1>4, TrackerIs DEF NewSession, Sessions, Idle, Streams, Places
<1>9. /\ session = [t \in Tracks |-> NewSession] /\ stream = [t \in Tracks |-> Idle]
      /\ holding = [t \in Tracks |-> <<>>] /\ channel = [t \in Tracks |-> <<>>]
      /\ host = [stopped |-> FALSE, listening |-> TRUE, seekTarget |-> NoTime, seekGen |-> 0]
      /\ period = NoId
  BY DEF Init
<1>10. Typed
  <2>1. host \in Hosts
    BY <1>9 DEF Hosts
  <2>2. /\ session \in [Tracks -> Sessions] /\ stream \in [Tracks -> Streams]
        /\ holding \in [Tracks -> Seq(Items)] /\ channel \in [Tracks -> Seq(Items)]
    BY <1>4, <1>8, <1>9
  <2> QED BY <1>2, <1>5, <1>6, <2>1, <2>2 DEF Typed
<1>11. Snapshot /\ TickInv
  BY <1>2, <1>4, <1>5, <1>6, <1>7, <1>9 DEF Snapshot, TickInv, InTick, InPeriod
<1>12. \A t \in Tracks : StreamInv(t)
  BY <1>4, <1>5, <1>9 DEF StreamInv, Idle, Resting
<1>13. HoldingInv
  BY <1>4, <1>5, <1>9 DEF HoldingInv, InPeriod
<1>14. ChannelInv
  BY <1>5, <1>9 DEF ChannelInv
<1> QED BY <1>10, <1>11, <1>12, <1>13, <1>14 DEF AnnouncedInv

LEMMA NextKeepsInv == AnnouncedInv /\ [Next]_vars => AnnouncedInv'
<1> SUFFICES ASSUME AnnouncedInv, [Next]_vars PROVE AnnouncedInv'
  OBVIOUS
<1>1. CASE Seek \/ Stop \/ DropReceivers \/ Tick
  BY <1>1, CommandKeepsInv, TickKeepsInv
<1>2. CASE RunLoop
  BY <1>2, LoopMoveKeepsInv, RefreshedKeepsInv, BeginPeriodsKeepsInv, SkipPeriodKeepsInv,
     EnterPeriodKeepsInv, StartStreamsKeepsInv, JoinKeepsInv DEF RunLoop
<1>3. CASE StreamStep
  BY <1>3, InitStepKeepsInv, LoopHeadKeepsInv, PrefetchedKeepsInv, DeliverKeepsInv
  DEF StreamStep
<1>4. CASE UNCHANGED vars
  <2>1. loop' = loop /\ UNCHANGED Media /\ UNCHANGED <<host, world>>
    BY <1>4 DEF vars, Media
  <2>2. Typed' /\ world.now <= world'.now
    BY <2>1, TypedFields DEF AnnouncedInv, Typed, Media, Published
  <2> QED BY <2>1, <2>2, RestKeepsInv
<1> QED BY <1>1, <1>2, <1>3, <1>4 DEF Next

(* The run loop and its streams keep the invariant, whatever the host, the *)
(* origin and the network do.                                              *)
THEOREM AnnouncedInvariant == Spec => []AnnouncedInv
<1>1. Init => AnnouncedInv
  BY InitHasInv
<1>2. AnnouncedInv /\ [Next]_vars => AnnouncedInv'
  BY NextKeepsInv
<1> QED BY <1>1, <1>2, PTL DEF Spec

(* The order of a Period is its place.                                     *)
LEMMA OrderIs ==
    ASSUME Typed, NEW i \in DOMAIN Mpd.periods
    PROVE  Order(Mpd.periods[i].id) = i
<1>1. \A j \in DOMAIN Mpd.periods : Mpd.periods[j].id = Mpd.periods[i].id => j = i
  BY TheMpd, MpdIs
<1> QED BY <1>1 DEF Order

(* Between its announcement and the next a receiver gets media of the      *)
(* Period that was announced and no other, and no media before the events  *)
(* of its Period: over period changes, sync-buffer prefetches, refreshes   *)
(* that append Periods, seeks and failures (run, emit_period_changed).     *)
THEOREM PeriodsAnnounced == Spec => []PeriodsAreAnnounced
<1>1. AnnouncedInv => PeriodsAreAnnounced
  <2> SUFFICES ASSUME AnnouncedInv PROVE PeriodsAreAnnounced
    OBVIOUS
  <2>1. Typed
    BY DEF AnnouncedInv
  <2>2. TypeOK
    <3>1. /\ loop.pos \in 1 .. Len(loop.windows) + 1
      BY <2>1, TypedFields DEF AnnouncedInv, TickInv
    <3>2. loop.last \in 0 .. Len(Mpd.periods)
      <4>1. Len(Mpd.periods) \in Nat
        BY <2>1, TheMpd, MpdIs
      <4> QED BY <2>1, <4>1, TypedFields DEF AnnouncedInv, Snapshot
    <3>3. /\ loop.override \in SeekTimes \cup {NoTime}
          /\ loop.at \in {"top", "refreshing", "ticking", "periods", "preparing", "join",
                          "sleeping", "done", "failed"}
      BY <2>1 DEF Typed, Loops
    <3>4. ASSUME NEW t \in Tracks
          PROVE  /\ stream[t].at \in Places
                 /\ loop.at = "join" => stream[t].cursor \in 1 .. Len(Segments) + 1
                 /\ \A p \in {stream[t].held, holding[t]} : Len(p) <= 1
      <4>1. stream[t] \in Streams
        BY <2>1 DEF Typed
      <4>2. stream[t].at \in Places /\ stream[t].cursor \in Nat \ {0}
        BY <4>1 DEF Streams
      <4>3. Len(stream[t].held) <= 1 /\ Len(holding[t]) <= 1
        BY DEF AnnouncedInv, StreamInv, HoldingInv
      <4>4. loop.at = "join" => stream[t].cursor <= Len(Segments) + 1 /\ Len(Segments) \in Nat
        <5>1. ASSUME loop.at = "join"
              PROVE  stream[t].cursor <= Len(Segments) + 1
          BY <5>1 DEF AnnouncedInv, StreamInv
        <5>2. ASSUME loop.at = "join"
              PROVE  Len(Segments) \in Nat
          <6>1. InTick /\ loop.pos <= Len(loop.windows) /\ TickInv
            BY <5>2 DEF AnnouncedInv, TickInv, InTick, InPeriod
          <6>2. Window.idx \in DOMAIN Mpd.periods /\ Mpd.periods[Window.idx].count \in Nat
            BY <2>1, <6>1, WindowIs, TheMpd, MpdIs
          <6> QED BY <2>1, <6>2, SegmentsAre DEF Segments
        <5> QED BY <5>1, <5>2
      <4> QED BY <4>2, <4>3, <4>4
    <3> QED BY <3>1, <3>2, <3>3, <3>4 DEF TypeOK
  <2>3. InItsPeriod
    BY DEF AnnouncedInv, ChannelInv, InItsPeriod
  <2>4. EventsPrecedeMedia
    <3> SUFFICES ASSUME loop.at = "join", NEW t \in Tracks, NEW k \in DOMAIN channel[t]
                 PROVE  Mpd.periods[Order(channel[t][k].period)].events \subseteq emitted
      BY DEF EventsPrecedeMedia
    <3>1. PICK i \in DOMAIN Mpd.periods : channel[t][k].period = Mpd.periods[i].id /\ Told(i)
      BY DEF AnnouncedInv, ChannelInv
    <3> QED BY <2>1, <3>1, OrderIs DEF Told
  <2> QED BY <2>2, <2>3, <2>4 DEF PeriodsAreAnnounced
<1> QED BY <1>1, AnnouncedInvariant, PTL

-----------------------------------------------------------------------------
(* The invariant of static presentations.                                  *)

\* The Period of an item, as its place in the MPD.
PlaceIn(mpd, item) ==
    CHOOSE i \in DOMAIN mpd.periods : mpd.periods[i].id = item.period

Earlier(i, m, j, n) == i < j \/ (i = j /\ m < n)

IsAt(mpd, item, i, n) == item.period = mpd.periods[i].id /\ item.number = n

IsBefore(mpd, item, i, n) ==
    IsMedia(item) /\ Earlier(PlaceIn(mpd, item), item.number, i, n)

IsBehind(mpd, item, i, n) ==
    IsMedia(item) /\ Earlier(i, n, PlaceIn(mpd, item), item.number)

SoftBetween(mpd, i, j) == Soft(PeriodLink(mpd, i, j))

\* Segment n of Period i may be lost to the prefetch of the next Period.
Skippable(mpd, i, n) ==
    /\ i < Len(mpd.periods) /\ SoftBetween(mpd, i, i + 1)
    /\ WindowsOf(mpd)[i].start + n > WindowsOf(mpd)[i].end - SyncDepth + 1

HasMedia(log) == \E k \in DOMAIN log : IsMedia(log[k])

HasItem(mpd, log, i, n) == \E k \in DOMAIN log : IsAt(mpd, log[k], i, n)

IsSorted(mpd, log) ==
    \A j, k \in DOMAIN log :
        j < k /\ IsMedia(log[j]) /\ IsMedia(log[k])
            => Earlier(PlaceIn(mpd, log[j]), log[j].number, PlaceIn(mpd, log[k]), log[k].number)

IsGapless(mpd, log) ==
    \A i \in DOMAIN mpd.periods : \A n \in 1 .. mpd.periods[i].count :
        /\ \E k \in DOMAIN log : IsBefore(mpd, log[k], i, n)
        /\ \E k \in DOMAIN log : IsBehind(mpd, log[k], i, n)
        => Skippable(mpd, i, n) \/ HasItem(mpd, log, i, n)

\* An Init before the first media and over each hard boundary, none over a soft one.
HasInits(mpd, log) ==
    \A k \in DOMAIN log :
        (\A j \in 1 .. k - 1 : log[j].period # log[k].period) =>
            IF k = 1 THEN ~IsMedia(log[k])
            ELSE IsMedia(log[k])
                 <=> SoftBetween(mpd, PlaceIn(mpd, log[k - 1]), PlaceIn(mpd, log[k]))

IsInOrder(mpd, log) == IsSorted(mpd, log) /\ IsGapless(mpd, log) /\ HasInits(mpd, log)

\* A log is complete up to segment n of Period i, and has nothing from there on.
UpTo(mpd, log, i, n) ==
    /\ \A k \in DOMAIN log : IsMedia(log[k]) => IsBefore(mpd, log[k], i, n)
    /\ \A j \in DOMAIN mpd.periods : \A m \in 1 .. mpd.periods[j].count :
           Earlier(j, m, i, n) /\ (\E k \in DOMAIN log : IsBefore(mpd, log[k], j, m))
               => Skippable(mpd, j, m) \/ HasItem(mpd, log, j, m)

EndsIn(mpd, log, i) == log # <<>> /\ log[Len(log)].period = mpd.periods[i].id

\* The seek passes over the Periods before the i-th.
PassedOver(mpd, seek, i) == \A j \in 1 .. i - 1 : IsBeforeSeek(WindowsOf(mpd)[j], seek)

\* The first media is the segment that the seek aims at.
Lands(mpd, log, seek) ==
    seek # NoTime =>
        LET windows == WindowsOf(mpd)
            i       == PeriodAt(windows, seek)
            number  == seek - windows[i].start + 1
        IN  i # 0 /\ number \in 1 .. mpd.periods[i].count =>
                \A k \in DOMAIN log :
                    IsMedia(log[k]) /\ (\A j \in 1 .. k - 1 : ~IsMedia(log[j]))
                        => IsAt(mpd, log[k], i, number)

\* In a Period that starts then the tracker has the segments before n at most.
TrackerBelow(tracker, start, n) ==
    /\ tracker.lastAbsEnd <= start + n - 1 /\ tracker.periodStart <= start
    /\ tracker.periodStart = start => tracker.keys \subseteq 1 .. n - 1 /\ tracker.lastEnd <= n - 1

\* The tracker when the first segment of a Period that starts then was fetched ahead.
TrackerAhead(tracker, start) ==
    tracker.lastAbsEnd = start + 1 /\ tracker.periodStart <= start

HeldAhead(mpd, tracker, held, i) ==
    held # <<>> =>
        /\ held[1].number = 1 /\ SoftBetween(mpd, i, i + 1)
        /\ TrackerAhead(tracker, WindowsOf(mpd)[i + 1].start)

\* The next segment of Period i is within the sync depth of its end.
IsLate(mpd, i, n) ==
    WindowsOf(mpd)[i].start + n - 1 >= WindowsOf(mpd)[i].end - SyncDepth

\* A stream on its way through Period i, before segment n.
OnItsWay(mpd, log, tracker, at, held, i, n, seek, wanted) ==
    /\ UpTo(mpd, log, i, n)
    /\ at = "init" =>
           \/ log = <<>>
           \/ i > 1 /\ n = 1 /\ EndsIn(mpd, log, i - 1) /\ ~SoftBetween(mpd, i - 1, i)
    /\ at # "init" =>
           \/ EndsIn(mpd, log, i)
           \/ i > 1 /\ n = 1 /\ EndsIn(mpd, log, i - 1) /\ SoftBetween(mpd, i - 1, i)
    /\ HasMedia(log)
       \/ /\ PassedOver(mpd, seek, i) /\ n = wanted /\ n <= mpd.periods[i].count
          /\ at = "head" => held = <<>>
    /\ held = <<>> => TrackerBelow(tracker, WindowsOf(mpd)[i].start, n)
    /\ HeldAhead(mpd, tracker, held, i)
    /\ at \in {"init", "prefetch"} => held = <<>>
    /\ at = "prefetch" \/ (at = "fetch" /\ held # <<>>) => IsLate(mpd, i, n)
    /\ at = "head" /\ held # <<>> => n > 1 /\ IsLate(mpd, i, n - 1)

\* A stream that has gone through Period i.
IsThrough(mpd, log, tracker, held, i) ==
    /\ EndsIn(mpd, log, i) /\ HasMedia(log) /\ UpTo(mpd, log, i + 1, 1)
    /\ held = <<>> =>
           /\ tracker.lastAbsEnd <= WindowsOf(mpd)[i].end
           /\ tracker.periodStart <= WindowsOf(mpd)[i].start
    /\ HeldAhead(mpd, tracker, held, i)

IsFresh(t) == channel[t] = <<>> /\ session[t] = NewSession

\* Before a window is entered.
Ready(t) ==
    \/ IsFresh(t) /\ holding[t] = <<>> /\ PassedOver(Mpd, loop.override, loop.pos)
    \/ /\ loop.pos > 1 /\ loop.last = loop.pos - 1
       /\ ~IsBeforeSeek(WindowsOf(Mpd)[loop.last], loop.override)
       /\ session[t].haveInit
       /\ IsThrough(Mpd, channel[t], Tracker(t), holding[t], loop.last)

WantedHere == Wanted(Segments)

Entered(t) ==
    /\ Tracker(t).keys = {}
    /\ OnItsWay(Mpd, channel[t], Tracker(t), IF session[t].haveInit THEN "head" ELSE "init", <<>>,
                loop.pos, AdvanceStartIndex(Tracker(t), Segments, WantedHere, Window.start),
                loop.override, WantedHere)

Playing(t) ==
    /\ loop.gen <= stream[t].gen /\ stream[t].gen <= host.seekGen
    /\ stream[t].at # "off"
    /\ stream[t].at \notin Resting =>
           /\ session[t].haveInit
           /\ OnItsWay(Mpd, channel[t], Tracker(t), stream[t].at, stream[t].held, loop.pos,
                       stream[t].cursor, loop.override, WantedHere)
    /\ stream[t].at = "returned" /\ ~host.stopped /\ host.seekGen = loop.gen =>
           /\ session[t].haveInit
           /\ IsThrough(Mpd, channel[t], Tracker(t), stream[t].held, loop.pos)

\* What is marked of a Period was sent, or is held.
Accounted(t) ==
    \A i \in DOMAIN Mpd.periods : \A n \in Tracker(t).keys :
        WindowsOf(Mpd)[i].start = Tracker(t).periodStart =>
            \/ HasItem(Mpd, channel[t], i, n)
            \/ HasItem(Mpd, holding[t], i, n)
            \/ HasItem(Mpd, stream[t].held, i, n)

\* One MPD, whose windows are those of every tick.
OneMpd ==
    /\ loop.snapshot = 1 /\ ~Mpd.dynamic /\ IsTiled(Mpd)
    /\ loop.gen <= host.seekGen
    /\ InTick => loop.now = NoTime /\ loop.windows = WindowsOf(Mpd)
    /\ loop.at # "sleeping"

TrackInv(t) ==
    /\ IsInOrder(Mpd, channel[t])
    /\ InTick => Lands(Mpd, channel[t], loop.override)
    /\ loop.at \in {"top", "refreshing", "ticking"} => IsFresh(t)
    /\ loop.at = "periods" /\ ~host.stopped => Ready(t)
    /\ loop.at = "preparing" => Entered(t)
    /\ loop.at = "join" => Playing(t)
    /\ ~host.stopped /\ host.seekGen = loop.gen /\ loop.at # "failed" => Accounted(t)

PlayInv == OneMpd /\ \A t \in Tracks : TrackInv(t)

StaticInv == ~Dynamic => PlayInv
-----------------------------------------------------------------------------
(* Logs of static presentations.                                           *)

IsKnown(mpd, log) ==
    \A k \in DOMAIN log : \E i \in DOMAIN mpd.periods : log[k].period = mpd.periods[i].id

LEMMA PlaceIs ==
    ASSUME NEW mpd, IsMpd(mpd), NEW item, NEW i \in DOMAIN mpd.periods,
           item.period = mpd.periods[i].id
    PROVE  PlaceIn(mpd, item) = i
<1>1. \A j \in DOMAIN mpd.periods : mpd.periods[j].id = item.period => j = i
  BY MpdIs
<1> QED BY <1>1 DEF PlaceIn

(* The items of a log.                                                     *)
LEMMA LogIs ==
    ASSUME NEW mpd, IsMpd(mpd), NEW log \in Seq(Items), IsKnown(mpd, log)
    PROVE  /\ Len(log) \in Nat /\ DOMAIN log = 1 .. Len(log) /\ (Len(log) = 0 => log = <<>>)
           /\ \A k \in 1 .. Len(log) :
                  /\ log[k].number \in Nat /\ PlaceIn(mpd, log[k]) \in DOMAIN mpd.periods
                  /\ PlaceIn(mpd, log[k]) \in Nat
                  /\ log[k].period = mpd.periods[PlaceIn(mpd, log[k])].id
<1>1. Len(log) \in Nat /\ DOMAIN log = 1 .. Len(log) /\ (Len(log) = 0 => log = <<>>)
  BY LenIs
<1>2. ASSUME NEW k \in 1 .. Len(log)
      PROVE  /\ log[k].number \in Nat /\ PlaceIn(mpd, log[k]) \in DOMAIN mpd.periods
             /\ PlaceIn(mpd, log[k]) \in Nat
             /\ log[k].period = mpd.periods[PlaceIn(mpd, log[k])].id
  <2>1. log[k] \in Items
    BY <1>1
  <2>2. PICK i \in DOMAIN mpd.periods : log[k].period = mpd.periods[i].id
    BY <1>1 DEF IsKnown
  <2>3. PlaceIn(mpd, log[k]) = i
    BY <2>2, PlaceIs
  <2>4. i \in Nat
    BY MpdIs
  <2> QED BY <2>1, <2>2, <2>3, <2>4 DEF Items
<1> QED BY <1>1, <1>2

\* An item of segment n of Period i goes behind a log.
Put(mpd, log, i, n, new) ==
    /\ log \in Seq(Items) /\ IsKnown(mpd, log) /\ new \in Seq(Items)
    /\ Len(new) = Len(log) + 1
    /\ \A k \in 1 .. Len(log) : new[k] = log[k]
    /\ IsAt(mpd, new[Len(log) + 1], i, n)

(* What it becomes.                                                        *)
LEMMA PutIs ==
    ASSUME NEW mpd, IsMpd(mpd), NEW i \in DOMAIN mpd.periods, NEW n \in Nat,
           NEW log, NEW new, Put(mpd, log, i, n, new)
    PROVE  /\ Len(log) \in Nat /\ DOMAIN log = 1 .. Len(log)
           /\ DOMAIN new = 1 .. Len(log) + 1 /\ new # <<>>
           /\ \A k \in 1 .. Len(log) : new[k] = log[k]
           /\ PlaceIn(mpd, new[Len(log) + 1]) = i /\ new[Len(log) + 1].number = n
           /\ IsKnown(mpd, new) /\ EndsIn(mpd, new, i) /\ HasItem(mpd, new, i, n)
           /\ \A j, m : HasItem(mpd, log, j, m) => HasItem(mpd, new, j, m)
           /\ HasMedia(log) => HasMedia(new)
           /\ n > 0 => HasMedia(new)
           /\ n = 0 => (HasMedia(new) <=> HasMedia(log))
<1>1. /\ Len(log) \in Nat /\ DOMAIN log = 1 .. Len(log)
      /\ DOMAIN new = 1 .. Len(log) + 1 /\ new # <<>>
      /\ \A k \in 1 .. Len(log) : new[k] = log[k]
      /\ Len(new) = Len(log) + 1
  <2>1. /\ Len(log) \in Nat /\ DOMAIN log = 1 .. Len(log)
        /\ DOMAIN new = 1 .. Len(new) /\ (new = <<>> => Len(new) = 0)
    BY LenIs DEF Put
  <2> QED BY <2>1 DEF Put
<1>2. /\ new[Len(log) + 1].period = mpd.periods[i].id /\ new[Len(log) + 1].number = n
  BY DEF Put, IsAt
<1>3. PlaceIn(mpd, new[Len(log) + 1]) = i
  BY <1>2, PlaceIs
<1>4. \A k \in DOMAIN new : k \in DOMAIN log \/ k = Len(log) + 1
  BY <1>1
<1>5. \A k \in DOMAIN log : k \in DOMAIN new /\ new[k] = log[k]
  BY <1>1
<1>6. Len(log) + 1 \in DOMAIN new
  BY <1>1
<1>7. IsKnown(mpd, new)
  BY <1>2, <1>4, <1>5 DEF Put, IsKnown
<1>8. EndsIn(mpd, new, i)
  BY <1>1, <1>2 DEF EndsIn
<1>9. HasItem(mpd, new, i, n) /\ \A j, m : HasItem(mpd, log, j, m) => HasItem(mpd, new, j, m)
  BY <1>2, <1>5, <1>6 DEF HasItem, IsAt
<1>10. /\ HasMedia(log) => HasMedia(new)
       /\ n > 0 => HasMedia(new)
  BY <1>2, <1>5, <1>6 DEF HasMedia, IsMedia
<1>11. n = 0 => (HasMedia(new) => HasMedia(log))
  BY <1>2, <1>4, <1>5 DEF HasMedia, IsMedia
<1> QED BY <1>1, <1>2, <1>3, <1>7, <1>8, <1>9, <1>10, <1>11

(* Media behind what it follows keeps the log in order.                    *)
LEMMA PutMedia ==
    ASSUME NEW mpd, IsMpd(mpd), NEW i \in DOMAIN mpd.periods, NEW n \in Nat \ {0},
           NEW log, NEW new, Put(mpd, log, i, n, new),
           IsInOrder(mpd, log), UpTo(mpd, log, i, n),
           EndsIn(mpd, log, i) \/ (i > 1 /\ EndsIn(mpd, log, i - 1) /\ SoftBetween(mpd, i - 1, i))
    PROVE  IsInOrder(mpd, new) /\ UpTo(mpd, new, i, n + 1)
<1> DEFINE L == Len(log)
           z == new[Len(log) + 1]
<1>1. /\ L \in Nat /\ DOMAIN log = 1 .. L /\ DOMAIN new = 1 .. L + 1
      /\ \A k \in 1 .. L : new[k] = log[k]
      /\ PlaceIn(mpd, z) = i /\ z.number = n
      /\ \A j, m : HasItem(mpd, log, j, m) => HasItem(mpd, new, j, m)
      /\ HasItem(mpd, new, i, n) /\ i \in Nat
  BY PutIs, MpdIs
<1>2. \A k \in 1 .. L : /\ log[k].number \in Nat /\ PlaceIn(mpd, log[k]) \in Nat
                        /\ PlaceIn(mpd, log[k]) \in DOMAIN mpd.periods
                        /\ log[k].period = mpd.periods[PlaceIn(mpd, log[k])].id
  BY LogIs DEF Put
<1>3. \A k \in 1 .. L : IsMedia(log[k]) => Earlier(PlaceIn(mpd, log[k]), log[k].number, i, n)
  BY <1>1 DEF UpTo, IsBefore
<1>4. z.period = mpd.periods[i].id /\ IsMedia(z)
  BY <1>1 DEF Put, IsAt, IsMedia
<1>5. \A k \in DOMAIN new : k \in 1 .. L \/ k = L + 1
  BY <1>1
<1> HIDE DEF L, z
<1>6. IsSorted(mpd, new)
  <2> SUFFICES ASSUME NEW j \in DOMAIN new, NEW k \in DOMAIN new, j < k,
                      IsMedia(new[j]), IsMedia(new[k])
               PROVE  Earlier(PlaceIn(mpd, new[j]), new[j].number,
                              PlaceIn(mpd, new[k]), new[k].number)
    BY DEF IsSorted
  <2>1. CASE k \in 1 .. L
    <3>1. j \in DOMAIN log /\ k \in DOMAIN log /\ new[j] = log[j] /\ new[k] = log[k]
      BY <1>1, <2>1
    <3> QED BY <3>1 DEF IsInOrder, IsSorted
  <2>2. CASE k = L + 1
    <3>1. j \in 1 .. L /\ new[j] = log[j] /\ new[k] = z
      BY <1>1, <2>2 DEF z, L
    <3> QED BY <1>1, <1>3, <3>1
  <2> QED BY <1>5, <2>1, <2>2
<1>7. ASSUME NEW p \in DOMAIN mpd.periods, NEW m \in 1 .. mpd.periods[p].count,
             NEW k \in DOMAIN new, IsBefore(mpd, new[k], p, m), Earlier(p, m, i, n + 1)
      PROVE  Skippable(mpd, p, m) \/ HasItem(mpd, new, p, m)
  <2>0. p \in Nat /\ m \in Nat
    <3>1. p \in Nat /\ mpd.periods[p].count \in Nat
      BY MpdIs
    <3> QED BY <3>1
  <2>1. CASE p = i /\ m = n
    BY <1>1, <2>1
  <2>2. CASE ~(p = i /\ m = n)
    <3>1. Earlier(p, m, i, n)
      BY <1>1, <1>7, <2>0, <2>2 DEF Earlier
    <3>2. k # L + 1
      <4>1. ~Earlier(i, n, p, m)
        BY <1>1, <2>0, <3>1 DEF Earlier
      <4>2. new[L + 1] = z
        BY DEF z, L
      <4> QED BY <1>1, <1>7, <4>1, <4>2 DEF IsBefore
    <3>3. k \in DOMAIN log /\ new[k] = log[k]
      BY <1>1, <1>5, <3>2
    <3>4. IsBefore(mpd, log[k], p, m)
      BY <1>7, <3>3
    <3> QED BY <1>1, <3>1, <3>3, <3>4 DEF UpTo
  <2> QED BY <2>1, <2>2
<1>8. IsGapless(mpd, new)
  <2> SUFFICES ASSUME NEW p \in DOMAIN mpd.periods, NEW m \in 1 .. mpd.periods[p].count,
                      NEW k \in DOMAIN new, IsBefore(mpd, new[k], p, m),
                      NEW b \in DOMAIN new, IsBehind(mpd, new[b], p, m)
               PROVE  Skippable(mpd, p, m) \/ HasItem(mpd, new, p, m)
    BY DEF IsGapless
  <2>0. p \in Nat /\ m \in Nat
    <3>1. p \in Nat /\ mpd.periods[p].count \in Nat
      BY MpdIs
    <3> QED BY <3>1
  <2>1. Earlier(p, m, i, n + 1)
    <3>1. CASE b = L + 1
      <4>1. new[b] = z
        BY <3>1 DEF z, L
      <4>2. Earlier(p, m, i, n)
        BY <1>1, <4>1 DEF IsBehind
      <4> QED BY <1>1, <2>0, <4>2 DEF Earlier
    <3>2. CASE b \in 1 .. L
      <4>1. new[b] = log[b] /\ b \in DOMAIN log
        BY <1>1, <3>2
      <4>2. Earlier(p, m, PlaceIn(mpd, log[b]), log[b].number) /\ IsMedia(log[b])
        BY <4>1 DEF IsBehind
      <4>3. Earlier(PlaceIn(mpd, log[b]), log[b].number, i, n)
        BY <1>3, <3>2, <4>2
      <4>4. PlaceIn(mpd, log[b]) \in Nat /\ log[b].number \in Nat
        BY <1>2, <3>2
      <4> QED BY <1>1, <2>0, <4>2, <4>3, <4>4 DEF Earlier
    <3> QED BY <1>5, <3>1, <3>2
  <2> QED BY <1>7, <2>1
<1>9. HasInits(mpd, new)
  <2> SUFFICES ASSUME NEW k \in DOMAIN new,
                      \A j \in 1 .. k - 1 : new[j].period # new[k].period
               PROVE  IF k = 1 THEN ~IsMedia(new[k])
                      ELSE IsMedia(new[k])
                           <=> SoftBetween(mpd, PlaceIn(mpd, new[k - 1]), PlaceIn(mpd, new[k]))
    BY DEF HasInits
  <2>1. CASE k \in 1 .. L
    <3>1. k \in DOMAIN log /\ new[k] = log[k] /\ \A j \in 1 .. k - 1 : new[j] = log[j]
      BY <1>1, <2>1
    <3>2. \A j \in 1 .. k - 1 : log[j].period # log[k].period
      BY <3>1
    <3>3. k # 1 => new[k - 1] = log[k - 1]
      BY <2>1, <1>1, <3>1
    <3> QED BY <3>1, <3>2, <3>3 DEF IsInOrder, HasInits
  <2>2. CASE k = L + 1
    <3>1. new[k] = z
      BY <2>2 DEF z, L
    <3>2. log # <<>> => L \in 1 .. L /\ L # 0
      <4>1. L = 0 => log = <<>>
        BY LogIs DEF L, Put
      <4> QED BY <1>1, <4>1
    <3>3. CASE EndsIn(mpd, log, i)
      <4>1. L \in 1 .. k - 1 /\ new[L].period = z.period
        BY <1>1, <1>4, <2>2, <3>2, <3>3 DEF EndsIn, L
      <4> QED BY <3>1, <4>1
    <3>4. CASE i > 1 /\ EndsIn(mpd, log, i - 1) /\ SoftBetween(mpd, i - 1, i)
      <4>1. i - 1 \in DOMAIN mpd.periods /\ log[L].period = mpd.periods[i - 1].id
        BY <3>4, MpdIs DEF EndsIn, L
      <4>2. PlaceIn(mpd, log[L]) = i - 1
        BY <4>1, PlaceIs
      <4>3. k # 1 /\ new[k - 1] = log[L]
        BY <1>1, <2>2, <3>2, <3>4 DEF EndsIn
      <4> QED BY <1>1, <1>4, <3>1, <3>4, <4>2, <4>3
    <3> QED BY <3>3, <3>4
  <2> QED BY <1>5, <2>1, <2>2
<1>10. UpTo(mpd, new, i, n + 1)
  <2>1. ASSUME NEW k \in DOMAIN new, IsMedia(new[k])
        PROVE  IsBefore(mpd, new[k], i, n + 1)
    <3>1. CASE k = L + 1
      <4>1. new[k] = z
        BY <3>1 DEF z, L
      <4> QED BY <1>1, <1>4, <4>1 DEF IsBefore, Earlier
    <3>2. CASE k \in 1 .. L
      <4>1. new[k] = log[k]
        BY <1>1, <3>2
      <4>2. Earlier(PlaceIn(mpd, log[k]), log[k].number, i, n)
        BY <1>3, <2>1, <3>2, <4>1
      <4>3. PlaceIn(mpd, log[k]) \in Nat /\ log[k].number \in Nat
        BY <1>2, <3>2
      <4>4. Earlier(PlaceIn(mpd, log[k]), log[k].number, i, n + 1)
        BY <4>2, <4>3, <1>1 DEF Earlier
      <4> QED BY <2>1, <4>1, <4>4 DEF IsBefore
    <3> QED BY <1>5, <3>1, <3>2
  <2> QED BY <1>7, <2>1 DEF UpTo
<1> QED BY <1>6, <1>8, <1>9, <1>10 DEF IsInOrder

(* An Init over a hard boundary does too.                                  *)
LEMMA PutInit ==
    ASSUME NEW mpd, IsMpd(mpd), NEW i \in DOMAIN mpd.periods, NEW n \in Nat \ {0},
           NEW log, NEW new, Put(mpd, log, i, 0, new),
           IsInOrder(mpd, log), UpTo(mpd, log, i, n),
           log = <<>> \/ (i > 1 /\ EndsIn(mpd, log, i - 1) /\ ~SoftBetween(mpd, i - 1, i))
    PROVE  IsInOrder(mpd, new) /\ UpTo(mpd, new, i, n)
<1> DEFINE L == Len(log)
           z == new[Len(log) + 1]
<1>1. /\ L \in Nat /\ DOMAIN log = 1 .. L /\ DOMAIN new = 1 .. L + 1
      /\ \A k \in 1 .. L : new[k] = log[k]
      /\ PlaceIn(mpd, z) = i
      /\ \A j, m : HasItem(mpd, log, j, m) => HasItem(mpd, new, j, m)
  BY PutIs
<1>2. z.period = mpd.periods[i].id /\ ~IsMedia(z)
  BY DEF Put, IsAt, IsMedia
<1>3. \A k \in DOMAIN new : k \in 1 .. L \/ k = L + 1
  BY <1>1
<1>4. \A k \in DOMAIN new : IsMedia(new[k]) => k \in DOMAIN log /\ new[k] = log[k]
  <2>1. new[L + 1] = z
    BY DEF z, L
  <2> QED BY <1>1, <1>2, <1>3, <2>1
<1> HIDE DEF L, z
<1>5. IsSorted(mpd, new)
  BY <1>4 DEF IsInOrder, IsSorted
<1>6. IsGapless(mpd, new)
  <2>1. ASSUME NEW p \in DOMAIN mpd.periods, NEW m \in 1 .. mpd.periods[p].count,
               NEW k \in DOMAIN new, IsBefore(mpd, new[k], p, m),
               NEW b \in DOMAIN new, IsBehind(mpd, new[b], p, m)
        PROVE  Skippable(mpd, p, m) \/ HasItem(mpd, new, p, m)
    <3>1. k \in DOMAIN log /\ IsBefore(mpd, log[k], p, m)
      BY <1>4, <2>1 DEF IsBefore
    <3>2. b \in DOMAIN log /\ IsBehind(mpd, log[b], p, m)
      BY <1>4, <2>1 DEF IsBehind
    <3> QED BY <1>1, <3>1, <3>2 DEF IsInOrder, IsGapless
  <2> QED BY <2>1 DEF IsGapless
<1>7. HasInits(mpd, new)
  <2> SUFFICES ASSUME NEW k \in DOMAIN new,
                      \A j \in 1 .. k - 1 : new[j].period # new[k].period
               PROVE  IF k = 1 THEN ~IsMedia(new[k])
                      ELSE IsMedia(new[k])
                           <=> SoftBetween(mpd, PlaceIn(mpd, new[k - 1]), PlaceIn(mpd, new[k]))
    BY DEF HasInits
  <2>1. CASE k \in 1 .. L
    <3>1. k \in DOMAIN log /\ new[k] = log[k] /\ \A j \in 1 .. k - 1 : new[j] = log[j]
      BY <1>1, <2>1
    <3>2. \A j \in 1 .. k - 1 : log[j].period # log[k].period
      BY <3>1
    <3>3. k # 1 => new[k - 1] = log[k - 1]
      BY <2>1, <1>1, <3>1
    <3> QED BY <3>1, <3>2, <3>3 DEF IsInOrder, HasInits
  <2>2. CASE k = L + 1
    <3>1. new[k] = z
      BY <2>2 DEF z, L
    <3>2. CASE log = <<>>
      <4>1. L = 0
        BY <3>2 DEF L
      <4> QED BY <1>2, <2>2, <3>1, <4>1
    <3>3. CASE i > 1 /\ EndsIn(mpd, log, i - 1) /\ ~SoftBetween(mpd, i - 1, i)
      <4>1. i - 1 \in DOMAIN mpd.periods /\ log[L].period = mpd.periods[i - 1].id
        BY <3>3, MpdIs DEF EndsIn, L
      <4>2. PlaceIn(mpd, log[L]) = i - 1
        BY <4>1, PlaceIs
      <4>3. L # 0
        <5>1. L = 0 => log = <<>>
          BY LogIs DEF L, Put
        <5> QED BY <3>3, <5>1 DEF EndsIn
      <4>4. k # 1 /\ new[k - 1] = log[L]
        BY <1>1, <2>2, <4>3
      <4> QED BY <1>1, <1>2, <3>1, <3>3, <4>2, <4>4
    <3> QED BY <3>2, <3>3
  <2> QED BY <1>3, <2>1, <2>2
<1>8. UpTo(mpd, new, i, n)
  <2>1. ASSUME NEW k \in DOMAIN new, IsMedia(new[k])
        PROVE  IsBefore(mpd, new[k], i, n)
    BY <1>4, <2>1 DEF UpTo
  <2>2. ASSUME NEW p \in DOMAIN mpd.periods, NEW m \in 1 .. mpd.periods[p].count,
               Earlier(p, m, i, n), NEW k \in DOMAIN new, IsBefore(mpd, new[k], p, m)
        PROVE  Skippable(mpd, p, m) \/ HasItem(mpd, new, p, m)
    <3>1. k \in DOMAIN log /\ IsBefore(mpd, log[k], p, m)
      BY <1>4, <2>2 DEF IsBefore
    <3> QED BY <1>1, <2>2, <3>1 DEF UpTo
  <2> QED BY <2>1, <2>2 DEF UpTo
<1> QED BY <1>5, <1>6, <1>7, <1>8 DEF IsInOrder

(* The next Period follows on the last segment.                            *)
LEMMA NextPeriod ==
    ASSUME NEW mpd, IsMpd(mpd), NEW i \in DOMAIN mpd.periods, NEW log,
           log \in Seq(Items), IsKnown(mpd, log),
           UpTo(mpd, log, i, mpd.periods[i].count + 1)
    PROVE  UpTo(mpd, log, i + 1, 1)
<1>1. i \in Nat /\ DOMAIN mpd.periods = 1 .. Len(mpd.periods) /\ Len(mpd.periods) \in Nat
  BY MpdIs
<1>2. ASSUME NEW k \in DOMAIN log, IsMedia(log[k])
      PROVE  IsBefore(mpd, log[k], i + 1, 1)
  <2>1. IsBefore(mpd, log[k], i, mpd.periods[i].count + 1)
    BY <1>2 DEF UpTo
  <2>2. PlaceIn(mpd, log[k]) \in Nat
    BY <1>2, LogIs
  <2>3. Earlier(PlaceIn(mpd, log[k]), log[k].number, i + 1, 1)
    BY <1>1, <2>1, <2>2 DEF IsBefore, Earlier
  <2> QED BY <1>2, <2>3 DEF IsBefore
<1>3. ASSUME NEW p \in DOMAIN mpd.periods, NEW m \in 1 .. mpd.periods[p].count,
             Earlier(p, m, i + 1, 1)
      PROVE  Earlier(p, m, i, mpd.periods[i].count + 1)
  <2>1. p \in Nat /\ mpd.periods[p].count \in Nat /\ m \in Nat \ {0}
    <3>1. p \in Nat /\ mpd.periods[p].count \in Nat
      BY MpdIs
    <3> QED BY <3>1
  <2>2. p < i \/ p = i
    BY <1>1, <1>3, <2>1 DEF Earlier
  <2>3. p = i => m < mpd.periods[i].count + 1
    BY <2>1
  <2> QED BY <2>2, <2>3 DEF Earlier
<1> QED BY <1>2, <1>3 DEF UpTo

(* What is behind a late segment may be skipped before a soft boundary.    *)
LEMMA SkipLate ==
    ASSUME NEW mpd, IsMpd(mpd), NEW i \in DOMAIN mpd.periods, NEW n \in Nat \ {0, 1}, NEW log,
           UpTo(mpd, log, i, n), i < Len(mpd.periods), SoftBetween(mpd, i, i + 1),
           IsLate(mpd, i, n - 1), WindowsOf(mpd)[i].end # NoTime,
           log \in Seq(Items), IsKnown(mpd, log)
    PROVE  UpTo(mpd, log, i + 1, 1)
<1>1. /\ i \in 1 .. Len(mpd.periods) /\ Len(mpd.periods) \in Nat
      /\ WindowsOf(mpd)[i].start \in Nat /\ WindowsOf(mpd)[i].end \in Nat /\ SyncDepth \in Nat
  <2>1. i \in 1 .. Len(mpd.periods) /\ Len(mpd.periods) \in Nat
    BY MpdIs
  <2>2. WindowsOf(mpd)[i] \in Windows
    BY <2>1, WindowsAre
  <2> QED BY <2>1, <2>2, ControllerAssumption DEF Windows
<1>2. ASSUME NEW k \in DOMAIN log, IsMedia(log[k])
      PROVE  IsBefore(mpd, log[k], i + 1, 1)
  <2>1. IsBefore(mpd, log[k], i, n)
    BY <1>2 DEF UpTo
  <2>2. PlaceIn(mpd, log[k]) \in Nat
    BY <1>2, LogIs
  <2>3. Earlier(PlaceIn(mpd, log[k]), log[k].number, i + 1, 1)
    BY <1>1, <2>1, <2>2 DEF IsBefore, Earlier
  <2> QED BY <1>2, <2>3 DEF IsBefore
<1>3. ASSUME NEW p \in DOMAIN mpd.periods, NEW m \in 1 .. mpd.periods[p].count,
             Earlier(p, m, i + 1, 1), ~Earlier(p, m, i, n)
      PROVE  Skippable(mpd, p, m)
  <2>1. p \in Nat /\ mpd.periods[p].count \in Nat /\ m \in Nat \ {0}
    <3>1. p \in Nat /\ mpd.periods[p].count \in Nat
      BY MpdIs
    <3> QED BY <3>1
  <2>2. p = i /\ m >= n
    BY <1>1, <1>3, <2>1 DEF Earlier
  <2>3. WindowsOf(mpd)[i].start + (n - 1) - 1 >= WindowsOf(mpd)[i].end - SyncDepth
    BY DEF IsLate
  <2>4. WindowsOf(mpd)[i].start + m > WindowsOf(mpd)[i].end - SyncDepth + 1
    <3>1. \A a, b, d, x, y \in Nat :
              y >= x /\ a + (x - 1) - 1 >= b - d => a + y > b - d + 1
      OBVIOUS
    <3>2. n \in Nat /\ m \in Nat
      BY <2>1
    <3> QED BY ONLY <1>1, <2>2, <2>3, <3>1, <3>2
  <2> QED BY <2>2, <2>4 DEF Skippable
<1> QED BY <1>2, <1>3 DEF UpTo

(* A log without media is nowhere yet.                                     *)
LEMMA NoMedia ==
    ASSUME NEW mpd, NEW log, ~HasMedia(log)
    PROVE  \A i, n : UpTo(mpd, log, i, n)
BY DEF HasMedia, UpTo, IsBefore

LEMMA NoLog ==
    ASSUME NEW mpd
    PROVE  IsInOrder(mpd, <<>>) /\ ~HasMedia(<<>>) /\ \A seek : Lands(mpd, <<>>, seek)
<1>1. \A k \in DOMAIN <<>> : FALSE
  OBVIOUS
<1>2. IsInOrder(mpd, <<>>)
  BY <1>1 DEF IsInOrder, IsSorted, IsGapless, HasInits
<1>3. ~HasMedia(<<>>)
  BY <1>1 DEF HasMedia
<1>4. \A seek : Lands(mpd, <<>>, seek)
  BY <1>1 DEF Lands
<1> QED BY <1>2, <1>3, <1>4

(* Only the first media can miss the seek's target.                        *)
LEMMA PutLands ==
    ASSUME NEW mpd, IsMpd(mpd), NEW i \in DOMAIN mpd.periods, NEW n \in Nat,
           NEW log, NEW new, Put(mpd, log, i, n, new), NEW seek,
           Lands(mpd, log, seek),
           \/ n = 0
           \/ HasMedia(log)
           \/ seek # NoTime =>
                  LET windows == WindowsOf(mpd)
                      p       == PeriodAt(windows, seek)
                      number  == seek - windows[p].start + 1
                  IN  p # 0 /\ number \in 1 .. mpd.periods[p].count => p = i /\ number = n
    PROVE  Lands(mpd, new, seek)
<1> DEFINE windows == WindowsOf(mpd)
           p == PeriodAt(windows, seek)
           number == seek - windows[p].start + 1
<1> SUFFICES ASSUME seek # NoTime, p # 0, number \in 1 .. mpd.periods[p].count,
                    NEW k \in DOMAIN new, IsMedia(new[k]),
                    \A j \in 1 .. k - 1 : ~IsMedia(new[j])
             PROVE  IsAt(mpd, new[k], p, number)
  BY DEF Lands
<1> HIDE DEF windows, p, number
<1>1. /\ Len(log) \in Nat /\ DOMAIN log = 1 .. Len(log) /\ DOMAIN new = 1 .. Len(log) + 1
      /\ \A m \in 1 .. Len(log) : new[m] = log[m]
  BY PutIs
<1>2. CASE k \in 1 .. Len(log)
  <2>1. k \in DOMAIN log /\ new[k] = log[k] /\ \A j \in 1 .. k - 1 : new[j] = log[j]
    BY <1>1, <1>2
  <2>2. \A j \in 1 .. k - 1 : ~IsMedia(log[j])
    BY <2>1
  <2>3. IsAt(mpd, log[k], p, number)
    BY <2>1, <2>2 DEF Lands, windows, p, number
  <2> QED BY <2>1, <2>3
<1>3. CASE k = Len(log) + 1
  <2>1. IsAt(mpd, new[k], i, n)
    BY <1>3 DEF Put
  <2>2. n # 0
    BY <2>1 DEF IsAt, IsMedia
  <2>3. ~HasMedia(log)
    <3>1. \A j \in 1 .. Len(log) : ~IsMedia(log[j])
      BY <1>1, <1>3
    <3> QED BY <1>1, <3>1 DEF HasMedia
  <2>4. p = i /\ number = n
    BY <2>2, <2>3 DEF windows, p, number
  <2> QED BY <2>1, <2>4
<1> QED BY <1>1, <1>2, <1>3
-----------------------------------------------------------------------------
(* Trackers of static presentations.                                       *)

LEMMA DeliveredIs ==
    ASSUME NEW tracker \in Trackers, NEW n \in Nat \ {0}, NEW start \in Nat
    PROVE  IsDelivered(tracker, Segment(n), start)
               <=> \/ start + n - 1 < tracker.lastAbsEnd
                   \/ start = tracker.periodStart /\ (n \in tracker.keys \/ n <= tracker.lastEnd)
<1>1. /\ Segment(n).url = NoUrl /\ Segment(n).start = n - 1 /\ Segment(n).key = n
      /\ SegEnd(Segment(n)) = n
  BY DEF Segment, SegEnd
<1>2. start + (n - 1) = start + n - 1
  OBVIOUS
<1> QED BY <1>1, <1>2 DEF IsDelivered

\* The segments of a Period.
IsListing(segments, count) ==
    /\ Len(segments) = count /\ count \in Nat /\ DOMAIN segments = 1 .. count
    /\ \A n \in 1 .. count : segments[n] = Segment(n)

(* Where a track goes on whose tracker has the segments before n.          *)
LEMMA GoesOn ==
    ASSUME NEW tracker \in Trackers, NEW start \in Nat, NEW count, NEW segments,
           IsListing(segments, count), NEW n \in 1 .. count + 1,
           TrackerBelow(tracker, start, n), NEW from \in 1 .. n,
           \A m \in from .. n - 1 : IsDelivered(tracker, Segment(m), start)
    PROVE  AdvanceStartIndex(tracker, segments, from, start) = n
<1> DEFINE k == AdvanceStartIndex(tracker, segments, from, start)
<1>0. count \in Nat /\ Len(segments) = count /\ n \in Nat \ {0} /\ from \in Nat \ {0}
  BY DEF IsListing
<1>1. /\ k \in 1 .. count + 1
      /\ k <= count => k >= from /\ ~IsDelivered(tracker, segments[k], start)
      /\ \A j \in from .. count : j < k => IsDelivered(tracker, segments[j], start)
  BY <1>0, AdvanceIs
<1>2. \A j \in 1 .. count : segments[j] = Segment(j)
  BY DEF IsListing
<1>3. ~IsDelivered(tracker, Segment(n), start)
  <2>1. tracker.lastAbsEnd \in Nat /\ tracker.lastEnd \in Nat /\ tracker.periodStart \in Nat
    BY DEF Trackers
  <2>2. ~(start + n - 1 < tracker.lastAbsEnd)
    BY <1>0, <2>1 DEF TrackerBelow
  <2>3. ~(start = tracker.periodStart /\ (n \in tracker.keys \/ n <= tracker.lastEnd))
    BY <1>0, <2>1 DEF TrackerBelow
  <2> QED BY <1>0, <2>2, <2>3, DeliveredIs
<1> HIDE DEF k
<1>4. ~(n < k)
  <2> SUFFICES ASSUME n < k PROVE FALSE
    OBVIOUS
  <2>1. n \in from .. count
    BY <1>0, <1>1
  <2>2. segments[n] = Segment(n)
    BY <1>0, <1>2, <2>1
  <2> QED BY <1>1, <1>3, <2>1, <2>2
<1>5. ~(k < n)
  <2> SUFFICES ASSUME k < n PROVE FALSE
    OBVIOUS
  <2>1. k <= count /\ k \in 1 .. count
    BY <1>0, <1>1
  <2>2. k \in from .. n - 1
    BY <1>0, <1>1, <2>1
  <2> QED BY <1>1, <1>2, <2>1, <2>2
<1>6. k = n
  BY <1>0, <1>1, <1>4, <1>5
<1> QED BY <1>6 DEF k

(* A tracker that has the next Period's first segment has all before it.   *)
LEMMA AllBehind ==
    ASSUME NEW tracker \in Trackers, NEW start \in Nat, NEW count, NEW segments,
           IsListing(segments, count), NEW from \in Nat \ {0}, NEW next \in Nat,
           TrackerAhead(tracker, next), start + count <= next
    PROVE  AdvanceStartIndex(tracker, segments, from, start) = count + 1
<1> DEFINE k == AdvanceStartIndex(tracker, segments, from, start)
<1>0. count \in Nat /\ Len(segments) = count
  BY DEF IsListing
<1>1. k \in 1 .. count + 1 /\ (k <= count => ~IsDelivered(tracker, segments[k], start))
  BY <1>0, AdvanceIs
<1> HIDE DEF k
<1>2. ~(k <= count)
  <2> SUFFICES ASSUME k <= count PROVE FALSE
    OBVIOUS
  <2>1. k \in 1 .. count /\ k \in Nat \ {0}
    BY <1>0, <1>1
  <2>2. segments[k] = Segment(k)
    BY <2>1 DEF IsListing
  <2>3. start + k - 1 < tracker.lastAbsEnd
    BY <1>0, <2>1 DEF TrackerAhead
  <2> QED BY <1>1, <2>1, <2>2, <2>3, DeliveredIs
<1>3. k = count + 1
  BY <1>0, <1>1, <1>2
<1> QED BY <1>3 DEF k

LEMMA BelowMoves ==
    ASSUME NEW tracker \in Trackers, NEW start \in Nat, NEW n \in Nat \ {0}, NEW next \in Nat
    PROVE  /\ TrackerBelow(tracker, start, n) =>
                  TrackerBelow(MarkDelivered(tracker, Segment(n), start), start, n + 1)
           /\ TrackerAhead(tracker, next) /\ start + n <= next =>
                  TrackerAhead(MarkDelivered(tracker, Segment(n), start), next)
           /\ TrackerBelow(tracker, start, n) /\ start + n - 1 <= next /\ start < next =>
                  /\ TrackerBelow(tracker, next, 1)
                  /\ TrackerAhead(MarkDelivered(tracker, Segment(1), next), next)
                  /\ MarkDelivered(tracker, Segment(1), next).keys = {1}
           /\ tracker.lastAbsEnd <= next /\ tracker.periodStart <= next =>
                  TrackerBelow(SoftReset(tracker), next, 1)
           /\ TrackerAhead(tracker, next) => TrackerBelow(SoftReset(tracker), next, 2)
           /\ SoftReset(tracker).keys = {}
<1>1. /\ tracker.lastAbsEnd \in Nat /\ tracker.lastEnd \in Nat /\ tracker.periodStart \in Nat
      /\ tracker.keys \subseteq Nat
  BY DEF Trackers
<1>2. TrackerBelow(tracker, start, n) =>
          TrackerBelow(MarkDelivered(tracker, Segment(n), start), start, n + 1)
  <2> SUFFICES ASSUME TrackerBelow(tracker, start, n)
               PROVE  TrackerBelow(MarkDelivered(tracker, Segment(n), start), start, n + 1)
    OBVIOUS
  <2> DEFINE new == MarkDelivered(tracker, Segment(n), start)
  <2>1. Marked(tracker, n, start, new)
    BY MarkIs
  <2> HIDE DEF new
  <2>2. new.lastAbsEnd <= start + (n + 1) - 1 /\ new.periodStart <= start
    BY <1>1, <2>1 DEF Marked, TrackerBelow
  <2>3. new.lastEnd <= (n + 1) - 1
    BY <1>1, <2>1 DEF Marked, TrackerBelow
  <2>4. new.keys \subseteq 1 .. (n + 1) - 1
    BY <1>1, <2>1 DEF Marked, TrackerBelow
  <2>5. TrackerBelow(new, start, n + 1)
    BY <2>2, <2>3, <2>4 DEF TrackerBelow
  <2> QED BY <2>5 DEF new
<1>3. TrackerAhead(tracker, next) /\ start + n <= next =>
          TrackerAhead(MarkDelivered(tracker, Segment(n), start), next)
  <2> DEFINE new == MarkDelivered(tracker, Segment(n), start)
  <2>1. Marked(tracker, n, start, new)
    BY MarkIs
  <2> HIDE DEF new
  <2>2. TrackerAhead(tracker, next) /\ start + n <= next => TrackerAhead(new, next)
    BY <1>1, <2>1 DEF Marked, TrackerAhead
  <2> QED BY <2>2 DEF new
<1>4. TrackerBelow(tracker, start, n) /\ start + n - 1 <= next /\ start < next =>
          /\ TrackerBelow(tracker, next, 1)
          /\ TrackerAhead(MarkDelivered(tracker, Segment(1), next), next)
          /\ MarkDelivered(tracker, Segment(1), next).keys = {1}
  <2> SUFFICES ASSUME TrackerBelow(tracker, start, n), start + n - 1 <= next, start < next
               PROVE  /\ TrackerBelow(tracker, next, 1)
                      /\ TrackerAhead(MarkDelivered(tracker, Segment(1), next), next)
                      /\ MarkDelivered(tracker, Segment(1), next).keys = {1}
    OBVIOUS
  <2> DEFINE new == MarkDelivered(tracker, Segment(1), next)
  <2>1. Marked(tracker, 1, next, new)
    BY MarkIs
  <2> HIDE DEF new
  <2>2. tracker.lastAbsEnd <= next /\ tracker.periodStart < next
    BY <1>1 DEF TrackerBelow
  <2>3. TrackerBelow(tracker, next, 1)
    BY <1>1, <2>2 DEF TrackerBelow
  <2>4. TrackerAhead(new, next)
    BY <1>1, <2>1, <2>2 DEF Marked, TrackerAhead
  <2>5. new.keys = {1}
    BY <1>1, <2>1, <2>2 DEF Marked
  <2> QED BY <2>3, <2>4, <2>5 DEF new
<1>5. /\ SoftReset(tracker).keys = {} /\ SoftReset(tracker).lastEnd = 0
      /\ SoftReset(tracker).lastAbsEnd = tracker.lastAbsEnd
      /\ SoftReset(tracker).periodStart = tracker.periodStart
  BY DEF SoftReset, Trackers
<1>6. tracker.lastAbsEnd <= next /\ tracker.periodStart <= next =>
          TrackerBelow(SoftReset(tracker), next, 1)
  BY <1>1, <1>5 DEF TrackerBelow
<1>7. TrackerAhead(tracker, next) => TrackerBelow(SoftReset(tracker), next, 2)
  BY <1>1, <1>5 DEF TrackerBelow, TrackerAhead
<1> QED BY <1>2, <1>3, <1>4, <1>5, <1>6, <1>7

LEMMA NewIs ==
    ASSUME NEW start \in Nat, NEW n \in Nat \ {0}
    PROVE  /\ TrackerBelow(NewTracker, start, n) /\ NewTracker.keys = {}
           /\ SoftReset(NewTracker) = NewTracker /\ NewTracker \in Trackers
<1>1. NewTracker \in Trackers
  BY TrackerIs
<1>2. TrackerBelow(NewTracker, start, n) /\ NewTracker.keys = {}
  BY DEF NewTracker, TrackerBelow
<1>3. SoftReset(NewTracker) = NewTracker
  <2>1. \A tracker \in Trackers :
            tracker.keys = {} /\ tracker.lastEnd = 0 => SoftReset(tracker) = tracker
    BY DEF SoftReset, Trackers
  <2>2. NewTracker.keys = {} /\ NewTracker.lastEnd = 0
    BY DEF NewTracker
  <2> QED BY <1>1, <2>1, <2>2
<1> QED BY <1>1, <1>2, <1>3
-----------------------------------------------------------------------------
(* Periods of static presentations.                                        *)

(* They have media and do not overlap.                                     *)
LEMMA TiledIs ==
    ASSUME NEW mpd, IsMpd(mpd), IsTiled(mpd)
    PROVE  /\ \A i \in 1 .. Len(mpd.periods) :
                  /\ WindowsOf(mpd)[i].start \in Nat /\ WindowsOf(mpd)[i].end \in Nat
                  /\ WindowsOf(mpd)[i].end # NoTime
                  /\ mpd.periods[i].count \in Nat \ {0}
                  /\ WindowsOf(mpd)[i].start + mpd.periods[i].count <= WindowsOf(mpd)[i].end
                  /\ WindowsOf(mpd)[i].start < WindowsOf(mpd)[i].end
           /\ \A i, j \in 1 .. Len(mpd.periods) :
                  i < j => /\ WindowsOf(mpd)[i].end <= WindowsOf(mpd)[j].start
                           /\ WindowsOf(mpd)[i].start < WindowsOf(mpd)[j].start
           /\ \A i, j \in 1 .. Len(mpd.periods) :
                  WindowsOf(mpd)[i].start = WindowsOf(mpd)[j].start => i = j
<1>1. /\ DOMAIN WindowsOf(mpd) = 1 .. Len(mpd.periods) /\ Len(mpd.periods) \in Nat
      /\ \A i \in 1 .. Len(mpd.periods) :
             WindowsOf(mpd)[i] \in Windows /\ mpd.periods[i].count \in Nat
  BY WindowsAre, MpdIs
<1>2. ASSUME NEW i \in 1 .. Len(mpd.periods)
      PROVE  /\ WindowsOf(mpd)[i].start \in Nat /\ WindowsOf(mpd)[i].end \in Nat
             /\ WindowsOf(mpd)[i].end # NoTime /\ mpd.periods[i].count \in Nat \ {0}
             /\ WindowsOf(mpd)[i].start + mpd.periods[i].count <= WindowsOf(mpd)[i].end
             /\ WindowsOf(mpd)[i].start < WindowsOf(mpd)[i].end
  <2>1. /\ mpd.periods[i].count > 0 /\ WindowsOf(mpd)[i].end # NoTime
        /\ WindowsOf(mpd)[i].start + mpd.periods[i].count <= WindowsOf(mpd)[i].end
    BY <1>1 DEF IsTiled
  <2>2. /\ WindowsOf(mpd)[i].start \in Nat /\ WindowsOf(mpd)[i].end \in Nat \cup {NoTime}
        /\ mpd.periods[i].count \in Nat
    BY <1>1 DEF Windows
  <2>3. /\ WindowsOf(mpd)[i].end \in Nat /\ mpd.periods[i].count \in Nat \ {0}
    BY <2>1, <2>2
  <2>4. WindowsOf(mpd)[i].start < WindowsOf(mpd)[i].end
    BY <2>1, <2>2, <2>3
  <2> QED BY <2>1, <2>2, <2>3, <2>4
<1>3. ASSUME NEW i \in 1 .. Len(mpd.periods), NEW j \in 1 .. Len(mpd.periods), i < j
      PROVE  /\ WindowsOf(mpd)[i].end <= WindowsOf(mpd)[j].start
             /\ WindowsOf(mpd)[i].start < WindowsOf(mpd)[j].start
  <2>1. WindowsOf(mpd)[i].end <= WindowsOf(mpd)[j].start
    BY <1>1, <1>3 DEF IsTiled
  <2> QED BY <1>2, <2>1
<1>4. ASSUME NEW i \in 1 .. Len(mpd.periods), NEW j \in 1 .. Len(mpd.periods),
             WindowsOf(mpd)[i].start = WindowsOf(mpd)[j].start
      PROVE  i = j
  <2>1. ~(i < j) /\ ~(j < i)
    BY <1>2, <1>3, <1>4
  <2> QED BY <2>1
<1> QED BY <1>2, <1>3, <1>4

(* All segments of a static Period are there.                              *)
LEMMA AllSegments ==
    ASSUME Typed, ~Mpd.dynamic, NEW i \in DOMAIN Mpd.periods, NEW start
    PROVE  IsListing(SegmentsOf(i, start), Mpd.periods[i].count)
<1> DEFINE count == Mpd.periods[i].count
           kept == {n \in 1 .. count : IsKept(Mpd, Segment(n), start, loop.now, 0, TRUE)}
<1>1. count \in Nat
  BY TheMpd, MpdIs
<1>2. kept = 1 .. count
  BY DEF IsKept
<1> HIDE DEF count
<1>3. Cardinality(1 .. count) = count
  BY <1>1, FS_Interval
<1>4. SegmentsOf(i, start) = [n \in 1 .. Cardinality(kept) |-> Segment(n)]
  BY DEF SegmentsOf, count
<1> HIDE DEF kept
<1>5. IsListing(SegmentsOf(i, start), count)
  BY <1>1, <1>2, <1>3, <1>4 DEF IsListing
<1> QED BY <1>5 DEF count

(* The window of a tick.                                                   *)
LEMMA StaticWindow ==
    ASSUME AnnouncedInv, OneMpd, InTick, loop.pos <= Len(loop.windows)
    PROVE  /\ Typed /\ IsMpd(Mpd) /\ IsTiled(Mpd) /\ ~Mpd.dynamic
           /\ loop.pos \in 1 .. Len(Mpd.periods) /\ loop.pos \in DOMAIN Mpd.periods
           /\ Len(Mpd.periods) \in Nat /\ Len(loop.windows) = Len(Mpd.periods)
           /\ Window.idx = loop.pos /\ Window = WindowsOf(Mpd)[loop.pos]
           /\ IsListing(Segments, Mpd.periods[loop.pos].count)
           /\ Following = IF loop.pos < Len(Mpd.periods) THEN loop.pos + 1 ELSE 0
<1>1. Typed /\ TickInv /\ IsMpd(Mpd) /\ IsTiled(Mpd) /\ ~Mpd.dynamic
      /\ loop.windows = WindowsOf(Mpd)
  BY TheMpd DEF AnnouncedInv, OneMpd
<1>2. loop.pos \in Nat \ {0}
  BY <1>1, TypedFields
<1>3. /\ DOMAIN Mpd.periods = 1 .. Len(Mpd.periods) /\ Len(Mpd.periods) \in Nat
      /\ Len(WindowsOf(Mpd)) = Len(Mpd.periods)
      /\ \A i \in 1 .. Len(Mpd.periods) : WindowsOf(Mpd)[i].idx = i
  BY <1>1, MpdIs, WindowsAre
<1>4. loop.pos \in 1 .. Len(Mpd.periods)
  BY <1>1, <1>2, <1>3
<1>5. Window.idx = loop.pos /\ Window = WindowsOf(Mpd)[loop.pos]
  BY <1>1, <1>3, <1>4 DEF Window
<1>6. IsListing(Segments, Mpd.periods[loop.pos].count)
  BY <1>1, <1>3, <1>4, <1>5, AllSegments DEF Segments
<1>7. Following = IF loop.pos < Len(Mpd.periods) THEN loop.pos + 1 ELSE 0
  BY <1>1, <1>5, WindowIs
<1> QED BY <1>1, <1>3, <1>4, <1>5, <1>6, <1>7

(* The target of a window: the seek's, if it lies there.                   *)
LEMMA TargetIs ==
    ASSUME AnnouncedInv, OneMpd, InTick, loop.pos <= Len(loop.windows)
    PROVE  Target = IF loop.override # NoTime /\ Holds(Window, loop.override)
                    THEN loop.override ELSE NoTime
<1>1. loop.now = NoTime
  BY DEF OneMpd
<1> QED BY <1>1 DEF Target, SeekTargetIn, LiveTarget

(* A first window that the seek lies in is aimed at in its right segment.  *)
LEMMA FirstWindow ==
    ASSUME AnnouncedInv, OneMpd, InTick, loop.pos <= Len(loop.windows),
           PassedOver(Mpd, loop.override, loop.pos), ~IsBeforeSeek(Window, loop.override),
           loop.override # NoTime
    PROVE  LET windows == WindowsOf(Mpd)
               p       == PeriodAt(windows, loop.override)
               number  == loop.override - windows[p].start + 1
           IN  p # 0 /\ number \in 1 .. Mpd.periods[p].count => p = loop.pos /\ number = WantedHere
<1> DEFINE windows == WindowsOf(Mpd)
           seek == loop.override
           p == PeriodAt(WindowsOf(Mpd), loop.override)
           number == loop.override - WindowsOf(Mpd)[PeriodAt(WindowsOf(Mpd), loop.override)].start + 1
<1> SUFFICES ASSUME p # 0, number \in 1 .. Mpd.periods[p].count
             PROVE  p = loop.pos /\ number = WantedHere
  OBVIOUS
<1>1. /\ IsMpd(Mpd) /\ IsTiled(Mpd) /\ loop.pos \in 1 .. Len(Mpd.periods)
      /\ Len(Mpd.periods) \in Nat /\ Window = WindowsOf(Mpd)[loop.pos]
      /\ IsListing(Segments, Mpd.periods[loop.pos].count) /\ Typed
  BY StaticWindow
<1>2. seek \in Nat
  BY <1>1, TypedFields, ControllerAssumption
<1>3. /\ windows \in Seq(Windows) /\ Len(windows) = Len(Mpd.periods) /\ windows # <<>>
      /\ DOMAIN windows = 1 .. Len(Mpd.periods)
  BY <1>1, WindowsAre
<1>4. p \in 1 .. Len(Mpd.periods) /\ Holds(windows[p], seek)
  <2>1. /\ FirstHolding(windows, seek) \in 0 .. Len(windows)
        /\ FirstHolding(windows, seek) # 0 => Holds(windows[FirstHolding(windows, seek)], seek)
    BY <1>3, CurrentIs
  <2>2. p = FirstHolding(windows, seek)
    BY DEF PeriodAt
  <2> QED BY <1>1, <1>3, <2>1, <2>2
<1> HIDE DEF p, seek
<1>5. /\ windows[p].start \in Nat /\ windows[p].end \in Nat /\ windows[p].end # NoTime
      /\ windows[loop.pos].start \in Nat /\ windows[loop.pos].end \in Nat
      /\ windows[loop.pos].end # NoTime
      /\ windows[p].start <= seek /\ seek < windows[p].end
  <2>1. /\ windows[p].start \in Nat /\ windows[p].end \in Nat /\ windows[p].end # NoTime
        /\ windows[loop.pos].start \in Nat /\ windows[loop.pos].end \in Nat
        /\ windows[loop.pos].end # NoTime
    BY <1>1, <1>4, TiledIs
  <2> QED BY <1>2, <1>4, <2>1 DEF Holds
<1>6. ~(p < loop.pos)
  <2> SUFFICES ASSUME p < loop.pos PROVE FALSE
    OBVIOUS
  <2>1. p \in 1 .. loop.pos - 1
    BY <1>1, <1>4
  <2>2. windows[p].end <= seek
    BY <2>1 DEF PassedOver, IsBeforeSeek, seek
  <2> QED BY <1>2, <1>5, <2>2
<1>7. ~(loop.pos < p)
  <2> SUFFICES ASSUME loop.pos < p PROVE FALSE
    OBVIOUS
  <2>1. windows[loop.pos].end <= windows[p].start
    BY <1>1, <1>4, TiledIs
  <2>2. ~(windows[loop.pos].end <= seek)
    BY <1>1, <1>5 DEF IsBeforeSeek, seek
  <2> QED BY <1>2, <1>5, <2>1, <2>2
<1>8. p = loop.pos
  <2>1. p \in Nat /\ loop.pos \in Nat
    BY <1>1, <1>4
  <2> QED BY <1>6, <1>7, <2>1
<1>9. Target = seek /\ Target # NoTime
  BY <1>1, <1>4, <1>8, TargetIs DEF seek
<1>10. PICK count \in Nat : count = Mpd.periods[loop.pos].count
  BY <1>1 DEF IsListing
<1>11. /\ Len(Segments) = count /\ DOMAIN Segments = 1 .. count
       /\ \A n \in 1 .. count : SegEnd(Segments[n]) = n
  <2>1. \A n \in Nat : SegEnd(Segment(n)) = n
    BY DEF SegEnd, Segment
  <2>2. \A n \in 1 .. count : n \in Nat /\ Segments[n] = Segment(n)
    BY <1>1, <1>10 DEF IsListing
  <2>3. Len(Segments) = count /\ DOMAIN Segments = 1 .. count
    BY <1>1, <1>10 DEF IsListing
  <2> QED BY <2>1, <2>2, <2>3
<1>12. PICK a \in Nat : a = Window.start
  BY <1>1, <1>5
<1>13. number = seek - a + 1 /\ number \in 1 .. count
  BY <1>1, <1>8, <1>10, <1>12 DEF p, seek
<1> HIDE DEF number, windows
<1>14. a <= seek
  BY <1>1, <1>5, <1>8, <1>12 DEF windows
<1>15. LET w == WantedHere
       IN  \/ /\ w \in 1 .. count /\ a + w > seek
              /\ \A m \in 1 .. count : a + m > seek => w <= m
           \/ \A m \in 1 .. count : ~(a + m > seek)
  <2>1. LET w == Wanted(Segments)
        IN  Target # NoTime =>
                \/ /\ w \in 1 .. Len(Segments)
                   /\ Window.start + SegEnd(Segments[w]) > Target
                   /\ \A m \in 1 .. Len(Segments) :
                          Window.start + SegEnd(Segments[m]) > Target => w <= m
                \/ /\ w = 1
                   /\ \A m \in 1 .. Len(Segments) :
                          ~(Window.start + SegEnd(Segments[m]) > Target)
    BY <1>11, WantedIs
  <2> QED BY <1>9, <1>11, <1>12, <2>1 DEF WantedHere
<1>16. number = WantedHere
  <2>1. a + number > seek
    BY <1>2, <1>13
  <2>2. /\ WantedHere \in 1 .. count /\ a + WantedHere > seek /\ WantedHere <= number
    BY <1>13, <1>15, <2>1
  <2> QED BY <1>2, <1>13, <2>2
<1> QED BY <1>8, <1>16

(* Behind a window that the seek does not pass over, all is wanted.        *)
LEMMA LaterWindow ==
    ASSUME AnnouncedInv, OneMpd, InTick, loop.pos <= Len(loop.windows), loop.pos > 1,
           ~IsBeforeSeek(WindowsOf(Mpd)[loop.pos - 1], loop.override)
    PROVE  WantedHere = 1
<1>1. /\ IsMpd(Mpd) /\ IsTiled(Mpd) /\ loop.pos \in 1 .. Len(Mpd.periods)
      /\ Len(Mpd.periods) \in Nat /\ Window = WindowsOf(Mpd)[loop.pos]
      /\ IsListing(Segments, Mpd.periods[loop.pos].count) /\ Typed
  BY StaticWindow
<1>2. Target = NoTime
  <2> SUFFICES ASSUME loop.override # NoTime PROVE ~Holds(Window, loop.override)
    BY TargetIs
  <2>1. loop.override \in Nat
    BY <1>1, TypedFields, ControllerAssumption
  <2>2. loop.pos - 1 \in 1 .. Len(Mpd.periods) /\ loop.pos - 1 < loop.pos
    BY <1>1
  <2>3. /\ WindowsOf(Mpd)[loop.pos - 1].end \in Nat
        /\ WindowsOf(Mpd)[loop.pos - 1].end # NoTime
        /\ WindowsOf(Mpd)[loop.pos].start \in Nat
        /\ WindowsOf(Mpd)[loop.pos - 1].end <= WindowsOf(Mpd)[loop.pos].start
    BY <1>1, <2>2, TiledIs
  <2>4. ~(WindowsOf(Mpd)[loop.pos - 1].end <= loop.override)
    BY <2>3 DEF IsBeforeSeek
  <2> QED BY <1>1, <2>1, <2>3, <2>4 DEF Holds
<1>3. Len(Segments) \in Nat /\ DOMAIN Segments = 1 .. Len(Segments)
  BY <1>1 DEF IsListing
<1> QED BY <1>2, <1>3, WantedIs DEF WantedHere

(* What is wanted of a window is one of its segments.                      *)
LEMMA WantedExists ==
    ASSUME AnnouncedInv, OneMpd, InTick, loop.pos <= Len(loop.windows)
    PROVE  WantedHere \in 1 .. Mpd.periods[loop.pos].count
<1>1. /\ IsMpd(Mpd) /\ IsTiled(Mpd) /\ loop.pos \in 1 .. Len(Mpd.periods)
      /\ IsListing(Segments, Mpd.periods[loop.pos].count)
  BY StaticWindow
<1>2. Mpd.periods[loop.pos].count \in Nat \ {0}
  BY <1>1, TiledIs
<1>3. PICK count \in Nat \ {0} : count = Mpd.periods[loop.pos].count
  BY <1>2
<1>4. Len(Segments) = count /\ DOMAIN Segments = 1 .. count
  BY <1>1, <1>3 DEF IsListing
<1>5. Target = NoTime \/ Target # NoTime
  OBVIOUS
<1>6. LET w == Wanted(Segments) IN w = 1 \/ w \in 1 .. count
  BY <1>4, <1>5, WantedIs
<1> QED BY <1>3, <1>6 DEF WantedHere
-----------------------------------------------------------------------------
(* Steps of static presentations that move no media.                       *)

(* What a window is aimed at stays while it is the window.                 *)
LEMMA SameWindow ==
    ASSUME Mpd' = Mpd, UNCHANGED <<loop.windows, loop.pos, loop.override, loop.now>>
    PROVE  /\ Window' = Window /\ Segments' = Segments /\ WantedHere' = WantedHere
           /\ (InTick' <=> loop'.at \in {"periods", "preparing", "join"})
<1>1. Window' = Window
  BY DEF Window
<1>2. Segments' = Segments
  BY <1>1 DEF Segments, SegmentsOf
<1>3. Target' = Target
  BY <1>1 DEF Target
<1>4. WantedHere' = WantedHere
  BY <1>1, <1>2, <1>3 DEF WantedHere, Wanted
<1> QED BY <1>1, <1>2, <1>4 DEF InTick

(* A track where nothing moves.                                            *)
LEMMA RestKeepsTrack ==
    ASSUME AnnouncedInv, OneMpd, NEW t \in Tracks, TrackInv(t), UNCHANGED Media, Mpd' = Mpd,
           host'.seekGen \in Nat, host.seekGen <= host'.seekGen,
           host.stopped => host'.stopped, loop'.gen = loop.gen,
           \/ loop' = loop
           \/ /\ loop'.at \in {"refreshing", "ticking", "done", "failed"} /\ loop.at # "failed"
              /\ loop'.at \in {"refreshing", "ticking"} => loop.at \in {"top", "refreshing"}
    PROVE  TrackInv(t)'
<1>1. /\ host.seekGen \in Nat /\ loop.gen \in Nat /\ stream[t].gen \in Nat
      /\ loop.gen <= host.seekGen
  <2>1. stream[t] \in Streams
    BY DEF AnnouncedInv, Typed
  <2>2. Typed
    BY DEF AnnouncedInv
  <2> QED BY <2>1, <2>2, TypedFields DEF Streams, OneMpd
<1>2. /\ session' = session /\ stream' = stream /\ holding' = holding /\ channel' = channel
      /\ Tracker(t)' = Tracker(t)
  BY DEF Media, Tracker
<1>3. host'.seekGen = loop.gen => host.seekGen = loop.gen
  BY <1>1
<1>4. Accounted(t) => Accounted(t)'
  BY <1>2 DEF Accounted
<1>5. CASE loop' = loop
  <2>1. Segments' = Segments /\ WantedHere' = WantedHere /\ Window' = Window
    BY <1>5, SameWindow
  <2>2. Ready(t) => Ready(t)'
    BY <1>2, <1>5 DEF Ready, IsFresh
  <2>3. Entered(t) => Entered(t)'
    BY <1>2, <1>5, <2>1 DEF Entered
  <2>4. Playing(t) => Playing(t)'
    <3>1. loop.gen <= stream[t].gen /\ stream[t].gen <= host.seekGen
          => loop.gen <= stream[t].gen /\ stream[t].gen <= host'.seekGen
      BY <1>1
    <3> QED BY <1>2, <1>3, <1>5, <2>1, <3>1 DEF Playing
  <2>5. IsFresh(t) => IsFresh(t)'
    BY <1>2 DEF IsFresh
  <2> QED BY <1>2, <1>3, <1>4, <1>5, <2>2, <2>3, <2>4, <2>5 DEF TrackInv, InTick
<1>6. CASE /\ loop'.at \in {"refreshing", "ticking", "done", "failed"} /\ loop.at # "failed"
           /\ loop'.at \in {"refreshing", "ticking"} => loop.at \in {"top", "refreshing"}
  <2>1. IsFresh(t) => IsFresh(t)'
    BY <1>2 DEF IsFresh
  <2>2. ~InTick'
    BY <1>6 DEF InTick
  <2> QED BY <1>2, <1>3, <1>4, <1>6, <2>1, <2>2 DEF TrackInv
<1> QED BY <1>5, <1>6

LEMMA CommandKeepsPlay ==
    ASSUME AnnouncedInv, PlayInv, Seek \/ Stop \/ DropReceivers
    PROVE  PlayInv'
<1>1. Typed /\ UNCHANGED <<world, loop, Media>> /\ host \in Hosts /\ host.seekGen \in Nat
  BY HostIs DEF AnnouncedInv, Seek, Stop, DropReceivers, Command, Typed
<1>2. host'.seekGen \in Nat /\ host.seekGen <= host'.seekGen /\ (host.stopped => host'.stopped)
  <2>1. CASE Seek
    <3>1. PICK s \in SeekTimes : host' = [host EXCEPT !.seekTarget = s, !.seekGen = @ + 1]
      BY <2>1 DEF Seek, Command
    <3>2. host'.seekGen = host.seekGen + 1 /\ host'.stopped = host.stopped
      BY <1>1, <3>1 DEF Hosts
    <3> QED BY <1>1, <3>2
  <2>2. CASE Stop
    BY <1>1, <2>2 DEF Stop, Command, Hosts
  <2>3. CASE DropReceivers
    BY <1>1, <2>3 DEF DropReceivers, Command, Hosts
  <2> QED BY <2>1, <2>2, <2>3
<1>3. Mpd' = Mpd
  BY <1>1 DEF Mpd, Published
<1>4. loop.gen \in Nat
  BY <1>1, TypedFields
<1>5. OneMpd'
  BY <1>1, <1>2, <1>3, <1>4 DEF PlayInv, OneMpd, InTick
<1>6. \A t \in Tracks : TrackInv(t)'
  BY <1>1, <1>2, <1>3, RestKeepsTrack DEF PlayInv
<1> QED BY <1>5, <1>6 DEF PlayInv

(* A static presentation has no clock.                                     *)
LEMMA NoTick ==
    ASSUME Typed, ~Dynamic
    PROVE  ~Tick
<1>1. world \in Worlds
  BY DEF Typed
<1>2. Later = world
  BY <1>1 DEF Later, Worlds
<1> QED BY <1>2 DEF Tick

LEMMA LoopMoveKeepsPlay ==
    ASSUME AnnouncedInv, ~Dynamic, PlayInv,
           \/ BeginTick \/ Refreshed \/ RefreshFails \/ PrepareFails \/ JoinFails \/ EndTick
           \/ Wake
    PROVE  PlayInv'
<1>1. /\ Typed /\ Snapshot /\ loop \in Loops /\ host.seekGen \in Nat /\ loop.gen \in Nat
      /\ OneMpd /\ loop.snapshot = 1
  BY TypedFields DEF AnnouncedInv, PlayInv, OneMpd
<1>2. ~Wake
  BY DEF PlayInv, OneMpd, Wake
<1>3. /\ UNCHANGED <<host, world, Media>>
      /\ loop'.at \in {"refreshing", "ticking", "done", "failed"} /\ loop.at # "failed"
      /\ loop'.at \in {"refreshing", "ticking"} => loop.at \in {"top", "refreshing"}
      /\ loop'.snapshot = 1 /\ loop'.gen = loop.gen
  <2>1. CASE BeginTick \/ RefreshFails \/ PrepareFails \/ JoinFails
    <3>1. PICK at \in {"refreshing", "done", "failed"} :
              /\ loop' = [loop EXCEPT !.at = at] /\ loop.at # "failed"
              /\ at = "refreshing" => loop.at = "top"
      BY <2>1 DEF BeginTick, RefreshFails, PrepareFails, JoinFails, Goto
    <3>2. loop'.at = at /\ loop'.snapshot = loop.snapshot /\ loop'.gen = loop.gen
      BY <1>1, <3>1 DEF Loops
    <3>3. UNCHANGED <<host, world, Media>>
      BY <2>1 DEF BeginTick, RefreshFails, PrepareFails, JoinFails
    <3> QED BY <1>1, <3>1, <3>2, <3>3
  <2>2. CASE Refreshed
    <3>1. AtOrigin = 1
      <4>1. AtOrigin \in DOMAIN Published /\ DOMAIN Published = 1 .. Len(Published)
        BY <1>1, OriginIs, TheMpd
      <4>2. Len(Published) = 1
        BY <1>1, PublishedIs, TheMpd DEF Dynamic
      <4> QED BY <4>1, <4>2
    <3>2. /\ loop' = [loop EXCEPT !.at = "ticking", !.snapshot = 1]
          /\ UNCHANGED <<host, world, Media>> /\ loop.at = "refreshing"
      BY <2>2, <3>1 DEF Refreshed
    <3> QED BY <1>1, <3>2 DEF Loops
  <2>3. CASE EndTick
    <3>1. ShouldEnd
      BY <1>1 DEF ShouldEnd, OneMpd
    <3>2. /\ loop' = [loop EXCEPT !.at = "done"] /\ UNCHANGED <<host, world, Media>>
          /\ loop.at = "periods"
      BY <2>3, <3>1 DEF EndTick
    <3> QED BY <1>1, <3>2 DEF Loops
  <2> QED BY <1>2, <2>1, <2>2, <2>3
<1>4. Mpd' = Mpd
  BY <1>1, <1>3 DEF Mpd, Published
<1>5. OneMpd'
  BY <1>1, <1>3, <1>4 DEF OneMpd, InTick
<1>6. \A t \in Tracks : TrackInv(t)'
  <2>1. host'.seekGen \in Nat /\ host.seekGen <= host'.seekGen
    BY <1>1, <1>3
  <2> QED BY <1>1, <1>3, <1>4, <2>1, RestKeepsTrack DEF PlayInv
<1> QED BY <1>5, <1>6 DEF PlayInv

LEMMA BeginPeriodsKeepsPlay ==
    ASSUME AnnouncedInv, ~Dynamic, PlayInv, BeginPeriods
    PROVE  PlayInv'
<1> DEFINE seek == IF host.seekTarget = NoTime THEN loop.override ELSE host.seekTarget
           windows == PeriodsToPlay(Mpd, Now, SyncDepth, seek)
           none == [t \in Tracks |-> <<>>]
<1>1. /\ Typed /\ loop.at = "ticking" /\ host' = [host EXCEPT !.seekTarget = NoTime]
      /\ UNCHANGED <<world, session, stream>> /\ holding' = none
      /\ channel' = IF host.seekTarget = NoTime THEN channel ELSE none
  BY BegunIs
<1>2. /\ loop'.at = "periods" /\ loop'.snapshot = loop.snapshot
      /\ loop'.pos = 1 /\ loop'.windows = windows
      /\ loop'.now = Now /\ loop'.override = seek /\ loop'.gen = host.seekGen
      /\ Mpd' = Mpd
  BY BegunIs
<1>3. windows = WindowsOf(Mpd) /\ Now = NoTime
  BY DEF PlayInv, OneMpd, PeriodsToPlay, Now
<1>4. host'.seekGen = host.seekGen /\ host'.stopped = host.stopped /\ host.seekGen \in Nat
  <2>1. host \in Hosts
    BY <1>1 DEF Typed
  <2> QED BY <1>1, <2>1 DEF Hosts
<1> HIDE DEF seek, windows
<1>5. OneMpd'
  BY <1>2, <1>3, <1>4 DEF PlayInv, OneMpd
<1>6. ASSUME NEW t \in Tracks
      PROVE  TrackInv(t)'
  <2>1. channel[t] = <<>> /\ session[t] = NewSession
    BY <1>1 DEF PlayInv, TrackInv, IsFresh
  <2>2. channel'[t] = <<>> /\ session'[t] = NewSession /\ holding'[t] = <<>>
    BY <1>1, <2>1
  <2>3. Tracker(t)'.keys = {}
    BY <2>2 DEF Tracker, NewSession, NewTracker
  <2>4. Accounted(t)'
    BY <2>3 DEF Accounted
  <2>5. PassedOver(Mpd', loop'.override, loop'.pos)
    BY <1>2 DEF PassedOver
  <2>6. Ready(t)'
    BY <2>2, <2>5 DEF Ready, IsFresh
  <2>7. IsInOrder(Mpd', channel'[t]) /\ Lands(Mpd', channel'[t], loop'.override)
    BY <2>2, NoLog
  <2> QED BY <1>2, <2>4, <2>6, <2>7 DEF TrackInv
<1> QED BY <1>5, <1>6 DEF PlayInv

LEMMA SkipPeriodKeepsPlay ==
    ASSUME AnnouncedInv, ~Dynamic, PlayInv, SkipPeriod
    PROVE  PlayInv'
<1>1. /\ Typed /\ OneMpd /\ loop.at = "periods" /\ InTick /\ loop.pos <= Len(loop.windows)
      /\ ~host.stopped /\ IsBeforeSeek(Window, loop.override)
      /\ loop' = [loop EXCEPT !.pos = @ + 1] /\ UNCHANGED <<host, world, Media>>
  <2>1. Typed /\ loop.pos \in Nat /\ Len(loop.windows) \in Nat
    BY TypedFields DEF AnnouncedInv
  <2> QED BY <2>1 DEF PlayInv, SkipPeriod, AfterWindows, InTick
<1>2. /\ loop'.at = "periods" /\ loop'.snapshot = loop.snapshot /\ loop'.now = loop.now
      /\ loop'.windows = loop.windows /\ loop'.pos = loop.pos + 1 /\ loop'.last = loop.last
      /\ loop'.override = loop.override /\ loop'.gen = loop.gen
  <2>1. loop \in Loops
    BY <1>1, TypedFields
  <2> QED BY <1>1, <2>1 DEF Loops
<1>3. Mpd' = Mpd
  BY <1>1, <1>2 DEF Mpd, Published
<1>4. /\ IsMpd(Mpd) /\ IsTiled(Mpd) /\ loop.pos \in 1 .. Len(Mpd.periods)
      /\ Len(Mpd.periods) \in Nat /\ Window = WindowsOf(Mpd)[loop.pos]
  BY <1>1, StaticWindow
<1>5. OneMpd'
  BY <1>1, <1>2, <1>3 DEF OneMpd, InTick
<1>6. ASSUME NEW t \in Tracks
      PROVE  TrackInv(t)'
  <2>1. /\ session' = session /\ stream' = stream /\ holding' = holding /\ channel' = channel
        /\ Tracker(t)' = Tracker(t)
    BY <1>1 DEF Media, Tracker
  <2>2. Ready(t) /\ TrackInv(t)
    BY <1>1 DEF PlayInv, TrackInv
  <2>3. IsFresh(t) /\ holding[t] = <<>> /\ PassedOver(Mpd, loop.override, loop.pos)
    <3>1. SUFFICES ASSUME loop.pos > 1, loop.last = loop.pos - 1,
                          ~IsBeforeSeek(WindowsOf(Mpd)[loop.last], loop.override)
                   PROVE  FALSE
      BY <2>2 DEF Ready
    <3>2. loop.pos - 1 \in 1 .. Len(Mpd.periods) /\ loop.pos - 1 < loop.pos
      BY <1>4, <3>1
    <3>3. /\ WindowsOf(Mpd)[loop.pos - 1].end \in Nat
          /\ WindowsOf(Mpd)[loop.pos - 1].end # NoTime
          /\ WindowsOf(Mpd)[loop.pos].start \in Nat /\ WindowsOf(Mpd)[loop.pos].end \in Nat
          /\ WindowsOf(Mpd)[loop.pos].start < WindowsOf(Mpd)[loop.pos].end
          /\ WindowsOf(Mpd)[loop.pos - 1].end <= WindowsOf(Mpd)[loop.pos].start
      BY <1>4, <3>2, TiledIs
    <3>4. loop.override # NoTime /\ WindowsOf(Mpd)[loop.pos].end <= loop.override
      BY <1>1, <1>4 DEF IsBeforeSeek
    <3>5. loop.override \in Nat
      BY <1>1, <3>4, TypedFields, ControllerAssumption
    <3>6. ~(WindowsOf(Mpd)[loop.pos - 1].end <= loop.override)
      BY <3>1, <3>3, <3>4 DEF IsBeforeSeek
    <3> QED BY <3>3, <3>4, <3>5, <3>6
  <2>4. PassedOver(Mpd, loop.override, loop.pos + 1)
    <3>1. \A j \in 1 .. (loop.pos + 1) - 1 : j \in 1 .. loop.pos - 1 \/ j = loop.pos
      BY <1>4
    <3> QED BY <1>1, <1>4, <2>3, <3>1 DEF PassedOver
  <2>5. Ready(t)'
    BY <1>2, <1>3, <2>1, <2>3, <2>4 DEF Ready, IsFresh
  <2>6. Accounted(t) => Accounted(t)'
    BY <1>3, <2>1 DEF Accounted
  <2> QED BY <1>1, <1>2, <1>3, <2>1, <2>2, <2>5, <2>6 DEF TrackInv, InTick
<1> QED BY <1>5, <1>6 DEF PlayInv

LEMMA JoinKeepsPlay ==
    ASSUME AnnouncedInv, ~Dynamic, PlayInv, Join
    PROVE  PlayInv'
<1>1. /\ Typed /\ loop.at = "join" /\ loop.pos <= Len(loop.windows) /\ InTick
      /\ loop.last = Window.idx /\ Joined /\ ~Raised /\ OneMpd
      /\ UNCHANGED <<host, world, stream>> /\ Mpd' = Mpd
      /\ loop'.last = loop.last /\ loop'.snapshot = loop.snapshot
      /\ loop'.windows = loop.windows /\ loop'.now = loop.now
      /\ loop'.override = loop.override /\ loop'.gen = loop.gen
      /\ ~IsBeforeSeek(Window, loop.override)
  BY JoinedIs DEF PlayInv, InTick, InPeriod, AnnouncedInv, TickInv
<1>2. /\ loop.pos \in 1 .. Len(Mpd.periods) /\ Window = WindowsOf(Mpd)[loop.pos]
      /\ Window.idx = loop.pos /\ Len(Mpd.periods) \in Nat
  BY <1>1, StaticWindow
<1>3. \A t \in Tracks : holding[t] = <<>> /\ holding'[t] = stream[t].held
                        /\ stream[t].at = "returned" /\ TrackInv(t)
  <2>1. \A t \in Tracks : stream[t].at = "returned"
    BY <1>1 DEF Joined, Raised
  <2> QED BY <2>1, JoinedIs DEF PlayInv
<1>4. CASE host.seekGen = loop.gen
  <2>1. loop'.at = "periods" /\ loop'.pos = loop.pos + 1 /\ UNCHANGED <<session, channel>>
    BY <1>4, JoinedIs
  <2>2. OneMpd'
    BY <1>1, <2>1 DEF OneMpd, InTick
  <2>3. ASSUME NEW t \in Tracks
        PROVE  TrackInv(t)'
    <3>1. Tracker(t)' = Tracker(t) /\ channel' = channel /\ session' = session
      BY <2>1 DEF Tracker
    <3>2. ~host.stopped => Ready(t)'
      <4>1. SUFFICES ASSUME ~host.stopped PROVE Ready(t)'
        OBVIOUS
      <4>2. /\ session[t].haveInit
            /\ IsThrough(Mpd, channel[t], Tracker(t), stream[t].held, loop.pos)
        BY <1>1, <1>3, <1>4, <4>1 DEF TrackInv, Playing
      <4>3. loop'.pos > 1 /\ loop'.last = loop'.pos - 1 /\ loop'.last = loop.pos
        BY <1>1, <1>2, <2>1
      <4>4. ~IsBeforeSeek(WindowsOf(Mpd')[loop'.last], loop'.override)
        BY <1>1, <1>2, <4>3
      <4>5. session'[t].haveInit /\ holding'[t] = stream[t].held
        BY <1>3, <3>1, <4>2
      <4>6. IsThrough(Mpd', channel'[t], Tracker(t)', holding'[t], loop'.last)
        BY <1>1, <1>3, <3>1, <4>2, <4>3
      <4> QED BY <4>3, <4>4, <4>5, <4>6 DEF Ready
    <3>3. Accounted(t) => Accounted(t)'
      <4>1. ~\E k \in DOMAIN <<>> : TRUE
        OBVIOUS
      <4>2. \A i, n : ~HasItem(Mpd, holding[t], i, n)
        BY <1>3, <4>1 DEF HasItem
      <4> QED BY <1>1, <1>3, <3>1, <4>2 DEF Accounted
    <3> QED BY <1>1, <1>3, <2>1, <3>1, <3>2, <3>3 DEF TrackInv, InTick
  <2> QED BY <2>2, <2>3 DEF PlayInv
<1>5. CASE host.seekGen # loop.gen
  <2>1. /\ loop'.at \in {"done", "top"} /\ loop'.pos = loop.pos
        /\ session' = [t \in Tracks |-> NewSession] /\ channel' = [t \in Tracks |-> <<>>]
    BY <1>5, JoinedIs
  <2>2. OneMpd'
    BY <1>1, <2>1 DEF OneMpd, InTick
  <2>3. ASSUME NEW t \in Tracks
        PROVE  TrackInv(t)'
    <3>1. session'[t] = NewSession /\ channel'[t] = <<>>
      BY <2>1
    <3>2. IsFresh(t)'
      BY <3>1 DEF IsFresh
    <3>3. IsInOrder(Mpd', channel'[t])
      BY <3>1, NoLog
    <3>4. ~(host'.seekGen = loop'.gen)
      BY <1>1, <1>5
    <3> QED BY <2>1, <3>2, <3>3, <3>4 DEF TrackInv, InTick
  <2> QED BY <2>2, <2>3 DEF PlayInv
<1> QED BY <1>4, <1>5
-----------------------------------------------------------------------------
(* A static Period is entered.                                             *)

LEMMA KnownIs ==
    ASSUME AnnouncedInv, NEW t \in Tracks
    PROVE  /\ channel[t] \in Seq(Items) /\ IsKnown(Mpd, channel[t])
           /\ session[t] \in Sessions /\ Tracker(t) \in Trackers
           /\ Tracker(t) = session[t].tracker
           /\ stream[t] \in Streams /\ holding[t] \in Seq(Items)
<1>1. IsKnown(Mpd, channel[t])
  BY DEF AnnouncedInv, ChannelInv, IsKnown
<1>2. /\ channel[t] \in Seq(Items) /\ session[t] \in Sessions /\ stream[t] \in Streams
      /\ holding[t] \in Seq(Items)
  BY DEF AnnouncedInv, Typed
<1> QED BY <1>1, <1>2 DEF Tracker, Sessions

LEMMA AppendedNone ==
    ASSUME NEW log \in Seq(Items), NEW under, NEW new, Appended(log, <<>>, under, new)
    PROVE  new = log
<1>1. Len(new) = Len(log) /\ new \in Seq(Items)
  BY DEF Appended
<1>2. \A k \in 1 .. Len(log) : new[k] = log[k]
  BY DEF Appended
<1> QED BY <1>1, <1>2

(* A new session starts with an Init, at what is wanted.                   *)
LEMMA FreshEnters ==
    ASSUME AnnouncedInv, OneMpd, InTick, loop.pos <= Len(loop.windows),
           PassedOver(Mpd, loop.override, loop.pos)
    PROVE  LET n == AdvanceStartIndex(NewTracker, Segments, WantedHere, Window.start)
           IN  OnItsWay(Mpd, <<>>, NewTracker, "init", <<>>, loop.pos, n, loop.override,
                        WantedHere)
<1>1. /\ IsMpd(Mpd) /\ IsTiled(Mpd) /\ loop.pos \in 1 .. Len(Mpd.periods)
      /\ Window = WindowsOf(Mpd)[loop.pos] /\ IsListing(Segments, Mpd.periods[loop.pos].count)
      /\ WantedHere \in 1 .. Mpd.periods[loop.pos].count
  BY StaticWindow, WantedExists
<1>2. Window.start \in Nat /\ Mpd.periods[loop.pos].count \in Nat
  BY <1>1, TiledIs
<1>3. PICK count \in Nat : count = Mpd.periods[loop.pos].count
  BY <1>2
<1>4. PICK w \in 1 .. count : w = WantedHere
  BY <1>1, <1>3
<1>5. w \in Nat \ {0} /\ w \in 1 .. count + 1 /\ w \in 1 .. w /\ w .. w - 1 = {}
  BY <1>3, <1>4
<1>6. TrackerBelow(NewTracker, Window.start, w) /\ NewTracker \in Trackers
  BY <1>2, <1>5, NewIs
<1>7. AdvanceStartIndex(NewTracker, Segments, w, Window.start) = w
  <2>1. IsListing(Segments, count)
    BY <1>1, <1>3
  <2>2. \A m \in w .. w - 1 : IsDelivered(NewTracker, Segment(m), Window.start)
    BY <1>5
  <2> QED BY <1>2, <1>5, <1>6, <2>1, <2>2, GoesOn
<1>8. UpTo(Mpd, <<>>, loop.pos, w)
  BY NoLog, NoMedia
<1>9. w <= Mpd.periods[loop.pos].count
  BY <1>3, <1>4
<1>10. OnItsWay(Mpd, <<>>, NewTracker, "init", <<>>, loop.pos, w, loop.override, w)
  BY <1>1, <1>6, <1>8, <1>9 DEF OnItsWay, HeldAhead
<1> QED BY <1>4, <1>7, <1>10

\* How a track that went through the Period before goes on in the window.
Onward(log, tracker, held) ==
    LET soft         == SoftBetween(Mpd, loop.pos - 1, loop.pos)
        start(r)     == AdvanceStartIndex(r, Segments, WantedHere, Window.start)
        way(l, r, at) == OnItsWay(Mpd, l, r, at, <<>>, loop.pos, start(r), loop.override,
                                  WantedHere)
    IN  /\ ~soft => held = <<>> /\ way(log, NewTracker, "init")
        /\ soft /\ held = <<>> => way(log, SoftReset(tracker), "head")
        /\ soft /\ held # <<>> =>
               /\ held[1].number = 1
               /\ \A new : Put(Mpd, log, loop.pos, 1, new) /\ IsInOrder(Mpd, log) =>
                      IsInOrder(Mpd, new) /\ way(new, SoftReset(tracker), "head")

LEMMA ThroughEnters ==
    ASSUME AnnouncedInv, OneMpd, InTick, loop.pos <= Len(loop.windows), loop.pos > 1,
           ~IsBeforeSeek(WindowsOf(Mpd)[loop.pos - 1], loop.override),
           NEW log, NEW tracker \in Trackers, NEW held,
           IsThrough(Mpd, log, tracker, held, loop.pos - 1)
    PROVE  Onward(log, tracker, held)
<1> DEFINE i == loop.pos
           s == WindowsOf(Mpd)[loop.pos].start
           count == Mpd.periods[loop.pos].count
<1>1. /\ IsMpd(Mpd) /\ IsTiled(Mpd) /\ i \in 1 .. Len(Mpd.periods) /\ i \in DOMAIN Mpd.periods
      /\ Len(Mpd.periods) \in Nat
      /\ Window = WindowsOf(Mpd)[i] /\ IsListing(Segments, count) /\ WantedHere = 1
  BY StaticWindow, LaterWindow
<1>2. i - 1 \in 1 .. Len(Mpd.periods) /\ i - 1 < i /\ i \in Nat /\ (i - 1) + 1 = i
  BY <1>1
<1>3. /\ s \in Nat /\ count \in Nat \ {0}
      /\ WindowsOf(Mpd)[i - 1].start \in Nat /\ WindowsOf(Mpd)[i - 1].end \in Nat
      /\ WindowsOf(Mpd)[i - 1].start < s /\ WindowsOf(Mpd)[i - 1].end <= s
  BY <1>1, <1>2, TiledIs
<1>4. /\ EndsIn(Mpd, log, i - 1) /\ HasMedia(log) /\ UpTo(Mpd, log, i, 1)
      /\ HeldAhead(Mpd, tracker, held, i - 1)
  BY <1>2 DEF IsThrough
<1>5. Window.start = s
  BY <1>1
<1> HIDE DEF s, count
<1>6. ASSUME NEW r \in Trackers, NEW n \in 1 .. count + 1, TrackerBelow(r, s, n),
             n = 1 \/ (n = 2 /\ s < r.lastAbsEnd)
      PROVE  AdvanceStartIndex(r, Segments, WantedHere, Window.start) = n
  <2>1. 1 \in 1 .. n /\ n \in Nat
    BY <1>3
  <2>2. \A m \in 1 .. n - 1 : IsDelivered(r, Segment(m), s)
    <3>1. n = 2 => IsDelivered(r, Segment(1), s)
      BY <1>3, <1>6, DeliveredIs
    <3> QED BY <1>6, <3>1
  <2>3. AdvanceStartIndex(r, Segments, 1, s) = n
    BY <1>1, <1>3, <1>6, <2>1, <2>2, GoesOn
  <2> QED BY <1>1, <1>5, <2>3
<1>7. 1 \in 1 .. count + 1 /\ 2 \in 1 .. count + 1
  BY <1>3
<1>8. ASSUME ~SoftBetween(Mpd, i - 1, i)
      PROVE  /\ held = <<>>
             /\ OnItsWay(Mpd, log, NewTracker, "init", <<>>, i, 1, loop.override, WantedHere)
             /\ AdvanceStartIndex(NewTracker, Segments, WantedHere, Window.start) = 1
  <2>1. held = <<>>
    BY <1>2, <1>4, <1>8 DEF HeldAhead
  <2>2. NewTracker \in Trackers /\ TrackerBelow(NewTracker, s, 1)
    BY <1>3, NewIs
  <2>3. AdvanceStartIndex(NewTracker, Segments, WantedHere, Window.start) = 1
    BY <1>6, <1>7, <2>2
  <2>4. OnItsWay(Mpd, log, NewTracker, "init", <<>>, i, 1, loop.override, WantedHere)
    BY <1>4, <1>8, <2>2 DEF OnItsWay, HeldAhead, s
  <2> QED BY <2>1, <2>3, <2>4
<1>9. SoftReset(tracker) \in Trackers /\ SoftReset(tracker).lastAbsEnd = tracker.lastAbsEnd
  BY TrackerIs DEF SoftReset, Trackers
<1>10. ASSUME SoftBetween(Mpd, i - 1, i), held = <<>>
       PROVE  /\ OnItsWay(Mpd, log, SoftReset(tracker), "head", <<>>, i, 1, loop.override,
                          WantedHere)
              /\ AdvanceStartIndex(SoftReset(tracker), Segments, WantedHere, Window.start) = 1
  <2>1. tracker.lastAbsEnd <= s /\ tracker.periodStart <= s
    <3>1. /\ tracker.lastAbsEnd <= WindowsOf(Mpd)[i - 1].end
          /\ tracker.periodStart <= WindowsOf(Mpd)[i - 1].start
      BY <1>10 DEF IsThrough
    <3>2. tracker.lastAbsEnd \in Nat /\ tracker.periodStart \in Nat
      BY DEF Trackers
    <3> QED BY <1>3, <3>1, <3>2
  <2>2. TrackerBelow(SoftReset(tracker), s, 1)
    <3>1. 1 \in Nat \ {0}
      OBVIOUS
    <3> QED BY <1>3, <2>1, <3>1, BelowMoves
  <2>3. AdvanceStartIndex(SoftReset(tracker), Segments, WantedHere, Window.start) = 1
    BY <1>6, <1>7, <1>9, <2>2
  <2>4. OnItsWay(Mpd, log, SoftReset(tracker), "head", <<>>, i, 1, loop.override, WantedHere)
    BY <1>4, <1>10, <2>2 DEF OnItsWay, HeldAhead, s
  <2> QED BY <2>3, <2>4
<1>11. ASSUME SoftBetween(Mpd, i - 1, i), held # <<>>
       PROVE  /\ held[1].number = 1
              /\ AdvanceStartIndex(SoftReset(tracker), Segments, WantedHere, Window.start) = 2
              /\ \A new : Put(Mpd, log, i, 1, new) /\ IsInOrder(Mpd, log) =>
                     /\ IsInOrder(Mpd, new)
                     /\ OnItsWay(Mpd, new, SoftReset(tracker), "head", <<>>, i, 2, loop.override,
                                 WantedHere)
  <2>1. held[1].number = 1 /\ TrackerAhead(tracker, s)
    BY <1>2, <1>4, <1>11 DEF HeldAhead, s
  <2>2. TrackerBelow(SoftReset(tracker), s, 2)
    <3>1. 1 \in Nat \ {0}
      OBVIOUS
    <3> QED BY <1>3, <2>1, <3>1, BelowMoves
  <2>3. s < SoftReset(tracker).lastAbsEnd
    BY <1>3, <1>9, <2>1 DEF TrackerAhead
  <2>4. AdvanceStartIndex(SoftReset(tracker), Segments, WantedHere, Window.start) = 2
    BY <1>6, <1>7, <1>9, <2>2, <2>3
  <2>5. ASSUME NEW new, Put(Mpd, log, i, 1, new), IsInOrder(Mpd, log)
        PROVE  /\ IsInOrder(Mpd, new)
               /\ OnItsWay(Mpd, new, SoftReset(tracker), "head", <<>>, i, 2, loop.override,
                           WantedHere)
    <3>1. 1 \in Nat \ {0} /\ 1 \in Nat /\ 1 + 1 = 2
      OBVIOUS
    <3>2. IsInOrder(Mpd, new) /\ UpTo(Mpd, new, i, 1 + 1)
      BY <1>1, <1>4, <1>11, <2>5, <3>1, PutMedia
    <3>3. UpTo(Mpd, new, i, 2)
      BY <3>1, <3>2
    <3>4. EndsIn(Mpd, new, i) /\ HasMedia(new)
      BY <1>1, <2>5, <3>1, PutIs
    <3>5. OnItsWay(Mpd, new, SoftReset(tracker), "head", <<>>, i, 2, loop.override, WantedHere)
      BY <2>2, <3>3, <3>4 DEF OnItsWay, HeldAhead, s
    <3> QED BY <3>2, <3>5
  <2> QED BY <2>1, <2>4, <2>5
<1> QED BY <1>8, <1>10, <1>11 DEF Onward
-----------------------------------------------------------------------------
(* The steps of the run loop that enter a static Period.                   *)

LEMMA WithTracker ==
    ASSUME NEW s \in Sessions, NEW r
    PROVE  [s EXCEPT !.tracker = r] = [haveInit |-> s.haveInit, tracker |-> r]
BY DEF Sessions

(* Where a window is entered, what holds of the values of a track.         *)
LEMMA EnteredTrack ==
    ASSUME NEW t \in Tracks, Mpd' = Mpd, loop'.at = "preparing",
           UNCHANGED <<loop.windows, loop.pos, loop.override, loop.now>>,
           NEW have \in BOOLEAN, NEW tracker \in Trackers,
           session'[t] = [haveInit |-> have, tracker |-> tracker], tracker.keys = {},
           OnItsWay(Mpd, channel'[t], tracker, IF have THEN "head" ELSE "init", <<>>, loop.pos,
                    AdvanceStartIndex(tracker, Segments, WantedHere, Window.start),
                    loop.override, WantedHere),
           IsInOrder(Mpd, channel'[t]), Lands(Mpd, channel'[t], loop.override)
    PROVE  TrackInv(t)'
<1>1. Window' = Window /\ Segments' = Segments /\ WantedHere' = WantedHere
  BY SameWindow
<1>2. Tracker(t)' = tracker /\ session'[t].haveInit = have
  BY DEF Tracker
<1>3. Entered(t)'
  BY <1>1, <1>2 DEF Entered
<1>4. Accounted(t)'
  BY <1>2 DEF Accounted
<1> QED BY <1>3, <1>4 DEF TrackInv

LEMMA EnterPeriodKeepsPlay ==
    ASSUME AnnouncedInv, ~Dynamic, PlayInv, EnterPeriod
    PROVE  PlayInv'
<1> DEFINE i == loop.pos
           start(r) == AdvanceStartIndex(r, Segments, WantedHere, Window.start)
           way(l, r, at) == OnItsWay(Mpd, l, r, at, <<>>, i, start(r), loop.override, WantedHere)
<1>1. /\ Typed /\ OneMpd /\ loop.at = "periods" /\ InTick /\ loop.pos <= Len(loop.windows)
      /\ ~host.stopped /\ UNCHANGED <<host, world, stream>> /\ Mpd' = Mpd
      /\ loop'.at = "preparing" /\ loop'.last = Window.idx
      /\ loop'.snapshot = loop.snapshot /\ loop'.pos = loop.pos
      /\ loop'.windows = loop.windows /\ loop'.now = loop.now
      /\ loop'.override = loop.override /\ loop'.gen = loop.gen
      /\ period' = Mpd.periods[Window.idx].id
  BY EnteredIs DEF PlayInv, InTick
<1>2. /\ IsMpd(Mpd) /\ IsTiled(Mpd) /\ i \in 1 .. Len(Mpd.periods) /\ i \in DOMAIN Mpd.periods
      /\ Window.idx = i /\ Window = WindowsOf(Mpd)[i] /\ Len(Mpd.periods) \in Nat
  BY <1>1, StaticWindow
<1>3. OneMpd'
  BY <1>1 DEF OneMpd, InTick
<1>4. ASSUME NEW t \in Tracks, IsFresh(t), holding[t] = <<>>, PassedOver(Mpd, loop.override, i)
      PROVE  TrackInv(t)'
  <2>1. session'[t] = NewSession
    <3>1. CASE loop.last = Window.idx
      BY <1>4, <3>1, EnteredIs DEF IsFresh
    <3>2. CASE loop.last # Window.idx
      <4>1. ResetSession(Soft(LinkHere))
        BY <3>2, EnteredIs
      <4>2. session'[t] = IF Soft(LinkHere)
                          THEN [session[t] EXCEPT !.tracker = SoftReset(session[t].tracker)]
                          ELSE NewSession
        BY <4>1 DEF ResetSession
      <4>3. session[t] = NewSession /\ SoftReset(NewTracker) = NewTracker
        <5>1. 0 \in Nat /\ 1 \in Nat \ {0}
          OBVIOUS
        <5> QED BY <1>4, <5>1, NewIs DEF IsFresh
      <4>4. session[t].tracker = NewTracker /\ session[t].haveInit = FALSE
        BY <4>3 DEF NewSession
      <4>5. [session[t] EXCEPT !.tracker = NewTracker] = NewSession
        <5>1. session[t] \in Sessions
          BY KnownIs
        <5>2. [session[t] EXCEPT !.tracker = NewTracker]
                  = [haveInit |-> session[t].haveInit, tracker |-> NewTracker]
          BY <5>1, WithTracker
        <5> QED BY <4>4, <5>2 DEF NewSession
      <4> QED BY <4>2, <4>3, <4>4, <4>5
    <3> QED BY <3>1, <3>2
  <2>2. channel'[t] = <<>>
    <3>1. CASE loop.last = Window.idx
      BY <1>4, <3>1, EnteredIs DEF IsFresh
    <3>2. CASE loop.last # Window.idx
      <4>1. Appended(channel[t], <<>>, period', channel'[t]) /\ channel[t] \in Seq(Items)
        BY <1>4, <3>2, FlushedIs
      <4> QED BY <1>4, <4>1, AppendedNone DEF IsFresh
    <3> QED BY <3>1, <3>2
  <2>3. way(<<>>, NewTracker, "init")
    BY <1>1, <1>4, FreshEnters
  <2>4. session'[t] = [haveInit |-> FALSE, tracker |-> NewTracker] /\ NewTracker \in Trackers
        /\ NewTracker.keys = {}
    BY <2>1, TrackerIs DEF NewSession, NewTracker
  <2>5. IsInOrder(Mpd, <<>>) /\ Lands(Mpd, <<>>, loop.override)
    BY NoLog
  <2> HIDE DEF i
  <2> QED BY <1>1, <2>2, <2>3, <2>4, <2>5, EnteredTrack DEF i
<1>5. ASSUME NEW t \in Tracks, loop.pos > 1, loop.last = loop.pos - 1,
             ~IsBeforeSeek(WindowsOf(Mpd)[loop.last], loop.override), session[t].haveInit,
             IsThrough(Mpd, channel[t], Tracker(t), holding[t], loop.last), TrackInv(t)
      PROVE  TrackInv(t)'
  <2> DEFINE log == channel[t]
             held == holding[t]
             tracker == Tracker(t)
             soft == SoftBetween(Mpd, loop.pos - 1, loop.pos)
  <2>1. loop.last # Window.idx /\ loop.last # 0
    BY <1>2, <1>5
  <2>2. soft = Soft(LinkHere) /\ soft \in BOOLEAN
    BY <1>2, <1>5, <2>1 DEF LinkHere, SoftBetween, Soft
  <2>3. /\ log \in Seq(Items) /\ IsKnown(Mpd, log) /\ tracker \in Trackers
        /\ session[t] \in Sessions /\ tracker = session[t].tracker
    BY KnownIs
  <2>4. IsInOrder(Mpd, log) /\ Lands(Mpd, log, loop.override) /\ HasMedia(log)
    BY <1>1, <1>5 DEF TrackInv, IsThrough
  <2>5. session'[t] = IF soft THEN [haveInit |-> TRUE, tracker |-> SoftReset(tracker)]
                      ELSE [haveInit |-> FALSE, tracker |-> NewTracker]
    <3>1. ResetSession(Soft(LinkHere))
      BY <2>1, EnteredIs
    <3>2. session'[t] = IF soft THEN [session[t] EXCEPT !.tracker = SoftReset(tracker)]
                        ELSE NewSession
      BY <2>2, <2>3, <3>1 DEF ResetSession
    <3>3. [session[t] EXCEPT !.tracker = SoftReset(tracker)]
              = [haveInit |-> TRUE, tracker |-> SoftReset(tracker)]
      <4>1. session[t].haveInit = TRUE
        BY <1>5, <2>3 DEF Sessions
      <4>2. [session[t] EXCEPT !.tracker = SoftReset(tracker)]
                = [haveInit |-> session[t].haveInit, tracker |-> SoftReset(tracker)]
        BY <2>3, WithTracker
      <4> QED BY <4>1, <4>2
    <3> HIDE DEF soft
    <3> QED BY <3>2, <3>3 DEF NewSession
  <2>6. /\ Appended(log, held, period', channel'[t]) /\ held \in Seq(Items)
        /\ Len(held) \in {0, 1} /\ (Len(held) = 0 => held = <<>>)
        /\ held # <<>> => Len(held) = 1 /\ held[1].period = period'
    BY <2>1, FlushedIs
  <2>7. /\ SoftReset(tracker) \in Trackers /\ SoftReset(tracker).keys = {}
        /\ NewTracker \in Trackers /\ NewTracker.keys = {}
    <3>1. 0 \in Nat /\ 1 \in Nat \ {0}
      OBVIOUS
    <3>2. SoftReset(tracker).keys = {} /\ NewTracker.keys = {}
      BY <2>3, <3>1, BelowMoves, NewIs
    <3> QED BY <2>3, <3>2, TrackerIs
  <2>8. /\ ~soft => held = <<>> /\ way(log, NewTracker, "init")
        /\ soft /\ held = <<>> => way(log, SoftReset(tracker), "head")
        /\ soft /\ held # <<>> =>
               /\ held[1].number = 1
               /\ \A new : Put(Mpd, log, i, 1, new) /\ IsInOrder(Mpd, log) =>
                      IsInOrder(Mpd, new) /\ way(new, SoftReset(tracker), "head")
    <3>1. /\ ~IsBeforeSeek(WindowsOf(Mpd)[loop.pos - 1], loop.override)
          /\ IsThrough(Mpd, log, tracker, held, loop.pos - 1)
      BY <1>5
    <3>2. Onward(log, tracker, held)
      BY <1>1, <1>5, <2>3, <3>1, ThroughEnters
    <3> QED BY <3>2 DEF Onward
  <2>9. held = <<>> => channel'[t] = log
    BY <2>3, <2>6, AppendedNone
  <2> HIDE DEF soft, held, tracker
  <2>10. CASE ~soft
    <3>1. channel'[t] = log /\ way(log, NewTracker, "init")
      BY <2>8, <2>9, <2>10
    <3>2. session'[t] = [haveInit |-> FALSE, tracker |-> NewTracker]
      BY <2>5, <2>10
    <3> HIDE DEF i, log
    <3> QED BY <1>1, <2>4, <2>7, <3>1, <3>2, EnteredTrack DEF i
  <2>11. CASE soft /\ held = <<>>
    <3>1. channel'[t] = log /\ way(log, SoftReset(tracker), "head")
      BY <2>8, <2>9, <2>11
    <3>2. session'[t] = [haveInit |-> TRUE, tracker |-> SoftReset(tracker)]
      BY <2>5, <2>11
    <3> HIDE DEF i, log
    <3> QED BY <1>1, <2>4, <2>7, <3>1, <3>2, EnteredTrack DEF i
  <2>12. CASE soft /\ held # <<>>
    <3>1. Len(held) = 1 /\ held[1].period = period' /\ held[1].number = 1
      BY <2>6, <2>8, <2>12
    <3>2. Put(Mpd, log, i, 1, channel'[t])
      <4>1. /\ channel'[t] \in Seq(Items) /\ Len(channel'[t]) = Len(log) + 1
            /\ \A k \in 1 .. Len(log) : channel'[t][k] = log[k]
            /\ channel'[t][Len(log) + 1].period = period'
            /\ channel'[t][Len(log) + 1].number = 1
        BY <2>6, <3>1 DEF Appended
      <4> QED BY <1>1, <1>2, <2>3, <4>1 DEF Put, IsAt
    <3>3. IsInOrder(Mpd, channel'[t]) /\ way(channel'[t], SoftReset(tracker), "head")
      BY <2>4, <2>8, <2>12, <3>2
    <3>4. Lands(Mpd, channel'[t], loop.override)
      <4>1. 1 \in Nat
        OBVIOUS
      <4> QED BY <1>2, <2>4, <3>2, <4>1, PutLands
    <3>5. session'[t] = [haveInit |-> TRUE, tracker |-> SoftReset(tracker)]
      BY <2>5, <2>12
    <3> HIDE DEF i, log
    <3> QED BY <1>1, <2>7, <3>3, <3>4, <3>5, EnteredTrack DEF i
  <2> QED BY <2>10, <2>11, <2>12
<1>6. ASSUME NEW t \in Tracks
      PROVE  TrackInv(t)'
  <2>1. TrackInv(t) /\ Ready(t)
    BY <1>1 DEF PlayInv, TrackInv
  <2> QED BY <1>4, <1>5, <2>1 DEF Ready
<1> QED BY <1>3, <1>6 DEF PlayInv

LEMMA StartStreamsKeepsPlay ==
    ASSUME AnnouncedInv, ~Dynamic, PlayInv, StartStreams
    PROVE  PlayInv'
<1>1. /\ Typed /\ OneMpd /\ loop.at = "preparing" /\ InTick
      /\ UNCHANGED <<host, world, holding, channel, period>> /\ Mpd' = Mpd
      /\ loop'.at = "join" /\ loop'.snapshot = loop.snapshot /\ loop'.pos = loop.pos
      /\ loop'.windows = loop.windows /\ loop'.now = loop.now
      /\ loop'.override = loop.override /\ loop'.gen = loop.gen
  BY StartedIs DEF PlayInv, InTick
<1>2. OneMpd'
  BY <1>1 DEF OneMpd, InTick
<1>3. Window' = Window /\ Segments' = Segments /\ WantedHere' = WantedHere
  BY <1>1, SameWindow
<1>4. ASSUME NEW t \in Tracks
      PROVE  TrackInv(t)'
  <2> DEFINE at == IF session[t].haveInit THEN "head" ELSE "init"
             n == AdvanceStartIndex(Tracker(t), Segments, WantedHere, Window.start)
  <2>1. /\ stream'[t] = [ at |-> at, gen |-> host.seekGen,
                          cursor |-> StartIndex(Segments, session[t].tracker), held |-> <<>> ]
        /\ session'[t] = [haveInit |-> TRUE, tracker |-> session[t].tracker]
    BY StartedIs
  <2>2. StartIndex(Segments, session[t].tracker) = n
    BY StartIndexIs DEF WantedHere, Tracker
  <2>3. TrackInv(t) /\ Entered(t)
    BY <1>1 DEF PlayInv, TrackInv
  <2>4. Tracker(t)' = Tracker(t) /\ session'[t].haveInit
    BY <2>1 DEF Tracker
  <2>5. /\ Tracker(t).keys = {}
        /\ OnItsWay(Mpd, channel[t], Tracker(t), at, <<>>, loop.pos, n, loop.override, WantedHere)
    BY <2>3 DEF Entered
  <2> HIDE DEF n
  <2>6. /\ stream'[t].at = at /\ stream'[t].gen = host.seekGen /\ stream'[t].cursor = n
        /\ stream'[t].held = <<>> /\ stream'[t].at \in {"head", "init"}
    BY <2>1, <2>2
  <2>7. Accounted(t)'
    BY <2>4, <2>5 DEF Accounted
  <2>8. loop.gen <= host.seekGen /\ host.seekGen \in Nat
    BY <1>1, TypedFields DEF OneMpd
  <2>9. Playing(t)'
    <3>1. host.seekGen <= host.seekGen
      BY <2>8
    <3>2. stream'[t].at # "off" /\ stream'[t].at # "returned"
      BY <2>6
    <3>3. OnItsWay(Mpd', channel'[t], Tracker(t)', stream'[t].at, stream'[t].held, loop'.pos,
                   stream'[t].cursor, loop'.override, WantedHere')
      BY <1>1, <1>3, <2>4, <2>5, <2>6
    <3> QED BY <1>1, <2>4, <2>6, <2>8, <3>1, <3>2, <3>3 DEF Playing
  <2>10. IsInOrder(Mpd', channel'[t]) /\ Lands(Mpd', channel'[t], loop'.override)
    BY <1>1, <2>3 DEF TrackInv
  <2> QED BY <1>1, <2>7, <2>9, <2>10 DEF TrackInv
<1> QED BY <1>2, <1>4 DEF PlayInv

-----------------------------------------------------------------------------
(* The streams of a static Period.                                         *)

\* What is marked was sent, waits, or is held.
Explained(mpd, log, tracker, waiting, held) ==
    \A i \in DOMAIN mpd.periods : \A n \in tracker.keys :
        WindowsOf(mpd)[i].start = tracker.periodStart =>
            HasItem(mpd, log, i, n) \/ HasItem(mpd, waiting, i, n) \/ HasItem(mpd, held, i, n)

Unsought == ~host.stopped /\ host.seekGen = loop.gen

\* What a step may make of a stream, of its log and of its session.
Going(t, log, have, tracker, q) ==
    /\ IsInOrder(Mpd, log) /\ Lands(Mpd, log, loop.override)
    /\ q.gen = stream[t].gen /\ q.at # "off"
    /\ q.at \notin Resting =>
           have /\ OnItsWay(Mpd, log, tracker, q.at, q.held, loop.pos, q.cursor, loop.override,
                            WantedHere)
    /\ Unsought /\ q.at = "returned" =>
           have /\ IsThrough(Mpd, log, tracker, q.held, loop.pos)
    /\ Unsought => Explained(Mpd, log, tracker, holding[t], q.held)

LEMMA RunningPlays ==
    ASSUME AnnouncedInv, PlayInv, NEW t \in Tracks, stream[t].at \notin Resting
    PROVE  /\ Typed /\ OneMpd /\ loop.at = "join" /\ InTick /\ loop.pos <= Len(loop.windows)
           /\ IsMpd(Mpd) /\ IsTiled(Mpd) /\ ~Mpd.dynamic
           /\ loop.pos \in 1 .. Len(Mpd.periods) /\ loop.pos \in DOMAIN Mpd.periods
           /\ Len(Mpd.periods) \in Nat
           /\ Window.idx = loop.pos /\ Window = WindowsOf(Mpd)[loop.pos] /\ Window.start \in Nat
           /\ Window.start + Mpd.periods[loop.pos].count <= Window.end /\ Window.end \in Nat
           /\ Mpd.periods[loop.pos].count \in Nat \ {0}
           /\ IsListing(Segments, Mpd.periods[loop.pos].count)
           /\ Len(Segments) = Mpd.periods[loop.pos].count
           /\ ~IsBeforeSeek(Window, loop.override)
           /\ period = Mpd.periods[loop.pos].id
           /\ channel[t] \in Seq(Items) /\ IsKnown(Mpd, channel[t]) /\ Tracker(t) \in Trackers
           /\ session[t].haveInit /\ Placed(t, stream[t]) /\ stream[t] \in Streams
           /\ stream[t].cursor \in 1 .. Mpd.periods[loop.pos].count + 1
           /\ stream[t].cursor \in Nat \ {0}
           /\ IsInOrder(Mpd, channel[t]) /\ Lands(Mpd, channel[t], loop.override)
           /\ OnItsWay(Mpd, channel[t], Tracker(t), stream[t].at, stream[t].held, loop.pos,
                       stream[t].cursor, loop.override, WantedHere)
           /\ Unsought => Explained(Mpd, channel[t], Tracker(t), holding[t], stream[t].held)
           /\ loop.gen \in Nat /\ host.seekGen \in Nat /\ stream[t].gen \in Nat
           /\ loop.gen <= stream[t].gen /\ stream[t].gen <= host.seekGen
           /\ Interrupted(t) => ~Unsought
<1>1. /\ Typed /\ loop.at = "join" /\ InTick /\ loop.pos <= Len(loop.windows) /\ OneMpd
      /\ Placed(t, stream[t]) /\ period = Mpd.periods[Window.idx].id
      /\ stream[t].cursor \in 1 .. Len(Segments) + 1 /\ TrackInv(t) /\ Len(Segments) \in Nat
  BY RunningIs DEF PlayInv
<1>2. /\ IsMpd(Mpd) /\ IsTiled(Mpd) /\ ~Mpd.dynamic
      /\ loop.pos \in 1 .. Len(Mpd.periods) /\ loop.pos \in DOMAIN Mpd.periods
      /\ Len(Mpd.periods) \in Nat /\ Window.idx = loop.pos /\ Window = WindowsOf(Mpd)[loop.pos]
      /\ IsListing(Segments, Mpd.periods[loop.pos].count)
  BY <1>1, StaticWindow
<1>3. /\ Window.start \in Nat /\ Window.end \in Nat /\ Mpd.periods[loop.pos].count \in Nat \ {0}
      /\ Window.start + Mpd.periods[loop.pos].count <= Window.end
  BY <1>2, TiledIs
<1>4. Len(Segments) = Mpd.periods[loop.pos].count
  BY <1>2 DEF IsListing
<1>5. ~IsBeforeSeek(Window, loop.override)
  BY <1>1 DEF AnnouncedInv, TickInv, InPeriod
<1>6. /\ channel[t] \in Seq(Items) /\ IsKnown(Mpd, channel[t]) /\ Tracker(t) \in Trackers
      /\ stream[t] \in Streams
  BY KnownIs
<1>7. stream[t].cursor \in Nat \ {0} /\ stream[t].gen \in Nat /\ loop.gen \in Nat
      /\ host.seekGen \in Nat
  BY <1>1, <1>6, TypedFields DEF Streams
<1>8. Playing(t) /\ IsInOrder(Mpd, channel[t]) /\ Lands(Mpd, channel[t], loop.override)
  BY <1>1 DEF TrackInv
<1>9. Unsought => Explained(Mpd, channel[t], Tracker(t), holding[t], stream[t].held)
  BY <1>1 DEF TrackInv, Unsought, Explained, Accounted
<1>10. /\ loop.gen <= stream[t].gen /\ stream[t].gen <= host.seekGen /\ session[t].haveInit
       /\ OnItsWay(Mpd, channel[t], Tracker(t), stream[t].at, stream[t].held, loop.pos,
                   stream[t].cursor, loop.override, WantedHere)
  BY <1>8 DEF Playing
<1>11. Interrupted(t) => ~Unsought
  BY <1>7, <1>10 DEF Interrupted, Unsought
<1>12. stream[t].cursor \in 1 .. Mpd.periods[loop.pos].count + 1
  BY <1>1, <1>4
<1> QED
  BY <1>1, <1>2, <1>3, <1>4, <1>5, <1>6, <1>7, <1>8, <1>9, <1>10, <1>11, <1>12

LEMMA StreamKeepsPlay ==
    ASSUME AnnouncedInv, PlayInv, NEW t \in Tracks, stream[t].at \notin Resting,
           UNCHANGED <<host, world, loop, holding>>,
           stream' = [stream EXCEPT ![t] = stream'[t]],
           \A u \in Tracks : u # t => session'[u] = session[u] /\ channel'[u] = channel[u],
           Going(t, channel'[t], session'[t].haveInit, session'[t].tracker, stream'[t])
    PROVE  PlayInv'
<1>1. /\ Typed /\ OneMpd /\ loop.at = "join" /\ loop.gen <= stream[t].gen
      /\ stream[t].gen <= host.seekGen
  BY RunningPlays
<1>2. Mpd' = Mpd
  BY DEF Mpd, Published
<1>3. OneMpd'
  BY <1>1, <1>2 DEF OneMpd, InTick
<1>4. Window' = Window /\ Segments' = Segments /\ WantedHere' = WantedHere
  BY <1>2, SameWindow
<1>5. TrackInv(t)'
  <2>1. Tracker(t)' = session'[t].tracker
    BY DEF Tracker
  <2>2. Playing(t)'
    BY <1>1, <1>2, <1>4, <2>1 DEF Playing, Going, Unsought
  <2>3. Unsought => Accounted(t)'
    BY <1>2, <2>1 DEF Going, Explained, Accounted
  <2>4. IsInOrder(Mpd, channel'[t]) /\ Lands(Mpd, channel'[t], loop.override)
    BY DEF Going
  <2> QED BY <1>1, <1>2, <2>2, <2>3, <2>4 DEF TrackInv, Unsought
<1>6. ASSUME NEW u \in Tracks, u # t
      PROVE  TrackInv(u)'
  <2>1. /\ session'[u] = session[u] /\ channel'[u] = channel[u] /\ stream'[u] = stream[u]
        /\ Tracker(u)' = Tracker(u) /\ TrackInv(u)
    BY <1>1, <1>6 DEF Typed, Tracker, PlayInv
  <2>2. Playing(u) => Playing(u)'
    BY <1>2, <1>4, <2>1 DEF Playing
  <2>3. Accounted(u) => Accounted(u)'
    BY <1>2, <2>1 DEF Accounted
  <2> QED BY <1>1, <1>2, <2>1, <2>2, <2>3 DEF TrackInv, InTick
<1> QED BY <1>3, <1>5, <1>6 DEF PlayInv

(* An item that a stream gives.                                            *)
LEMMA GivenPut ==
    ASSUME AnnouncedInv, PlayInv, NEW t \in Tracks, stream[t].at \notin Resting,
           NEW n \in Nat, Gives(t, n)
    PROVE  /\ Put(Mpd, channel[t], loop.pos, n, channel'[t])
           /\ \A u \in Tracks : u # t => channel'[u] = channel[u]
<1>1. /\ channel[t] \in Seq(Items) /\ IsKnown(Mpd, channel[t])
      /\ period = Mpd.periods[loop.pos].id
  BY RunningPlays
<1>2. /\ channel' \in [Tracks -> Seq(Items)]
      /\ Appended(channel[t], <<Item(Window.idx, n)>>, period, channel'[t])
      /\ \A k \in 1 .. Len(channel[t]) : channel'[t][k] = channel[t][k]
      /\ channel'[t][Len(channel[t]) + 1].period = period
      /\ channel'[t][Len(channel[t]) + 1].number = n
      /\ \A u \in Tracks : u # t => channel'[u] = channel[u]
  BY GivenIs
<1>3. Len(channel'[t]) = Len(channel[t]) + 1 /\ channel'[t] \in Seq(Items)
  <2>1. Len(<<Item(Window.idx, n)>>) = 1
    OBVIOUS
  <2> QED BY <1>2, <2>1 DEF Appended
<1> QED BY <1>1, <1>2, <1>3 DEF Put, IsAt

LEMMA InitStepKeepsPlay ==
    ASSUME AnnouncedInv, PlayInv, NEW t \in Tracks,
           InitFetched(t) \/ InitFails(t) \/ FetchFails(t)
    PROVE  PlayInv'
<1> DEFINE q == stream[t]
           i == loop.pos
<1>1. q.at \notin Resting
  BY DEF InitFetched, InitFails, FetchFails, Resting
<1>2. /\ Typed /\ IsMpd(Mpd) /\ i \in DOMAIN Mpd.periods /\ Window.idx = i /\ q \in Streams
      /\ session[t].haveInit /\ q.cursor \in Nat \ {0}
      /\ IsInOrder(Mpd, channel[t]) /\ Lands(Mpd, channel[t], loop.override)
      /\ OnItsWay(Mpd, channel[t], Tracker(t), q.at, q.held, i, q.cursor, loop.override,
                  WantedHere)
      /\ Unsought => Explained(Mpd, channel[t], Tracker(t), holding[t], q.held)
  BY <1>1, RunningPlays
<1>3. /\ stream \in [Tracks -> Streams] /\ session \in [Tracks -> Sessions]
      /\ channel \in [Tracks -> Seq(Items)]
  BY <1>2 DEF Typed
<1>4. CASE InitFetched(t)
  <2>1. /\ q.at = "init" /\ UNCHANGED <<host, world, loop, session, holding, emitted, period>>
        /\ stream' = [stream EXCEPT ![t] = [q EXCEPT !.at = "head"]] /\ Gives(t, 0)
    BY <1>2, <1>3, <1>4 DEF InitFetched, Gives
  <2>2. stream' = [stream EXCEPT ![t] = stream'[t]] /\ stream'[t] = [q EXCEPT !.at = "head"]
    BY <1>3, <2>1
  <2>3. /\ stream'[t].at = "head" /\ stream'[t].held = q.held /\ stream'[t].gen = q.gen
        /\ stream'[t].cursor = q.cursor
    BY <1>2, <2>2 DEF Streams
  <2>4. 0 \in Nat
    OBVIOUS
  <2>5. /\ Put(Mpd, channel[t], i, 0, channel'[t])
        /\ \A u \in Tracks : u # t => channel'[u] = channel[u]
    BY <1>1, <2>1, <2>4, GivenPut
  <2> DEFINE log == channel[t]
             new == channel'[t]
             n == q.cursor
  <2>6. /\ UpTo(Mpd, log, i, n) /\ q.held = <<>>
        /\ log = <<>> \/ (i > 1 /\ n = 1 /\ EndsIn(Mpd, log, i - 1) /\ ~SoftBetween(Mpd, i - 1, i))
        /\ HasMedia(log) \/ (PassedOver(Mpd, loop.override, i) /\ n = WantedHere
                             /\ n <= Mpd.periods[i].count)
        /\ TrackerBelow(Tracker(t), WindowsOf(Mpd)[i].start, n)
    BY <1>2, <2>1 DEF OnItsWay
  <2> HIDE DEF log, new, n, i, q
  <2>7. IsInOrder(Mpd, new) /\ UpTo(Mpd, new, i, n)
    BY <1>2, <2>5, <2>6, PutInit DEF log, new, n
  <2>8. Lands(Mpd, new, loop.override)
    BY <1>2, <2>4, <2>5, PutLands DEF log, new
  <2>9. /\ EndsIn(Mpd, new, i) /\ (HasMedia(log) => HasMedia(new))
        /\ \A j, m : HasItem(Mpd, log, j, m) => HasItem(Mpd, new, j, m)
    BY <1>2, <2>4, <2>5, PutIs DEF log, new
  <2>10. OnItsWay(Mpd, new, Tracker(t), "head", <<>>, i, n, loop.override, WantedHere)
    BY <2>6, <2>7, <2>9 DEF OnItsWay, HeldAhead
  <2>11. Unsought => Explained(Mpd, new, Tracker(t), holding[t], q.held)
    BY <1>2, <2>9 DEF Explained, log, new
  <2>12. session'[t].haveInit /\ session'[t].tracker = Tracker(t)
    BY <1>2, <2>1 DEF Tracker
  <2>13. Going(t, new, session'[t].haveInit, session'[t].tracker, stream'[t])
    BY <2>3, <2>6, <2>7, <2>8, <2>10, <2>11, <2>12 DEF Going, Resting, n, i, q
  <2> QED BY <1>1, <2>1, <2>2, <2>5, <2>13, StreamKeepsPlay DEF new, q
<1>5. CASE InitFails(t) \/ FetchFails(t)
  <2>1. /\ stream' = [stream EXCEPT ![t] = [q EXCEPT !.at = "raised"]]
        /\ session' = session \/ session' = [session EXCEPT ![t] = [session[t] EXCEPT !.haveInit = FALSE]]
        /\ UNCHANGED <<host, world, loop, holding, channel>>
    BY <1>3, <1>5 DEF InitFails, FetchFails, Step
  <2>2. stream' = [stream EXCEPT ![t] = stream'[t]] /\ stream'[t] = [q EXCEPT !.at = "raised"]
    BY <1>3, <2>1
  <2>3. stream'[t].at = "raised" /\ stream'[t].held = q.held /\ stream'[t].gen = q.gen
    BY <1>2, <2>2 DEF Streams
  <2>4. session'[t].tracker = Tracker(t) /\ \A u \in Tracks : u # t => session'[u] = session[u]
    BY <1>3, <2>1 DEF Tracker, Sessions
  <2>5. Going(t, channel'[t], session'[t].haveInit, session'[t].tracker, stream'[t])
    BY <1>2, <2>1, <2>3, <2>4 DEF Going, Resting
  <2> QED BY <1>1, <2>1, <2>2, <2>4, <2>5, StreamKeepsPlay
<1> QED BY <1>4, <1>5

(* The loop's head: the next segment is the cursor's, unless the next      *)
(* Period's first is held; then this one is left.                          *)
LEMMA NextIs ==
    ASSUME AnnouncedInv, PlayInv, NEW t \in Tracks, stream[t].at = "head"
    PROVE  LET n    == stream[t].cursor
               held == stream[t].held
               i    == loop.pos
           IN  /\ held = <<>> => NextAt(t) = n
               /\ held # <<>> =>
                      /\ NextAt(t) = Mpd.periods[i].count + 1
                      /\ i < Len(Mpd.periods) /\ SoftBetween(Mpd, i, i + 1)
<1> DEFINE n == stream[t].cursor
           held == stream[t].held
           i == loop.pos
           tracker == Tracker(t)
           s == Window.start
           count == Mpd.periods[loop.pos].count
<1>1. stream[t].at \notin Resting
  BY DEF Resting
<1>2. /\ Typed /\ IsMpd(Mpd) /\ IsTiled(Mpd) /\ i \in 1 .. Len(Mpd.periods)
      /\ Len(Mpd.periods) \in Nat /\ Window.idx = i /\ Window = WindowsOf(Mpd)[i] /\ s \in Nat
      /\ s + count <= Window.end /\ Window.end \in Nat /\ count \in Nat \ {0}
      /\ IsListing(Segments, count) /\ tracker \in Trackers /\ Placed(t, stream[t])
      /\ n \in 1 .. count + 1 /\ n \in Nat \ {0}
      /\ OnItsWay(Mpd, channel[t], tracker, "head", held, i, n, loop.override, WantedHere)
  BY <1>1, RunningPlays
<1>3. NextAt(t) = AdvanceStartIndex(tracker, Segments, n, s)
  BY DEF NextAt
<1> HIDE DEF n, held, tracker, s, count
<1>4. ASSUME held = <<>>
      PROVE  NextAt(t) = n
  <2>1. TrackerBelow(tracker, s, n)
    BY <1>2, <1>4 DEF OnItsWay, s
  <2>2. n \in 1 .. n /\ \A m \in n .. n - 1 : IsDelivered(tracker, Segment(m), s)
    BY <1>2
  <2> QED BY <1>2, <1>3, <2>1, <2>2, GoesOn
<1>5. ASSUME held # <<>>
      PROVE  /\ NextAt(t) = count + 1
             /\ i < Len(Mpd.periods) /\ SoftBetween(Mpd, i, i + 1)
  <2>1. i < Len(Mpd.periods)
    BY <1>2, <1>5 DEF Placed, Ahead, held
  <2>2. SoftBetween(Mpd, i, i + 1) /\ TrackerAhead(tracker, WindowsOf(Mpd)[i + 1].start)
    BY <1>2, <1>5 DEF OnItsWay, HeldAhead
  <2>3. i + 1 \in 1 .. Len(Mpd.periods) /\ i < i + 1
    BY <1>2, <2>1
  <2>4. PICK next \in Nat : next = WindowsOf(Mpd)[i + 1].start
    BY <1>2, <2>3, TiledIs
  <2>5. Window.end <= next
    BY <1>2, <2>3, <2>4, TiledIs
  <2>6. s + count <= next
    BY <1>2, <2>5
  <2>7. NextAt(t) = count + 1
    BY <1>2, <1>3, <2>2, <2>4, <2>6, AllBehind
  <2> QED BY <2>1, <2>2, <2>7
<1> QED BY <1>4, <1>5 DEF n, held, count

(* A stream with nothing left has gone through its Period.                 *)
LEMMA LeftIsThrough ==
    ASSUME AnnouncedInv, PlayInv, NEW t \in Tracks, stream[t].at = "head",
           NextAt(t) = Mpd.periods[loop.pos].count + 1
    PROVE  IsThrough(Mpd, channel[t], Tracker(t), stream[t].held, loop.pos)
<1> DEFINE n == stream[t].cursor
           held == stream[t].held
           i == loop.pos
           tracker == Tracker(t)
           s == Window.start
           count == Mpd.periods[loop.pos].count
           log == channel[t]
<1>1. stream[t].at \notin Resting
  BY DEF Resting
<1>2. /\ Typed /\ IsMpd(Mpd) /\ IsTiled(Mpd) /\ i \in 1 .. Len(Mpd.periods)
      /\ i \in DOMAIN Mpd.periods /\ log \in Seq(Items) /\ IsKnown(Mpd, log)
      /\ Len(Mpd.periods) \in Nat /\ Window = WindowsOf(Mpd)[i] /\ s \in Nat
      /\ s + count <= Window.end /\ Window.end \in Nat /\ count \in Nat \ {0}
      /\ tracker \in Trackers /\ n \in 1 .. count + 1 /\ n \in Nat \ {0}
      /\ OnItsWay(Mpd, log, tracker, "head", held, i, n, loop.override, WantedHere)
  BY <1>1, RunningPlays
<1>3. /\ held = <<>> => NextAt(t) = n
      /\ held # <<>> => i < Len(Mpd.periods) /\ SoftBetween(Mpd, i, i + 1)
  BY NextIs
<1> HIDE DEF n, held, tracker, s, count, log, i
<1>4. UpTo(Mpd, log, i, n) /\ HeldAhead(Mpd, tracker, held, i)
  BY <1>2 DEF OnItsWay
<1>5. CASE held = <<>>
  <2>1. n = count + 1 /\ n # 1
    BY <1>2, <1>3, <1>5 DEF count
  <2>2. EndsIn(Mpd, log, i) /\ HasMedia(log)
    <3>1. ~(n <= count)
      BY <1>2, <2>1
    <3> QED BY <1>2, <2>1, <3>1 DEF OnItsWay, count, i
  <2>3. UpTo(Mpd, log, i + 1, 1)
    BY <1>2, <1>4, <2>1, NextPeriod DEF count, i
  <2>4. tracker.lastAbsEnd <= WindowsOf(Mpd)[i].end
        /\ tracker.periodStart <= WindowsOf(Mpd)[i].start
    <3>1. tracker.lastAbsEnd <= s + n - 1 /\ tracker.periodStart <= s
      BY <1>2, <1>5 DEF OnItsWay, TrackerBelow, s
    <3>2. tracker.lastAbsEnd \in Nat
      BY <1>2 DEF Trackers
    <3>3. tracker.lastAbsEnd <= Window.end
      BY <1>2, <2>1, <3>1, <3>2
    <3> QED BY <1>2, <3>1, <3>3 DEF s
  <2> QED BY <1>4, <2>2, <2>3, <2>4 DEF IsThrough, log, tracker, held, i
<1>6. CASE held # <<>>
  <2>1. n > 1 /\ IsLate(Mpd, i, n - 1)
    BY <1>2, <1>6 DEF OnItsWay
  <2>2. n \in Nat \ {0, 1}
    BY <1>2, <2>1
  <2>3. EndsIn(Mpd, log, i) /\ HasMedia(log)
    BY <1>2, <1>6, <2>2 DEF OnItsWay
  <2>4. WindowsOf(Mpd)[i].end # NoTime
    BY <1>2, TiledIs DEF i
  <2>5. UpTo(Mpd, log, i + 1, 1)
    BY <1>2, <1>3, <1>4, <1>6, <2>1, <2>2, <2>4, SkipLate
  <2> QED BY <1>4, <1>6, <2>3, <2>5 DEF IsThrough, log, tracker, held, i
<1> QED BY <1>5, <1>6

LEMMA LoopHeadKeepsPlay ==
    ASSUME AnnouncedInv, PlayInv, NEW t \in Tracks, LoopHead(t)
    PROVE  PlayInv'
<1> DEFINE q == stream[t]
           p == stream'[t]
           i == loop.pos
           n == stream[t].cursor
           log == channel[t]
           tracker == Tracker(t)
           count == Mpd.periods[loop.pos].count
<1>1. /\ q.at = "head" /\ q \in Streams
      /\ UNCHANGED <<host, world, loop, session, holding, emitted, channel, period>>
      /\ stream' = [stream EXCEPT ![t] = p] /\ p.gen = q.gen
  BY HeadIs
<1>2. q.at \notin Resting
  BY <1>1 DEF Resting
<1>3. /\ Len(Segments) = count /\ count \in Nat \ {0} /\ session[t].haveInit
      /\ Window = WindowsOf(Mpd)[i] /\ Window.start \in Nat /\ Window.end \in Nat
      /\ tracker \in Trackers /\ n \in Nat \ {0}
      /\ IsInOrder(Mpd, log) /\ Lands(Mpd, log, loop.override)
      /\ OnItsWay(Mpd, log, tracker, "head", q.held, i, n, loop.override, WantedHere)
      /\ Unsought => Explained(Mpd, log, tracker, holding[t], q.held)
      /\ Interrupted(t) => ~Unsought
  BY <1>1, <1>2, RunningPlays
<1>4. /\ q.held = <<>> => NextAt(t) = n
      /\ q.held # <<>> => NextAt(t) = count + 1
  BY <1>1, NextIs
<1>5. \/ NextAt(t) = count + 1 /\ p.at = "returned" /\ p.held = q.held
      \/ Interrupted(t) /\ p.at = "returned"
      \/ /\ NextAt(t) <= count /\ p.cursor = NextAt(t) /\ p.held = q.held
         /\ p.at = IF /\ q.held = <<>> /\ HasPlan(t)
                      /\ tracker.lastAbsEnd >= Window.end - SyncDepth
                   THEN "prefetch" ELSE "fetch"
  BY <1>3, HeadIs
<1>6. session'[t].haveInit /\ session'[t].tracker = tracker /\ channel'[t] = log
      /\ \A u \in Tracks : session'[u] = session[u] /\ channel'[u] = channel[u]
  BY <1>1, <1>3 DEF Tracker
<1>7. NextAt(t) = count + 1 => IsThrough(Mpd, log, tracker, q.held, i)
  BY <1>1, LeftIsThrough
<1> HIDE DEF p, q, n, count, tracker, log, i
<1>8. Going(t, log, TRUE, tracker, p)
  <2>1. CASE NextAt(t) = count + 1 /\ p.at = "returned" /\ p.held = q.held
    BY <1>1, <1>3, <1>7, <2>1 DEF Going, Resting, q, i
  <2>2. CASE Interrupted(t) /\ p.at = "returned"
    BY <1>1, <1>3, <2>2 DEF Going, Resting, q
  <2>3. CASE /\ NextAt(t) <= count /\ p.cursor = NextAt(t) /\ p.held = q.held
             /\ p.at = IF /\ q.held = <<>> /\ HasPlan(t)
                          /\ tracker.lastAbsEnd >= Window.end - SyncDepth
                       THEN "prefetch" ELSE "fetch"
    <3>1. q.held = <<>> /\ p.cursor = n /\ n <= count
      BY <1>3, <1>4, <2>3
    <3>2. p.at \in {"prefetch", "fetch"} /\ p.held = <<>>
      BY <2>3, <3>1
    <3>3. p.at = "prefetch" => IsLate(Mpd, i, n)
      <4>1. SUFFICES ASSUME tracker.lastAbsEnd >= Window.end - SyncDepth
                     PROVE  IsLate(Mpd, i, n)
        BY <2>3
      <4>2. tracker.lastAbsEnd <= Window.start + n - 1
        BY <1>3, <3>1 DEF OnItsWay, TrackerBelow
      <4>3. tracker.lastAbsEnd \in Nat /\ SyncDepth \in Nat
        BY <1>3, ControllerAssumption DEF Trackers
      <4>4. Window.start + n - 1 >= Window.end - SyncDepth
        BY <1>3, <4>1, <4>2, <4>3
      <4> QED BY <1>3, <4>4 DEF IsLate
    <3>4. OnItsWay(Mpd, log, tracker, p.at, p.held, i, n, loop.override, WantedHere)
      BY <1>3, <3>1, <3>2, <3>3 DEF OnItsWay
    <3> QED BY <1>1, <1>3, <2>3, <3>1, <3>2, <3>4 DEF Going, Resting, q, i
  <2> QED BY <1>5, <2>1, <2>2, <2>3
<1>9. Going(t, channel'[t], session'[t].haveInit, session'[t].tracker, stream'[t])
  BY <1>6, <1>8 DEF Going, p
<1> QED BY <1>1, <1>2, <1>6, <1>9, StreamKeepsPlay DEF p, q

(* The next Period's first segment is fetched ahead.                       *)
LEMMA PrefetchedKeepsPlay ==
    ASSUME AnnouncedInv, PlayInv, NEW t \in Tracks, Prefetched(t)
    PROVE  PlayInv'
<1> DEFINE q == stream[t]
           p == stream'[t]
           i == loop.pos
           j == Window.idx + 1
           n == stream[t].cursor
           log == channel[t]
           tracker == Tracker(t)
           next == WindowsOf(Mpd)[j].start
           ahead == SegmentsOf(j, next)
           first == AdvanceStartIndex(tracker, ahead, 1, next)
           new == session'[t].tracker
<1>1. q.at = "prefetch" /\ q.at \notin Resting
  BY PrefetchedIs DEF Resting
<1>2. /\ Typed /\ OneMpd /\ IsMpd(Mpd) /\ IsTiled(Mpd) /\ ~Mpd.dynamic
      /\ Window.idx = i /\ i \in 1 .. Len(Mpd.periods) /\ Len(Mpd.periods) \in Nat
      /\ Window = WindowsOf(Mpd)[i] /\ Window.start \in Nat /\ Window.end \in Nat
      /\ Window.start + Mpd.periods[i].count <= Window.end
      /\ tracker \in Trackers /\ n \in Nat \ {0} /\ session[t].haveInit
      /\ Placed(t, q) /\ Len(Segments) = Mpd.periods[i].count
      /\ Mpd.periods[i].count \in Nat \ {0}
      /\ IsInOrder(Mpd, log) /\ Lands(Mpd, log, loop.override)
      /\ OnItsWay(Mpd, log, tracker, "prefetch", q.held, i, n, loop.override, WantedHere)
  BY <1>1, RunningPlays
<1>3. /\ HasPlan(t) /\ j = Following /\ j \in 1 .. Len(Mpd.periods) /\ j \in DOMAIN Mpd.periods
      /\ next \in Nat /\ UNCHANGED <<host, world, loop, holding, emitted, channel, period>>
      /\ stream' = [stream EXCEPT ![t] = p]
      /\ p.at = "fetch" /\ p.gen = q.gen /\ p.cursor = n
      /\ \A u \in Tracks : u # t => session'[u] = session[u]
      /\ session'[t].haveInit = session[t].haveInit
      /\ \/ /\ first = Len(ahead) + 1
         \/ /\ p.held = <<Item(j, first)>>
            /\ new = MarkDelivered(tracker, Segment(first), next)
  BY PrefetchedIs
<1> HIDE DEF p, q, n, tracker, log, new, next, ahead, first, j
<1>4. /\ i < j /\ j = i + 1 /\ n <= Mpd.periods[i].count /\ q.held = <<>> /\ IsLate(Mpd, i, n)
      /\ TrackerBelow(tracker, Window.start, n) /\ UpTo(Mpd, log, i, n)
  <2>1. j = i + 1 /\ i < j
    BY <1>2 DEF j
  <2>2. q.cursor = n /\ q.cursor <= Len(Segments)
    BY <1>1, <1>2 DEF Placed, n, q
  <2>3. n <= Mpd.periods[i].count
    BY <1>2, <2>2
  <2> QED BY <1>2, <2>1, <2>3 DEF OnItsWay
<1>5. Window.end <= next /\ Window.start < next
  BY <1>2, <1>3, <1>4, TiledIs DEF next
<1>6. Window.start + n - 1 <= next
  <2>1. \A s, e, c, m, x \in Nat : s + c <= e /\ e <= x /\ m <= c => s + m - 1 <= x
    OBVIOUS
  <2>2. n \in Nat /\ Mpd.periods[i].count \in Nat
    BY <1>2
  <2> QED BY <1>2, <1>3, <1>4, <1>5, <2>1, <2>2
<1>7. /\ TrackerBelow(tracker, next, 1)
      /\ TrackerAhead(MarkDelivered(tracker, Segment(1), next), next)
      /\ MarkDelivered(tracker, Segment(1), next).keys = {1}
  BY <1>2, <1>3, <1>4, <1>5, <1>6, BelowMoves
<1>8. PICK count \in Nat \ {0} : count = Mpd.periods[j].count
  BY <1>2, <1>3, TiledIs
<1>9. IsListing(ahead, count)
  BY <1>2, <1>3, <1>8, AllSegments DEF ahead
<1>10. first = 1 /\ Len(ahead) = count
  <2>1. 1 \in 1 .. count + 1 /\ 1 \in 1 .. 1 /\ 1 .. 1 - 1 = {}
    BY <1>8
  <2>2. \A m \in 1 .. 1 - 1 : IsDelivered(tracker, Segment(m), next)
    BY <2>1
  <2>3. AdvanceStartIndex(tracker, ahead, 1, next) = 1
    BY <1>2, <1>3, <1>7, <1>9, <2>1, <2>2, GoesOn
  <2>4. Len(ahead) = count
    BY <1>9 DEF IsListing
  <2> QED BY <2>3, <2>4 DEF first
<1>11. p.held = <<Item(j, 1)>> /\ new = MarkDelivered(tracker, Segment(1), next)
  BY <1>3, <1>8, <1>10
<1>12. /\ p.held # <<>> /\ p.held[1].number = 1 /\ p.held[1].period = Mpd.periods[j].id
       /\ DOMAIN p.held = {1}
  <2>1. 1 \in Nat
    OBVIOUS
  <2>2. Item(j, 1).number = 1 /\ Item(j, 1).period = Mpd.periods[j].id
    BY <1>2, <1>3, <2>1, ItemIs
  <2>3. PICK item : item = Item(j, 1)
    OBVIOUS
  <2>4. <<item>> # <<>> /\ <<item>>[1] = item /\ DOMAIN <<item>> = {1}
    OBVIOUS
  <2> QED BY <1>11, <2>2, <2>3, <2>4
<1>13. new.periodStart = next /\ new.keys = {1} /\ TrackerAhead(new, next)
  <2>1. 1 \in Nat \ {0}
    OBVIOUS
  <2>2. Marked(tracker, 1, next, new)
    BY <1>2, <1>3, <1>11, <2>1, MarkIs
  <2>3. new.periodStart = next
    BY <2>2 DEF Marked
  <2> QED BY <1>7, <1>11, <2>3
<1>14. SoftBetween(Mpd, i, i + 1)
  BY <1>2, <1>3, <1>4 DEF HasPlan, SoftBetween
<1>15. OnItsWay(Mpd, log, new, "fetch", p.held, i, n, loop.override, WantedHere)
  <2>1. HeldAhead(Mpd, new, p.held, i)
    BY <1>4, <1>12, <1>13, <1>14 DEF HeldAhead, next
  <2> QED BY <1>2, <1>4, <1>12, <2>1 DEF OnItsWay
<1>16. Explained(Mpd, log, new, holding[t], p.held)
  <2>1. HasItem(Mpd, p.held, j, 1)
    BY <1>12 DEF HasItem, IsAt
  <2>2. \A k \in DOMAIN Mpd.periods : WindowsOf(Mpd)[k].start = next => k = j
    BY <1>2, <1>3, TheMpd, MpdIs, TiledIs DEF next
  <2> QED BY <1>13, <2>1, <2>2 DEF Explained
<1>17. Going(t, log, TRUE, new, p)
  BY <1>1, <1>2, <1>3, <1>15, <1>16 DEF Going, Resting, q, i
<1>18. Going(t, channel'[t], session'[t].haveInit, session'[t].tracker, stream'[t])
  BY <1>2, <1>3, <1>17 DEF Going, p, new, log
<1>19. \A u \in Tracks : u # t => session'[u] = session[u] /\ channel'[u] = channel[u]
  BY <1>3
<1> QED BY <1>1, <1>3, <1>18, <1>19, StreamKeepsPlay DEF p, q

(* A segment is delivered.                                                 *)
LEMMA DeliverKeepsPlay ==
    ASSUME AnnouncedInv, PlayInv, NEW t \in Tracks, Deliver(t)
    PROVE  PlayInv'
<1> DEFINE q == stream[t]
           p == stream'[t]
           i == loop.pos
           n == stream[t].cursor
           log == channel[t]
           put == channel'[t]
           tracker == Tracker(t)
           start == Window.start
           new == session'[t].tracker
<1>1. q.at = "fetch" /\ q.at \notin Resting
  BY DeliverIs DEF Resting
<1>2. /\ Typed /\ OneMpd /\ InTick /\ loop.pos <= Len(loop.windows) /\ IsMpd(Mpd) /\ IsTiled(Mpd)
      /\ i \in 1 .. Len(Mpd.periods) /\ i \in DOMAIN Mpd.periods /\ Len(Mpd.periods) \in Nat
      /\ Window.idx = i /\ Window = WindowsOf(Mpd)[i] /\ start \in Nat /\ Window.end \in Nat
      /\ start + Mpd.periods[i].count <= Window.end
      /\ tracker \in Trackers /\ n \in Nat \ {0} /\ session[t].haveInit
      /\ Placed(t, q) /\ Len(Segments) = Mpd.periods[i].count
      /\ Mpd.periods[i].count \in Nat \ {0} /\ ~IsBeforeSeek(Window, loop.override)
      /\ IsInOrder(Mpd, log) /\ Lands(Mpd, log, loop.override)
      /\ OnItsWay(Mpd, log, tracker, "fetch", q.held, i, n, loop.override, WantedHere)
      /\ Unsought => Explained(Mpd, log, tracker, holding[t], q.held)
      /\ Interrupted(t) => ~Unsought
  BY <1>1, RunningPlays
<1>3. /\ UNCHANGED <<host, world, loop, holding, emitted, period>>
      /\ stream' = [stream EXCEPT ![t] = p] /\ p.gen = q.gen
      /\ \/ /\ Interrupted(t) /\ p.at = "returned" /\ UNCHANGED <<session, channel>>
         \/ /\ p.at = "head" /\ p.cursor = n + 1 /\ p.held = q.held /\ Gives(t, n)
            /\ new = MarkDelivered(tracker, Segment(n), start)
            /\ session'[t].haveInit = session[t].haveInit
            /\ \A u \in Tracks : u # t => session'[u] = session[u]
  BY DeliverIs
<1>4. CASE Interrupted(t) /\ p.at = "returned" /\ UNCHANGED <<session, channel>>
  <2>1. Going(t, channel'[t], session'[t].haveInit, session'[t].tracker, stream'[t])
    BY <1>2, <1>3, <1>4 DEF Going, Resting
  <2> QED BY <1>1, <1>3, <1>4, <2>1, StreamKeepsPlay
<1>5. CASE /\ p.at = "head" /\ p.cursor = n + 1 /\ p.held = q.held /\ Gives(t, n)
           /\ new = MarkDelivered(tracker, Segment(n), start)
           /\ session'[t].haveInit = session[t].haveInit
           /\ \A u \in Tracks : u # t => session'[u] = session[u]
  <2>1. n \in Nat /\ n + 1 > 1 /\ (n + 1) - 1 = n
    BY <1>2
  <2>2. Put(Mpd, log, i, n, put) /\ \A u \in Tracks : u # t => channel'[u] = channel[u]
    BY <1>1, <1>5, <2>1, GivenPut
  <2>3. /\ UpTo(Mpd, log, i, n)
        /\ EndsIn(Mpd, log, i) \/ (i > 1 /\ EndsIn(Mpd, log, i - 1) /\ SoftBetween(Mpd, i - 1, i))
        /\ HasMedia(log) \/ (PassedOver(Mpd, loop.override, i) /\ n = WantedHere)
        /\ q.held = <<>> => TrackerBelow(tracker, start, n)
        /\ HeldAhead(Mpd, tracker, q.held, i)
        /\ q.held # <<>> => IsLate(Mpd, i, n)
    BY <1>2 DEF OnItsWay
  <2> HIDE DEF p, q, n, tracker, log, new, put, start, i
  <2>4. IsInOrder(Mpd, put) /\ UpTo(Mpd, put, i, n + 1)
    BY <1>2, <2>2, <2>3, PutMedia
  <2>5. /\ EndsIn(Mpd, put, i) /\ HasMedia(put) /\ HasItem(Mpd, put, i, n)
        /\ \A j, m : HasItem(Mpd, log, j, m) => HasItem(Mpd, put, j, m)
    BY <1>2, <2>1, <2>2, PutIs
  <2>6. Lands(Mpd, put, loop.override)
    <3>1. CASE HasMedia(log) \/ loop.override = NoTime
      BY <1>2, <2>1, <2>2, <3>1, PutLands
    <3>2. CASE PassedOver(Mpd, loop.override, i) /\ n = WantedHere /\ loop.override # NoTime
      <4>1. LET windows == WindowsOf(Mpd)
                at      == PeriodAt(windows, loop.override)
                number  == loop.override - windows[at].start + 1
            IN  at # 0 /\ number \in 1 .. Mpd.periods[at].count => at = i /\ number = n
        BY <1>2, <3>2, FirstWindow DEF i
      <4> QED BY <1>2, <2>1, <2>2, <4>1, PutLands
    <3> QED BY <2>3, <3>1, <3>2
  <2>7. Marked(tracker, n, start, new)
    BY <1>2, <1>5, MarkIs
  <2>8. q.held = <<>> => TrackerBelow(new, start, n + 1)
    BY <1>2, <1>5, <2>3, BelowMoves
  <2>9. HeldAhead(Mpd, new, q.held, i)
    <3>1. SUFFICES ASSUME q.held # <<>>
                   PROVE  TrackerAhead(new, WindowsOf(Mpd)[i + 1].start)
      BY <2>3 DEF HeldAhead
    <3>2. TrackerAhead(tracker, WindowsOf(Mpd)[i + 1].start)
      BY <2>3, <3>1 DEF HeldAhead
    <3>3. i < Len(Mpd.periods) /\ n <= Mpd.periods[i].count
      BY <1>1, <1>2, <3>1 DEF Placed, Ahead, n, q
    <3>4. i + 1 \in 1 .. Len(Mpd.periods) /\ i < i + 1
      BY <1>2, <3>3
    <3>5. PICK next \in Nat : next = WindowsOf(Mpd)[i + 1].start
      BY <1>2, <3>4, TiledIs
    <3>6. Window.end <= next
      BY <1>2, <3>4, <3>5, TiledIs
    <3>7. start + n <= next
      BY <1>2, <3>3, <3>5, <3>6
    <3> QED BY <1>2, <1>5, <3>2, <3>5, <3>7, BelowMoves
  <2>10. OnItsWay(Mpd, put, new, "head", q.held, i, n + 1, loop.override, WantedHere)
    BY <1>2, <2>1, <2>3, <2>4, <2>5, <2>8, <2>9 DEF OnItsWay, start
  <2>11. Unsought => Explained(Mpd, put, new, holding[t], q.held)
    <3>1. SUFFICES ASSUME Unsought, NEW j \in DOMAIN Mpd.periods, NEW m \in new.keys,
                          WindowsOf(Mpd)[j].start = new.periodStart
                   PROVE  HasItem(Mpd, put, j, m) \/ HasItem(Mpd, holding[t], j, m)
                          \/ HasItem(Mpd, q.held, j, m)
      BY DEF Explained
    <3>2. new.periodStart = start /\ (m = n \/ (m \in tracker.keys /\ tracker.periodStart = start))
      BY <2>7 DEF Marked
    <3>3. j = i
      <4>1. j \in 1 .. Len(Mpd.periods)
        BY <1>2, MpdIs
      <4> QED BY <1>2, <3>1, <3>2, <4>1, TiledIs DEF start
    <3>4. CASE m = n
      BY <2>5, <3>3, <3>4
    <3>5. CASE m \in tracker.keys /\ tracker.periodStart = start
      BY <1>2, <2>5, <3>1, <3>2, <3>5 DEF Explained
    <3> QED BY <3>2, <3>4, <3>5
  <2>12. Going(t, put, TRUE, new, p)
    BY <1>3, <1>5, <2>4, <2>6, <2>10, <2>11 DEF Going, Resting, q, i
  <2>13. Going(t, channel'[t], session'[t].haveInit, session'[t].tracker, stream'[t])
    BY <1>2, <1>5, <2>12 DEF Going, p, new, put
  <2>14. \A u \in Tracks : u # t => session'[u] = session[u] /\ channel'[u] = channel[u]
    BY <1>5, <2>2
  <2> QED BY <1>1, <1>3, <2>13, <2>14, StreamKeepsPlay DEF p, q
<1> QED BY <1>3, <1>4, <1>5

-----------------------------------------------------------------------------
(* The theorem of static presentations.                                    *)

LEMMA InitHasPlay == Init => StaticInv
<1> SUFFICES ASSUME Init, ~Dynamic PROVE PlayInv
  BY DEF StaticInv
<1>1. /\ loop.at = "top" /\ loop.snapshot = 1 /\ loop.gen = 0 /\ host.seekGen = 0
      /\ session = [t \in Tracks |-> NewSession] /\ channel = [t \in Tracks |-> <<>>]
  BY DEF Init
<1>2. world.kind \in DOMAIN Presentations
  BY DEF Init
<1>3. Mpd = Published[1] /\ ~Mpd.dynamic /\ IsTiled(Mpd)
  BY <1>1, <1>2, PublishedIs DEF Mpd, Dynamic
<1>4. OneMpd
  BY <1>1, <1>3 DEF OneMpd, InTick
<1>5. ASSUME NEW t \in Tracks
      PROVE  TrackInv(t)
  <2>1. session[t] = NewSession /\ channel[t] = <<>>
    BY <1>1
  <2>2. Tracker(t).keys = {}
    BY <2>1 DEF Tracker, NewSession, NewTracker
  <2>3. Accounted(t)
    BY <2>2 DEF Accounted
  <2>4. IsInOrder(Mpd, channel[t])
    BY <2>1, NoLog
  <2> QED BY <1>1, <2>1, <2>3, <2>4 DEF TrackInv, InTick, IsFresh
<1> QED BY <1>4, <1>5 DEF PlayInv

LEMMA RunLoopKeepsPlay ==
    ASSUME AnnouncedInv, ~Dynamic, PlayInv, RunLoop
    PROVE  PlayInv'
<1>1. CASE \/ BeginTick \/ Refreshed \/ RefreshFails \/ PrepareFails \/ JoinFails \/ EndTick
           \/ Wake
  BY <1>1, LoopMoveKeepsPlay
<1>2. CASE BeginPeriods
  BY <1>2, BeginPeriodsKeepsPlay
<1>3. CASE SkipPeriod
  BY <1>3, SkipPeriodKeepsPlay
<1>4. CASE EnterPeriod
  BY <1>4, EnterPeriodKeepsPlay
<1>5. CASE StartStreams
  BY <1>5, StartStreamsKeepsPlay
<1>6. CASE Join
  BY <1>6, JoinKeepsPlay
<1> QED BY <1>1, <1>2, <1>3, <1>4, <1>5, <1>6 DEF RunLoop

LEMMA StreamStepKeepsPlay ==
    ASSUME AnnouncedInv, PlayInv, StreamStep
    PROVE  PlayInv'
<1>1. PICK t \in Tracks : \/ InitFetched(t) \/ InitFails(t) \/ LoopHead(t) \/ Prefetched(t)
                          \/ Deliver(t) \/ FetchFails(t)
  BY DEF StreamStep
<1>2. CASE InitFetched(t) \/ InitFails(t) \/ FetchFails(t)
  BY <1>2, InitStepKeepsPlay
<1>3. CASE LoopHead(t)
  BY <1>3, LoopHeadKeepsPlay
<1>4. CASE Prefetched(t)
  BY <1>4, PrefetchedKeepsPlay
<1>5. CASE Deliver(t)
  BY <1>5, DeliverKeepsPlay
<1> QED BY <1>1, <1>2, <1>3, <1>4, <1>5

LEMMA RestKeepsPlay ==
    ASSUME PlayInv, UNCHANGED vars
    PROVE  PlayInv'
<1>1. /\ host' = host /\ world' = world /\ loop' = loop /\ session' = session
      /\ stream' = stream /\ holding' = holding /\ channel' = channel
  BY DEF vars
<1>2. Mpd' = Mpd
  BY <1>1 DEF Mpd, Published
<1>3. Segments' = Segments /\ WantedHere' = WantedHere /\ Window' = Window
  BY <1>1, <1>2, SameWindow
<1>4. OneMpd'
  BY <1>1, <1>2 DEF PlayInv, OneMpd, InTick
<1>5. ASSUME NEW t \in Tracks
      PROVE  TrackInv(t)'
  <2>1. Tracker(t)' = Tracker(t) /\ TrackInv(t)
    BY <1>1 DEF Tracker, PlayInv
  <2>2. Ready(t) => Ready(t)'
    BY <1>1, <1>2, <2>1 DEF Ready, IsFresh
  <2>3. Entered(t) => Entered(t)'
    BY <1>1, <1>2, <1>3, <2>1 DEF Entered
  <2>4. Playing(t) => Playing(t)'
    BY <1>1, <1>2, <1>3, <2>1 DEF Playing
  <2>5. Accounted(t) => Accounted(t)'
    BY <1>1, <1>2, <2>1 DEF Accounted
  <2>6. IsFresh(t) => IsFresh(t)'
    BY <1>1 DEF IsFresh
  <2> QED BY <1>1, <1>2, <2>1, <2>2, <2>3, <2>4, <2>5, <2>6 DEF TrackInv, InTick
<1> QED BY <1>4, <1>5 DEF PlayInv

(* A presentation stays the one it is.                                     *)
LEMMA KindStays ==
    ASSUME AnnouncedInv, [Next]_vars
    PROVE  Dynamic' <=> Dynamic
<1>1. Typed
  BY DEF AnnouncedInv
<1>2. world' = world \/ world' = Later
  <2>1. CASE Seek \/ Stop \/ DropReceivers
    BY <2>1 DEF Seek, Stop, DropReceivers, Command
  <2>2. CASE Tick
    BY <2>2 DEF Tick
  <2>3. CASE RunLoop
    BY <2>3 DEF RunLoop, BeginTick, Refreshed, RefreshFails, BeginPeriods, SkipPeriod, EnterPeriod,
                PrepareFails, StartStreams, JoinFails, Join, EndTick, Wake
  <2>4. CASE StreamStep
    BY <2>4 DEF StreamStep, InitFetched, InitFails, LoopHead, Prefetched, Deliver, FetchFails,
                Step, Return
  <2>5. CASE UNCHANGED vars
    BY <2>5 DEF vars
  <2> QED BY <2>1, <2>2, <2>3, <2>4, <2>5 DEF Next
<1>3. world'.kind = world.kind
  BY <1>1, <1>2, LaterIs
<1> QED BY <1>3 DEF Dynamic, Published

LEMMA NextKeepsPlay == AnnouncedInv /\ StaticInv /\ [Next]_vars => StaticInv'
<1> SUFFICES ASSUME AnnouncedInv, StaticInv, [Next]_vars, ~Dynamic' PROVE PlayInv'
  BY DEF StaticInv
<1>1. ~Dynamic /\ PlayInv /\ Typed
  BY KindStays DEF StaticInv, AnnouncedInv
<1>2. ~Tick
  BY <1>1, NoTick
<1>3. CASE Seek \/ Stop \/ DropReceivers
  BY <1>1, <1>3, CommandKeepsPlay
<1>4. CASE RunLoop
  BY <1>1, <1>4, RunLoopKeepsPlay
<1>5. CASE StreamStep
  BY <1>1, <1>5, StreamStepKeepsPlay
<1>6. CASE UNCHANGED vars
  BY <1>1, <1>6, RestKeepsPlay
<1> QED BY <1>2, <1>3, <1>4, <1>5, <1>6 DEF Next

(* In a static presentation every track goes through the Periods in their  *)
(* order, each from its first segment (or the one that is sought) to its   *)
(* last or to the one that was fetched ahead behind it; what its tracker   *)
(* and its streams say agrees with what the receiver has.                  *)
THEOREM StaticInvariant == Spec => []StaticInv
<1>1. Init => AnnouncedInv /\ StaticInv
  BY InitHasInv, InitHasPlay
<1>2. AnnouncedInv /\ StaticInv /\ [Next]_vars => (AnnouncedInv /\ StaticInv)'
  BY NextKeepsInv, NextKeepsPlay
<1> QED BY <1>1, <1>2, PTL DEF Spec

(* What the invariant says of the properties.                              *)

LEMMA PlaysInOrder ==
    ASSUME AnnouncedInv, PlayInv, ~Dynamic
    PROVE  NoReplay /\ InitPerHardBoundary
<1>1. Typed /\ IsMpd(Mpd)
  BY TheMpd DEF AnnouncedInv
<1>2. ASSUME NEW t \in Tracks
      PROVE  /\ IsInOrder(Mpd, channel[t]) /\ DOMAIN channel[t] = 1 .. Len(channel[t])
             /\ Len(channel[t]) \in Nat
             /\ \A k \in DOMAIN channel[t] :
                    /\ Order(channel[t][k].period) = PlaceIn(Mpd, channel[t][k])
                    /\ channel[t][k].period = Mpd.periods[PlaceIn(Mpd, channel[t][k])].id
  <2>1. channel[t] \in Seq(Items) /\ IsKnown(Mpd, channel[t])
    BY KnownIs
  <2>2. IsInOrder(Mpd, channel[t])
    BY DEF PlayInv, TrackInv
  <2>3. \A k \in DOMAIN channel[t] : Order(channel[t][k].period) = PlaceIn(Mpd, channel[t][k])
    BY DEF Order, PlaceIn
  <2> QED BY <1>1, <2>1, <2>2, <2>3, LogIs
<1>3. NoReplay
  <2> SUFFICES ASSUME NEW t \in Tracks, NEW i \in DOMAIN channel[t], NEW j \in DOMAIN channel[t],
                      i < j, IsMedia(channel[t][i]), IsMedia(channel[t][j])
               PROVE  Precedes(channel[t][i], channel[t][j])
    BY DEF NoReplay
  <2>1. Earlier(PlaceIn(Mpd, channel[t][i]), channel[t][i].number,
                PlaceIn(Mpd, channel[t][j]), channel[t][j].number)
    BY <1>2 DEF IsInOrder, IsSorted
  <2> QED BY <1>2, <2>1 DEF Earlier, Precedes
<1>4. InitPerHardBoundary
  <2> SUFFICES ASSUME NEW t \in Tracks, NEW k \in DOMAIN channel[t],
                      {i \in 1 .. k - 1 : channel[t][i].period = channel[t][k].period} = {}
               PROVE  IF {i \in 1 .. k - 1 : channel[t][i].period # channel[t][k].period} = {}
                      THEN ~IsMedia(channel[t][k])
                      ELSE IsMedia(channel[t][k])
                           <=> Soft(PeriodLink(Mpd, Order(channel[t][k - 1].period),
                                               Order(channel[t][k].period)))
    BY DEF InitPerHardBoundary
  <2>1. \A j \in 1 .. k - 1 : channel[t][j].period # channel[t][k].period
    OBVIOUS
  <2>2. IF k = 1 THEN ~IsMedia(channel[t][k])
        ELSE IsMedia(channel[t][k])
             <=> SoftBetween(Mpd, PlaceIn(Mpd, channel[t][k - 1]), PlaceIn(Mpd, channel[t][k]))
    BY <1>2, <2>1 DEF IsInOrder, HasInits
  <2>3. k \in 1 .. Len(channel[t]) /\ Len(channel[t]) \in Nat
    BY <1>2
  <2>4. CASE k = 1
    <3>1. {i \in 1 .. k - 1 : channel[t][i].period # channel[t][k].period} = {}
      BY <2>4
    <3> QED BY <2>2, <2>4, <3>1
  <2>5. CASE k # 1
    <3>1. k - 1 \in 1 .. k - 1 /\ k - 1 \in DOMAIN channel[t]
      BY <1>2, <2>3, <2>5
    <3>2. {i \in 1 .. k - 1 : channel[t][i].period # channel[t][k].period} # {}
      BY <2>1, <3>1
    <3>3. /\ Order(channel[t][k - 1].period) = PlaceIn(Mpd, channel[t][k - 1])
          /\ Order(channel[t][k].period) = PlaceIn(Mpd, channel[t][k])
      BY <1>2, <3>1
    <3> QED BY <2>2, <2>5, <3>2, <3>3 DEF SoftBetween
  <2> QED BY <2>4, <2>5
<1> QED BY <1>3, <1>4

LEMMA PlaysAll ==
    ASSUME AnnouncedInv, PlayInv
    PROVE  OnlyPrefetchSkips /\ MarkedIsSentOrHeld
<1>1. Typed /\ IsMpd(Mpd)
  BY TheMpd DEF AnnouncedInv
<1>2. OnlyPrefetchSkips
  <2> SUFFICES ASSUME NEW t \in Tracks, NEW x \in Missing(t)
               PROVE  LET i   == Order(x.period)
                          end == WindowsOf(Mpd)[i].start + x.number
                      IN  /\ i < Len(Mpd.periods) /\ Soft(PeriodLink(Mpd, i, i + 1))
                          /\ end > WindowsOf(Mpd)[i].end - SyncDepth + 1
    BY DEF OnlyPrefetchSkips
  <2> DEFINE log == channel[t]
  <2>1. /\ x \in AllMedia
        /\ \E k \in DOMAIN log : IsMedia(log[k]) /\ Precedes(log[k], x)
        /\ \E k \in DOMAIN log : IsMedia(log[k]) /\ Precedes(x, log[k])
        /\ \A k \in DOMAIN log : log[k].period # x.period \/ log[k].number # x.number
    BY DEF Missing
  <2>2. PICK i \in DOMAIN Mpd.periods :
            \E n \in 1 .. Mpd.periods[i].count :
                x = [period |-> Mpd.periods[i].id, number |-> n]
    BY <2>1 DEF AllMedia
  <2> DEFINE n == x.number
  <2>3. x.period = Mpd.periods[i].id /\ n \in 1 .. Mpd.periods[i].count
    BY <2>2
  <2>4. Order(x.period) = i
    BY <1>1, <2>3, OrderIs
  <2>5. \A k \in DOMAIN log : Order(log[k].period) = PlaceIn(Mpd, log[k])
    BY DEF Order, PlaceIn
  <2>6. \E k \in DOMAIN log : IsBefore(Mpd, log[k], i, n)
    BY <2>1, <2>3, <2>4, <2>5 DEF Precedes, IsBefore, Earlier
  <2>7. \E k \in DOMAIN log : IsBehind(Mpd, log[k], i, n)
    BY <2>1, <2>3, <2>4, <2>5 DEF Precedes, IsBehind, Earlier
  <2>8. ~HasItem(Mpd, log, i, n)
    BY <2>1, <2>3 DEF HasItem, IsAt
  <2>9. Skippable(Mpd, i, n)
    <3>1. IsGapless(Mpd, log)
      BY DEF PlayInv, TrackInv, IsInOrder
    <3> QED BY <2>3, <2>6, <2>7, <2>8, <3>1 DEF IsGapless
  <2> QED BY <2>3, <2>4, <2>9 DEF Skippable, SoftBetween
<1>3. MarkedIsSentOrHeld
  <2> SUFFICES ASSUME ~host.stopped, host.seekGen = loop.gen, loop.at # "failed",
                      NEW t \in Tracks, NEW i \in DOMAIN Mpd.periods, NEW n \in Tracker(t).keys,
                      WindowsOf(Mpd)[i].start = Tracker(t).periodStart
               PROVE  \E log \in {channel[t], holding[t], stream[t].held} :
                          \E k \in DOMAIN log :
                              log[k].period = Mpd.periods[i].id /\ log[k].number = n
    BY DEF MarkedIsSentOrHeld
  <2>1. Accounted(t)
    BY DEF PlayInv, TrackInv
  <2>2. \E log \in {channel[t], holding[t], stream[t].held} : HasItem(Mpd, log, i, n)
    BY <2>1 DEF Accounted
  <2> QED BY <2>2 DEF HasItem, IsAt
<1> QED BY <1>2, <1>3

LEMMA PlaysFromTarget ==
    ASSUME AnnouncedInv, PlayInv
    PROVE  SeekLands
<1> DEFINE windows == WindowsOf(Mpd)
           p == PeriodAt(windows, loop.override)
           number == loop.override - windows[p].start + 1
<1> SUFFICES ASSUME loop.override # NoTime, loop.at \in {"preparing", "join"}, p # 0,
                    number \in DOMAIN SegmentsOf(p, windows[p].start),
                    NEW t \in Tracks, NEW k \in DOMAIN channel[t], IsMedia(channel[t][k]),
                    \A j \in 1 .. k - 1 : ~IsMedia(channel[t][j])
             PROVE  channel[t][k].period = Mpd.periods[p].id /\ channel[t][k].number = number
  BY DEF SeekLands
<1>1. Typed /\ IsMpd(Mpd) /\ ~Mpd.dynamic /\ InTick
  BY TheMpd DEF AnnouncedInv, PlayInv, OneMpd, InTick
<1>2. p \in DOMAIN Mpd.periods
  <2>1. /\ windows \in Seq(Windows) /\ Len(windows) = Len(Mpd.periods)
        /\ Len(Mpd.periods) \in Nat \ {0} /\ DOMAIN Mpd.periods = 1 .. Len(Mpd.periods)
    BY <1>1, WindowsAre, MpdIs
  <2>2. windows # <<>>
    BY <2>1
  <2>3. p \in 0 .. Len(windows)
    <3> HIDE DEF windows
    <3> QED BY <2>1, <2>2, CurrentIs DEF PeriodAt
  <2> QED BY <2>1, <2>3
<1> HIDE DEF p, number
<1>3. DOMAIN SegmentsOf(p, windows[p].start) = 1 .. Mpd.periods[p].count
  BY <1>1, <1>2, AllSegments DEF IsListing
<1>4. Lands(Mpd, channel[t], loop.override)
  BY <1>1 DEF PlayInv, TrackInv
<1>5. IsAt(Mpd, channel[t][k], p, number)
  BY <1>3, <1>4 DEF Lands, p, number
<1> QED BY <1>5 DEF IsAt

(* A static presentation reaches every receiver whole from the start, or   *)
(* from the segment that a seek aims at: each segment once, in its order,  *)
(* behind the Init of its Period where the boundary is hard and only       *)
(* there; nothing is lost but what the prefetch of the next Period passes  *)
(* over, and the tracker marks nothing that was not sent or is held.       *)
THEOREM EachOnce == Spec => [](~Dynamic => EachSegmentOnce)
<1>1. AnnouncedInv /\ StaticInv => (~Dynamic => EachSegmentOnce)
  BY PlaysInOrder, PlaysAll, PlaysFromTarget DEF StaticInv, EachSegmentOnce, RestartsAtTarget
<1> QED BY <1>1, AnnouncedInvariant, StaticInvariant, PTL

=============================================================================
