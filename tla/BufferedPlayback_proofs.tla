----------------------- MODULE BufferedPlayback_proofs -----------------------
(***************************************************************************)
(* How far a track may be fetched ahead of the media clock: for every      *)
(* presentation whose media follows on, every number of tracks, Periods    *)
(* and segments, every capacity and batch, and every bound on time and     *)
(* commands.                                                               *)
(***************************************************************************)
EXTENDS BufferedPlayback, PlaybackControl_proofs, TLAPS

Streams ==
    [ at : Place, next : Nat \ {0}, delivered : Nat, batch : 0 .. MaxParallel, high : Nat ]

Typed ==
    /\ show \in Presentations
    /\ Sound(ctl)
    /\ loop \in [period : 0 .. Len(show.cuts), gen : Nat, target : Nat]
    /\ stream \in [Tracks -> Streams]
    /\ since \in 0 .. MaxSince
    /\ commands \in 0 .. MaxCommands
    /\ furthest \in Nat
    /\ dropped \in [Tracks -> Nat]

-----------------------------------------------------------------------------
(* The invariant, as predicates of the values of the state, so that a      *)
(* lemma on them speaks of the state before a step and after it.  s is the *)
(* presentation, c the controller, l the loop, q the stream of track t, f  *)
(* the furthest position of the clock and d what pauses threw away.        *)

Num(s, p, t) == Len(s.cuts[p][t]) - 1

Mark(s, p, t, i) ==
    HighWater((s.cuts[p][t][Len(s.cuts[p][t])] - s.cuts[p][t][i]) \div (Num(s, p, t) + 1 - i))

IsMark(s, t, m) ==
    \/ m = DefaultMaxBuffer
    \/ \E p \in DOMAIN s.cuts : \E i \in 1 .. Num(s, p, t) : m = Mark(s, p, t, i)

IsLength(s, t, n) ==
    \E p \in DOMAIN s.cuts : \E i \in 1 .. Num(s, p, t) :
        n = s.cuts[p][t][i + 1] - s.cuts[p][t][i]

\* Position x is within a full buffer and n segments of `reach`.
Fits(s, t, reach, n, x) ==
    \E m \in Nat : \E len \in Nat :
        IsMark(s, t, m) /\ IsLength(s, t, len) /\ x < reach + m + n * len

\* How the seek generations, the target and the clock go together.
GenInv(s, c, l, k, f) ==
    /\ l.gen <= c.seekGen /\ c.seekGen <= k
    /\ c.clock = NoTime => f = 0
    /\ \A t \in Tracks : c.ends[t] # NoTime => c.clock # NoTime
    /\ c.seekGen = l.gen => l.target <= f
    /\ c.seekGen # l.gen => c.seekTarget \in s.seekTimes /\ c.seekTarget <= f

\* Where a stream is in its Period.
PlaceInv(s, c, l, q, t) ==
    LET count == Num(s, l.period, t)
    IN  /\ q.next \in 1 .. count + 1
        /\ q.next <= count => IsMark(s, t, q.high) /\ MinBuffer <= q.high /\ 0 < q.high
        /\ q.at \in {"download", "result", "decrypt"}
               => 1 <= q.batch /\ q.next + q.batch <= count + 1
        /\ q.delivered = 0 => q.batch <= 1
        /\ q.at = "head" => q.batch = 0
        /\ q.at = "returned" /\ ~c.stopped /\ c.seekGen = l.gen => q.next = count + 1

EndOr0(end) == IF end = NoTime THEN 0 ELSE end

\* The segments that the clock may be short of what is fetched, when what is
\* left of the batch is not counted: a batch, and one for every later Period.
Allowed(l, q) == MaxParallel + l.period - 1 - (IF q.delivered = 0 THEN 1 ELSE q.batch)

\* The next segment starts no later than what is delivered and what pauses
\* threw away; and with what is left of the batch within the allowance.
NextInv(s, end, l, q, f, d, t) ==
    LET start == s.cuts[l.period][t][q.next]
    IN  /\ start <= Larger(EndOr0(end), f) + d
        /\ \A n \in Nat : IsLength(s, t, n) => Fits(s, t, f + d, Allowed(l, q), start)

TrackInv(s, c, l, q, f, d, t) ==
    /\ l.period = 0 => q.at = "returned"
    /\ l.period # 0 => PlaceInv(s, c, l, q, t)
    /\ l.period # 0 /\ c.seekGen = l.gen => NextInv(s, c.ends[t], l, q, f, d, t)
    /\ c.ends[t] # NoTime =>
           Fits(s, t, f + d, MaxParallel + Len(s.cuts) - 1, c.ends[t])

LeadInv ==
    /\ Typed
    /\ GenInv(show, ctl, loop, commands, furthest)
    /\ \A t \in Tracks : TrackInv(show, ctl, loop, stream[t], furthest, dropped[t], t)

-----------------------------------------------------------------------------
(* The presentation.                                                       *)

LEMMA ListOfTrack ==
    ASSUME NEW s, WellFormed(s), NEW p \in DOMAIN s.cuts, NEW t \in Tracks
    PROVE  /\ s.cuts[p][t] \in Seq(Nat)
           /\ Num(s, p, t) \in Nat
           /\ \A i \in 1 .. Num(s, p, t) + 1 :
                  /\ s.cuts[p][t][i] \in Nat
                  /\ s.cuts[p][t][i] <= s.cuts[p][t][Len(s.cuts[p][t])]
           /\ \A i \in 1 .. Num(s, p, t) : s.cuts[p][t][i] <= s.cuts[p][t][i + 1]
<1>1. s.cuts \in Seq([Tracks -> Seq(Nat)])
  BY DEF WellFormed, Presentation
<1>2. s.cuts[p] \in [Tracks -> Seq(Nat)]
  BY <1>1
<1>3. s.cuts[p][t] \in Seq(Nat) /\ s.cuts[p][t] # <<>>
  BY <1>2 DEF WellFormed
<1> DEFINE list == s.cuts[p][t]
<1>4. \A i, j \in DOMAIN list : i <= j => list[i] <= list[j]
  BY DEF WellFormed
<1> HIDE DEF list
<1>5. list \in Seq(Nat) /\ list # <<>>
  BY <1>3 DEF list
<1>6. Len(list) \in Nat \ {0} /\ DOMAIN list = 1 .. Len(list) /\ Num(s, p, t) = Len(list) - 1
  BY <1>5 DEF Num, list
<1>7. \A i \in 1 .. Len(list) : list[i] \in Nat
  BY <1>5
<1>8. \A i \in 1 .. Len(list) : list[i] <= list[Len(list)]
  BY <1>4, <1>6
<1>9. \A i \in 1 .. Len(list) - 1 : list[i] <= list[i + 1]
  <2>1. \A i \in 1 .. Len(list) - 1 : i \in DOMAIN list /\ i + 1 \in DOMAIN list /\ i <= i + 1
    BY <1>6
  <2> QED BY <1>4, <2>1
<1>10. Num(s, p, t) + 1 = Len(list) /\ Num(s, p, t) \in Nat
  BY <1>6
<1> QED BY <1>5, <1>6, <1>7, <1>8, <1>9, <1>10 DEF list

LEMMA ShownIsWellFormed == show \in Presentations => WellFormed(show)
BY PacingAssumption

LEMMA LengthNat ==
    ASSUME NEW s, WellFormed(s), NEW t \in Tracks, NEW n, IsLength(s, t, n)
    PROVE  n \in Nat
<1>1. PICK p \in DOMAIN s.cuts : \E i \in 1 .. Num(s, p, t) :
          n = s.cuts[p][t][i + 1] - s.cuts[p][t][i]
  BY DEF IsLength
<1>2. PICK i \in 1 .. Num(s, p, t) : n = s.cuts[p][t][i + 1] - s.cuts[p][t][i]
  BY <1>1
<1>3. i \in 1 .. Num(s, p, t) + 1 /\ i + 1 \in 1 .. Num(s, p, t) + 1 /\ Num(s, p, t) \in Nat
  BY ListOfTrack
<1>4. /\ s.cuts[p][t][i] \in Nat /\ s.cuts[p][t][i + 1] \in Nat
      /\ s.cuts[p][t][i] <= s.cuts[p][t][i + 1]
  BY <1>3, ListOfTrack
<1> QED BY <1>2, <1>4

LEMMA MarkNat ==
    ASSUME NEW s, WellFormed(s), NEW p \in DOMAIN s.cuts, NEW t \in Tracks,
           NEW i \in 1 .. Num(s, p, t)
    PROVE  Mark(s, p, t, i) \in Nat /\ MinBuffer <= Mark(s, p, t, i) /\ 0 < Mark(s, p, t, i)
<1> DEFINE a == s.cuts[p][t][Len(s.cuts[p][t])] - s.cuts[p][t][i]
           b == Num(s, p, t) + 1 - i
           n == a \div b
<1>1. a \in Nat /\ b \in Nat \ {0}
  <2>1. Num(s, p, t) \in Nat /\ i \in 1 .. Num(s, p, t) + 1
    BY ListOfTrack
  <2>2. Len(s.cuts[p][t]) \in 1 .. Num(s, p, t) + 1
    BY <2>1, ListOfTrack DEF Num
  <2>3. /\ s.cuts[p][t][i] \in Nat
        /\ s.cuts[p][t][Len(s.cuts[p][t])] \in Nat
        /\ s.cuts[p][t][i] <= s.cuts[p][t][Len(s.cuts[p][t])]
    BY <2>1, <2>2, ListOfTrack
  <2>4. a \in Nat
    BY <2>3
  <2>5. b \in Nat \ {0}
    BY <2>1
  <2> QED BY <2>4, <2>5
<1>2. Mark(s, p, t, i) = HighWater(n)
  BY DEF Mark
<1> HIDE DEF a, b
<1>3. n \in Nat
  BY <1>1
<1> HIDE DEF n
<1>4. n * CapacitySegments \in Nat
  BY <1>3, PacingAssumption
<1> QED BY <1>2, <1>3, <1>4, PacingAssumption, BufferAssumption DEF HighWater, Larger

-----------------------------------------------------------------------------
(* The allowance.                                                          *)

\* More room.
LEMMA FitsMore ==
    ASSUME NEW s, NEW t, NEW r \in Nat, NEW q \in Nat, r <= q,
           NEW m \in Nat, NEW n \in Nat, m <= n, NEW x \in Nat, NEW y \in Nat, y <= x,
           Fits(s, t, r, m, x)
    PROVE  Fits(s, t, q, n, y)
<1>1. PICK mark \in Nat : \E len \in Nat :
          IsMark(s, t, mark) /\ IsLength(s, t, len) /\ x < r + mark + m * len
  BY DEF Fits
<1>2. PICK len \in Nat : IsMark(s, t, mark) /\ IsLength(s, t, len) /\ x < r + mark + m * len
  BY <1>1
<1>3. m * len <= n * len /\ m * len \in Nat /\ n * len \in Nat
  <2>1. PICK k \in Nat : n = m + k
    <3>1. n - m \in Nat /\ n = m + (n - m)
      OBVIOUS
    <3> QED BY <3>1
  <2>2. k * len \in Nat /\ m * len \in Nat
    OBVIOUS
  <2>3. n * len = m * len + k * len
    BY <2>1
  <2> QED BY <2>2, <2>3
<1>4. y < q + mark + n * len
  BY <1>2, <1>3
<1> QED BY <1>2, <1>4 DEF Fits

\* One segment more, for one more that is allowed.
LEMMA FitsNext ==
    ASSUME NEW s, NEW t, NEW r \in Nat, NEW n \in Nat, NEW x \in Nat,
           NEW more \in Nat, IsLength(s, t, more), Fits(s, t, r, n, x)
    PROVE  Fits(s, t, r, n + 1, x + more)
<1>1. PICK mark \in Nat : \E len \in Nat :
          IsMark(s, t, mark) /\ IsLength(s, t, len) /\ x < r + mark + n * len
  BY DEF Fits
<1>2. PICK len \in Nat : IsMark(s, t, mark) /\ IsLength(s, t, len) /\ x < r + mark + n * len
  BY <1>1
<1>3. CASE more <= len
  <2>1. n * len \in Nat /\ (n + 1) * len = n * len + len
    OBVIOUS
  <2>2. x + more < r + mark + (n + 1) * len
    BY <1>2, <1>3, <2>1
  <2> QED BY <1>2, <2>2 DEF Fits
<1>4. CASE len < more
  <2>1. PICK k \in Nat : more = len + k
    <3>1. more - len \in Nat /\ more = len + (more - len)
      BY <1>4
    <3> QED BY <3>1
  <2>2. n * len \in Nat /\ n * k \in Nat
    OBVIOUS
  <2>3. n * more = n * len + n * k
    BY <2>1
  <2>4. (n + 1) * more = n * more + more
    OBVIOUS
  <2>5. x + more < r + mark + (n + 1) * more
    BY <1>2, <2>2, <2>3, <2>4
  <2> QED BY <1>2, <2>5 DEF Fits
<1> QED BY <1>3, <1>4

\* A segment that a pause throws away.
LEMMA FitsDropped ==
    ASSUME NEW s, NEW t, NEW r \in Nat, NEW n \in Nat, NEW x \in Nat, NEW more \in Nat,
           Fits(s, t, r, n, x)
    PROVE  Fits(s, t, r + more, n, x + more)
<1>1. PICK mark \in Nat : \E len \in Nat :
          IsMark(s, t, mark) /\ IsLength(s, t, len) /\ x < r + mark + n * len
  BY DEF Fits
<1>2. PICK len \in Nat : IsMark(s, t, mark) /\ IsLength(s, t, len) /\ x < r + mark + n * len
  BY <1>1
<1>3. n * len \in Nat
  OBVIOUS
<1>4. x + more < r + more + mark + n * len
  BY <1>2, <1>3
<1> QED BY <1>2, <1>4 DEF Fits

\* Within a mark of the reach.
LEMMA FitsBelowMark ==
    ASSUME NEW s, WellFormed(s), NEW t \in Tracks, NEW r \in Nat, NEW n \in Nat, NEW x \in Nat,
           NEW mark \in Nat, IsMark(s, t, mark), x < r + mark,
           NEW len, IsLength(s, t, len)
    PROVE  Fits(s, t, r, n, x)
<1>1. len \in Nat
  BY LengthNat
<1>2. n * len \in Nat
  BY <1>1
<1>3. x < r + mark + n * len
  BY <1>2
<1> QED BY <1>1, <1>3 DEF Fits

-----------------------------------------------------------------------------
(* The controller.                                                         *)

\* What no call takes back, but a seek.
Keeps(c, d) ==
    /\ d.ends = c.ends /\ d.seekGen = c.seekGen /\ d.seekTarget = c.seekTarget
    /\ c.stopped => d.stopped
    /\ d.clock = NoTime <=> c.clock = NoTime

LEMMA KeepsTransitive ==
    ASSUME NEW c, NEW d, NEW e, Keeps(c, d), Keeps(d, e)
    PROVE  Keeps(c, e)
BY DEF Keeps

LEMMA PlainKeeps ==
    ASSUME NEW c \in Controller
    PROVE  /\ Keeps(c, DoPause(c)) /\ Keeps(c, DoResume(c)) /\ Keeps(c, DoStop(c))
           /\ \A p \in PausePolicy : Keeps(c, [c EXCEPT !.policy = p])
           /\ \A s \in PlaybackState : Keeps(c, SetState(c, s))
<1>1. Keeps(c, DoPause(c)) /\ Keeps(c, DoResume(c)) /\ Keeps(c, DoStop(c))
  BY DEF Keeps, DoPause, DoResume, DoStop, Controller
<1>2. \A p \in PausePolicy : Keeps(c, [c EXCEPT !.policy = p])
  BY DEF Keeps, Controller
<1>3. \A s \in PlaybackState : Keeps(c, SetState(c, s))
  BY DEF Keeps, SetState, Controller
<1> QED BY <1>1, <1>2, <1>3

LEMMA AdvanceKeeps ==
    ASSUME NEW c \in Controller, NEW dt \in Nat
    PROVE  Keeps(c, AdvanceMediaClock(c, dt))
<1> DEFINE t == CappedTo(DeliveredEnds(c), c.clock + dt)
<1>1. c.clock # NoTime => t \in Nat /\ t # NoTime
  <2>1. DeliveredEnds(c) \in SUBSET Nat
    BY DEF DeliveredEnds, Controller, OptTime
  <2>2. ASSUME c.clock # NoTime PROVE c.clock + dt \in Nat
    BY <2>2 DEF Controller, OptTime
  <2> QED BY <2>1, <2>2, CappedToNat, NoTimeAssumption
<1> HIDE DEF t
<1>2. AdvanceMediaClock(c, dt) \in
          {c, [c EXCEPT !.wall = FALSE], [c EXCEPT !.wall = TRUE]}
          \cup {d \in {[c EXCEPT !.clock = t, !.playhead = t]} : c.clock # NoTime}
  BY DEF AdvanceMediaClock, t
<1>3. Keeps(c, c) /\ Keeps(c, [c EXCEPT !.wall = FALSE]) /\ Keeps(c, [c EXCEPT !.wall = TRUE])
  BY DEF Keeps, Controller
<1>4. c.clock # NoTime => Keeps(c, [c EXCEPT !.clock = t, !.playhead = t])
  BY <1>1 DEF Keeps, Controller
<1> QED BY <1>2, <1>3, <1>4

LEMMA StallKeeps ==
    ASSUME NEW c \in Controller, NEW buffer
    PROVE  Keeps(c, UpdateStallState(c, buffer))
BY DEF Keeps, UpdateStallState, Controller

LEMMA DeliveredKeeps ==
    ASSUME NEW c \in Controller, NEW t \in Tracks
    PROVE  Keeps(c, OnMediaDelivered(c, t))
<1> DEFINE buffer == EstimatedBuffer(c, t)
           healthy == c.healthy \/ buffer >= HealthyBuffer
<1>1. OnMediaDelivered(c, t) \in
          {c, [c EXCEPT !.hasStarted = TRUE, !.state = "Playing", !.healthy = healthy],
           UpdateStallState(c, buffer)}
  BY DEF OnMediaDelivered
<1> HIDE DEF healthy, buffer
<1>2. Keeps(c, c) /\ Keeps(c, [c EXCEPT !.hasStarted = TRUE, !.state = "Playing",
                                       !.healthy = healthy])
  BY DEF Keeps, Controller
<1> QED BY <1>1, <1>2, StallKeeps

\* The tick of the clock that a waiting stream makes.
LEMMA TickedKeeps ==
    ASSUME Typed, NEW t \in Tracks, NEW c \in Ticked(t)
    PROVE  Sound(c) /\ Keeps(ctl, c)
<1> DEFINE a == AdvanceMediaClock(ctl, since)
<1>1. c = UpdateStallState(a, EstimatedBuffer(a, t))
  BY DEF Ticked
<1>2. since \in Nat
  BY PacingAssumption DEF Typed
<1>3. Sound(a) /\ Keeps(ctl, a)
  BY <1>2, AdvanceMediaClockSound, AdvanceKeeps DEF Typed, Sound
<1> HIDE DEF a
<1>4. /\ EstimatedBuffer(a, t) \in Nat
      /\ EstimatedBuffer(a, t) > 0 => a.clock # NoTime /\ DeliveredEnds(a) # {}
  BY <1>3, EstimatedBufferNat DEF Sound
<1>5. Sound(c)
  BY <1>1, <1>3, <1>4, UpdateStallStateSound
<1>6. Keeps(a, c)
  BY <1>1, <1>3, StallKeeps DEF Sound
<1> QED BY <1>3, <1>5, <1>6, KeepsTransitive

\* A delivery: the end of the track moves on, and the clock has a value.
LEMMA EmittedMoves ==
    ASSUME Typed, NEW t \in Tracks, NEW start \in Nat, NEW end \in Nat, start <= end,
           NEW c \in Emitted(t, start, end)
    PROVE  /\ Sound(c)
           /\ c.clock # NoTime /\ c.seekGen = ctl.seekGen /\ c.seekTarget = ctl.seekTarget
           /\ ctl.stopped => c.stopped
           /\ \A u \in Tracks : u # t => c.ends[u] = ctl.ends[u]
           /\ c.ends[t] = Larger(EndOr0(ctl.ends[t]), end)
<1> DEFINE r == RecordSegmentDelivery(ctl, t, start, end)
           m == OnMediaDelivered(r, t)
           newEnd == IF ctl.ends[t] = NoTime THEN Larger(end, start)
                     ELSE Larger(ctl.ends[t], Larger(end, start))
           covered == [ctl EXCEPT !.ends[t] = newEnd]
<1>1. ctl \in Controller
  BY DEF Typed, Sound
<1>2. Sound(r)
  BY RecordSegmentDeliverySound DEF Typed
<1>3. newEnd = Larger(EndOr0(ctl.ends[t]), end)
  BY <1>1 DEF Larger, EndOr0, Controller, OptTime
<1>4. r = IF ctl.clock # NoTime THEN covered ELSE SetMediaClock(covered, start)
  BY DEF RecordSegmentDelivery
<1>5. /\ r.clock # NoTime /\ r.seekGen = ctl.seekGen /\ r.seekTarget = ctl.seekTarget
      /\ ctl.stopped => r.stopped
      /\ \A u \in Tracks : u # t => r.ends[u] = ctl.ends[u]
      /\ r.ends[t] = newEnd
  <2> HIDE DEF newEnd, r
  <2> USE <1>1, <1>4, NoTimeAssumption DEF Controller, SetMediaClock
  <2>1. r.clock # NoTime /\ r.seekGen = ctl.seekGen /\ r.seekTarget = ctl.seekTarget
    OBVIOUS
  <2>2. ctl.stopped => r.stopped
    OBVIOUS
  <2>3. r.ends = [ctl.ends EXCEPT ![t] = newEnd]
    OBVIOUS
  <2> QED BY <2>1, <2>2, <2>3
<1>6. c = UpdateStallState(m, EstimatedBuffer(m, t))
  BY DEF Emitted
<1> HIDE DEF r, newEnd
<1>7. Sound(m) /\ Keeps(r, m)
  BY <1>2, OnMediaDeliveredSound, DeliveredKeeps DEF Sound
<1> HIDE DEF m
<1>8. /\ EstimatedBuffer(m, t) \in Nat
      /\ EstimatedBuffer(m, t) > 0 => m.clock # NoTime /\ DeliveredEnds(m) # {}
  BY <1>7, EstimatedBufferNat DEF Sound
<1>9. Sound(c)
  BY <1>6, <1>7, <1>8, UpdateStallStateSound
<1>10. Keeps(m, c)
  BY <1>6, <1>7, StallKeeps DEF Sound
<1>11. Keeps(r, c)
  BY <1>7, <1>10, KeepsTransitive
<1> QED BY <1>3, <1>5, <1>9, <1>11 DEF Keeps

-----------------------------------------------------------------------------
(* Where a stream starts in a Period.                                      *)

LEMMA LeastIs ==
    ASSUME NEW S \in SUBSET Nat, S # {}
    PROVE  Least(S) \in S /\ \A j \in S : Least(S) <= j
<1>1. \E e \in S : \A j \in S : e <= j
  BY EarliestExists
<1> QED BY <1>1 DEF Least

LEMMA Starts ==
    ASSUME show \in Presentations, NEW p \in DOMAIN show.cuts, NEW t \in Tracks, NEW target \in Nat
    PROVE  LET first == StartIndex(p, t, target)
           IN  /\ first \in 1 .. Num(show, p, t) + 1
               /\ Num(show, p, t) # 0 => first \in 1 .. Num(show, p, t)
               /\ show.cuts[p][t][first] <= Larger(show.cuts[p][t][1], target)
<1> DEFINE n == Num(show, p, t)
           list == show.cuts[p][t]
           after == {i \in 1 .. n : list[i + 1] > target}
           first == StartIndex(p, t, target)
<1>1. /\ n \in Nat
      /\ \A i \in 1 .. n + 1 : list[i] \in Nat
  BY ListOfTrack, ShownIsWellFormed
<1>2. first = IF after = {} THEN 1 ELSE Least(after)
  BY DEF StartIndex, Count, Cuts, Num
<1>3. list[1] \in Nat
  BY <1>1
<1> HIDE DEF n, list, first
<1>4. CASE after = {}
  <2>1. first = 1
    BY <1>2, <1>4
  <2> QED BY <1>1, <1>3, <2>1 DEF Larger, n, list, first
<1>5. CASE after # {}
  <2>1. after \in SUBSET Nat
    BY <1>1
  <2>2. first \in after /\ \A j \in after : first <= j
    BY <1>2, <1>5, <2>1, LeastIs
  <2>3. first \in 1 .. n /\ first \in Nat
    BY <1>1, <2>2
  <2>4. CASE first = 1
    BY <1>1, <1>3, <2>3, <2>4 DEF Larger, n, list, first
  <2>5. CASE first # 1
    <3>1. first - 1 \in 1 .. n /\ first - 1 + 1 = first /\ ~(first <= first - 1)
      BY <1>1, <2>3, <2>5
    <3>2. first - 1 \notin after
      BY <2>2, <3>1
    <3>3. ~(list[first] > target)
      BY <3>1, <3>2
    <3>4. list[first] \in Nat
      BY <1>1, <2>3
    <3>5. list[first] <= Larger(list[1], target)
      BY <1>3, <3>3, <3>4 DEF Larger
    <3> QED BY <1>1, <2>3, <3>5 DEF n, list, first
  <2> QED BY <2>4, <2>5
<1> QED BY <1>4, <1>5

LEMMA Entered ==
    ASSUME show \in Presentations, NEW p \in DOMAIN show.cuts, NEW target \in Nat
    PROVE  /\ Entering(p, target) \in [Tracks -> Streams]
           /\ \A t \in Tracks : LET q == Entering(p, target)[t] IN
                  /\ q.at = "head" /\ q.delivered = 0 /\ q.batch = 0
                  /\ q.next \in 1 .. Num(show, p, t) + 1
                  /\ q.next <= Num(show, p, t) =>
                         IsMark(show, t, q.high) /\ MinBuffer <= q.high /\ 0 < q.high
                  /\ show.cuts[p][t][q.next] <= Larger(show.cuts[p][t][1], target)
<1>1. ASSUME NEW t \in Tracks
      PROVE  LET first == StartIndex(p, t, target)
                 high  == HighWater(Nominal(p, t, first))
             IN  /\ high \in Nat
                 /\ first <= Num(show, p, t) =>
                        IsMark(show, t, high) /\ MinBuffer <= high /\ 0 < high
  <2> DEFINE first == StartIndex(p, t, target)
             high == HighWater(Nominal(p, t, first))
  <2>1. /\ first \in 1 .. Num(show, p, t) + 1
        /\ Num(show, p, t) # 0 => first \in 1 .. Num(show, p, t)
        /\ Num(show, p, t) \in Nat
    BY Starts, ListOfTrack, ShownIsWellFormed
  <2> HIDE DEF first
  <2>2. CASE Num(show, p, t) = 0
    <3>1. high = HighWater(0)
      BY <2>2 DEF Nominal, Count, Cuts, Num
    <3>2. HighWater(0) \in Nat
      BY PacingAssumption, BufferAssumption DEF HighWater, Larger
    <3> QED BY <2>1, <2>2, <3>1, <3>2 DEF first
  <2>3. CASE Num(show, p, t) # 0
    <3>1. high = Mark(show, p, t, first)
      BY <2>3 DEF Nominal, Count, Cuts, TrackEnd, Num, Mark
    <3>2. high \in Nat /\ MinBuffer <= high /\ 0 < high
      BY <2>1, <2>3, <3>1, MarkNat, ShownIsWellFormed
    <3>3. IsMark(show, t, high)
      BY <2>1, <2>3, <3>1 DEF IsMark
    <3> QED BY <3>2, <3>3 DEF first
  <2> QED BY <2>2, <2>3
<1>2. ASSUME NEW t \in Tracks
      PROVE  /\ StartIndex(p, t, target) \in 1 .. Num(show, p, t) + 1
             /\ StartIndex(p, t, target) \in Nat \ {0}
             /\ show.cuts[p][t][StartIndex(p, t, target)] <= Larger(show.cuts[p][t][1], target)
  <2>1. Num(show, p, t) \in Nat
    BY ListOfTrack, ShownIsWellFormed
  <2> QED BY <2>1, Starts
<1>3. 0 \in 0 .. MaxParallel /\ "head" \in Place
  BY PacingAssumption DEF Place
<1>4. Entering(p, target) \in [Tracks -> Streams]
  BY <1>1, <1>2, <1>3 DEF Entering, Streams
<1> QED BY <1>1, <1>2, <1>4 DEF Entering

-----------------------------------------------------------------------------
(* A track keeps its invariant when the clock gets further and the stream  *)
(* only changes its place.                                                 *)

LEMMA AllowedNat ==
    ASSUME NEW l, l.period \in Nat \ {0}, NEW q \in Streams
    PROVE  Allowed(l, q) \in Nat
BY PacingAssumption DEF Allowed, Streams

LEMMA TrackKept ==
    ASSUME NEW s, WellFormed(s), NEW t \in Tracks, NEW c \in Controller, NEW e \in Controller,
           e.ends[t] = c.ends[t], e.seekGen = c.seekGen,
           NEW l, l.period \in 0 .. Len(s.cuts),
           NEW q \in Streams, NEW r \in Streams,
           r.next = q.next, r.delivered = q.delivered, r.batch = q.batch,
           NEW f \in Nat, NEW g \in Nat, f <= g, NEW d \in Nat,
           TrackInv(s, c, l, q, f, d, t),
           l.period = 0 => r.at = "returned",
           l.period # 0 => PlaceInv(s, e, l, r, t)
    PROVE  TrackInv(s, e, l, r, g, d, t)
<1>1. s.cuts \in Seq([Tracks -> Seq(Nat)]) /\ Len(s.cuts) \in Nat /\ DOMAIN s.cuts = 1 .. Len(s.cuts)
  BY DEF WellFormed, Presentation
<1>2. f + d \in Nat /\ g + d \in Nat /\ f + d <= g + d
  OBVIOUS
<1>3. ASSUME l.period # 0, e.seekGen = l.gen
      PROVE  NextInv(s, e.ends[t], l, r, g, d, t)
  <2> DEFINE start == s.cuts[l.period][t][q.next]
  <2>1. NextInv(s, c.ends[t], l, q, f, d, t)
    BY <1>3 DEF TrackInv
  <2>2. l.period \in DOMAIN s.cuts /\ l.period \in Nat \ {0}
    BY <1>1, <1>3
  <2>3. q.next \in 1 .. Num(s, l.period, t) + 1
    BY <1>3 DEF TrackInv, PlaceInv
  <2>4. start \in Nat
    BY <2>2, <2>3, ListOfTrack
  <2>5. start <= Larger(EndOr0(c.ends[t]), f) + d
    BY <2>1 DEF NextInv
  <2>6. EndOr0(c.ends[t]) \in Nat
    BY DEF EndOr0, Controller, OptTime
  <2> HIDE DEF start
  <2>7. start <= Larger(EndOr0(c.ends[t]), g) + d
    BY <2>4, <2>5, <2>6 DEF Larger
  <2>8. Allowed(l, r) = Allowed(l, q) /\ Allowed(l, q) \in Nat
    BY <2>2, AllowedNat DEF Allowed
  <2>9. ASSUME NEW n \in Nat, IsLength(s, t, n)
        PROVE  Fits(s, t, g + d, Allowed(l, r), start)
    <3>1. Fits(s, t, f + d, Allowed(l, q), start)
      BY <2>1, <2>9 DEF NextInv, start
    <3> HIDE DEF Allowed
    <3> QED BY <1>2, <2>4, <2>8, <3>1, FitsMore
  <2> QED BY <2>7, <2>9 DEF NextInv, start
<1>4. ASSUME e.ends[t] # NoTime
      PROVE  Fits(s, t, g + d, MaxParallel + Len(s.cuts) - 1, e.ends[t])
  <2> DEFINE n == MaxParallel + Len(s.cuts) - 1
  <2>1. n \in Nat
    BY <1>1, PacingAssumption
  <2>2. c.ends[t] \in Nat
    BY <1>4 DEF Controller, OptTime
  <2>3. Fits(s, t, f + d, n, c.ends[t])
    BY <1>4 DEF TrackInv
  <2> HIDE DEF n
  <2>4. Fits(s, t, g + d, n, e.ends[t])
    BY <1>2, <2>1, <2>2, <2>3, FitsMore
  <2> QED BY <2>4 DEF n
<1> QED BY <1>3, <1>4 DEF TrackInv

\* A track that a step does not concern.
LEMMA TrackStays ==
    ASSUME NEW s, WellFormed(s), NEW t \in Tracks, NEW c \in Controller, NEW e \in Controller,
           e.ends[t] = c.ends[t], e.seekGen = c.seekGen, c.stopped => e.stopped,
           NEW l, l.period \in 0 .. Len(s.cuts), NEW q \in Streams,
           NEW f \in Nat, NEW g \in Nat, f <= g, NEW d \in Nat,
           TrackInv(s, c, l, q, f, d, t)
    PROVE  TrackInv(s, e, l, q, g, d, t)
<1>1. /\ l.period = 0 => q.at = "returned"
      /\ l.period # 0 => PlaceInv(s, e, l, q, t)
  BY DEF TrackInv, PlaceInv
<1> QED BY <1>1, TrackKept

-----------------------------------------------------------------------------
(* Steps.                                                                  *)

\* What every step may rely on.
LEMMA Known ==
    ASSUME LeadInv
    PROVE  /\ WellFormed(show) /\ ctl \in Controller
           /\ loop.period \in 0 .. Len(show.cuts) /\ Len(show.cuts) \in Nat
           /\ DOMAIN show.cuts = 1 .. Len(show.cuts)
           /\ loop.gen \in Nat /\ loop.target \in Nat /\ furthest \in Nat
           /\ ctl.seekGen \in Nat /\ since \in Nat
           /\ loop.period # 0 =>
                  /\ loop.period \in DOMAIN show.cuts
                  /\ \A t \in Tracks : Num(show, loop.period, t) \in Nat
           /\ \A t \in Tracks :
                  /\ stream[t] \in Streams /\ dropped[t] \in Nat
                  /\ Count(loop.period, t) = Num(show, loop.period, t)
                  /\ TrackInv(show, ctl, loop, stream[t], furthest, dropped[t], t)
<1>1. WellFormed(show)
  BY ShownIsWellFormed DEF LeadInv, Typed
<1>2. show.cuts \in Seq([Tracks -> Seq(Nat)])
  BY <1>1 DEF WellFormed, Presentation
<1>3. ctl.seekGen \in Nat /\ since \in Nat
  BY PacingAssumption DEF LeadInv, Typed, Sound, Controller
<1>4. loop.period \in 0 .. Len(show.cuts)
  BY DEF LeadInv, Typed
<1>5. loop.period # 0 => loop.period \in DOMAIN show.cuts
  BY <1>2, <1>4
<1>6. loop.period # 0 => \A t \in Tracks : Num(show, loop.period, t) \in Nat
  BY <1>1, <1>5, ListOfTrack
<1> QED BY <1>1, <1>2, <1>3, <1>5, <1>6 DEF LeadInv, Typed, Sound, Count, Cuts, Num

\* A step of the controller that is not a seek.
LEMMA Steered ==
    ASSUME LeadInv, NEW c, c \in Controller, NEW left \in 0 .. MaxSince, Steer(c, left),
           c.seekGen = ctl.seekGen, c.seekTarget = ctl.seekTarget,
           ctl.clock # NoTime => c.clock # NoTime,
           \A u \in Tracks : c.ends[u] # NoTime => c.clock # NoTime
    PROVE  /\ ctl' = c /\ since' \in 0 .. MaxSince
           /\ furthest' \in Nat /\ furthest <= furthest'
           /\ c.clock # NoTime => c.clock <= furthest'
           /\ GenInv(show, c, loop, commands, furthest')
<1>1. ctl' = c /\ since' \in 0 .. MaxSince
  BY PacingAssumption DEF Steer
<1>2. /\ furthest' = IF c.clock = NoTime THEN 0 ELSE Larger(furthest, c.clock)
      /\ furthest \in Nat
  BY DEF Steer, LeadInv, Typed
<1>3. c.clock # NoTime => c.clock \in Nat
  BY DEF Controller, OptTime
<1>4. GenInv(show, ctl, loop, commands, furthest)
  BY DEF LeadInv
<1>5. /\ furthest' \in Nat /\ furthest <= furthest'
      /\ c.clock # NoTime => c.clock <= furthest'
  BY <1>2, <1>3, <1>4 DEF GenInv, Larger
<1>6. show.seekTimes \subseteq Nat /\ loop.target \in Nat
  BY Known DEF WellFormed, Presentation
<1>7. /\ c.seekGen = loop.gen => loop.target <= furthest'
      /\ c.seekGen # loop.gen => c.seekTarget \in show.seekTimes /\ c.seekTarget <= furthest'
  BY <1>4, <1>5, <1>6 DEF GenInv, LeadInv, Typed
<1>8. c.clock = NoTime => furthest' = 0
  BY <1>2
<1> QED BY <1>1, <1>4, <1>5, <1>7, <1>8 DEF GenInv

\* A step that concerns one track.
LEMMA OneTrack ==
    ASSUME LeadInv, NEW t \in Tracks, NEW r \in Streams, NEW d \in Nat,
           Sound(ctl'), ctl'.seekGen = ctl.seekGen, ctl.stopped => ctl'.stopped,
           \A u \in Tracks : u # t => ctl'.ends[u] = ctl.ends[u],
           GenInv(show, ctl', loop, commands, furthest'),
           furthest' \in Nat, furthest <= furthest', since' \in 0 .. MaxSince,
           UNCHANGED <<show, loop, commands>>,
           stream' = [stream EXCEPT ![t] = r], dropped' = [dropped EXCEPT ![t] = d],
           TrackInv(show, ctl', loop, r, furthest', d, t)
    PROVE  LeadInv'
<1>1. stream' \in [Tracks -> Streams] /\ dropped' \in [Tracks -> Nat]
  BY DEF LeadInv, Typed
<1>2. Typed'
  BY <1>1 DEF LeadInv, Typed
<1>3. ASSUME NEW u \in Tracks
      PROVE  TrackInv(show, ctl', loop, stream'[u], furthest', dropped'[u], u)
  <2>1. stream \in [Tracks -> Streams] /\ dropped \in [Tracks -> Nat]
    BY DEF LeadInv, Typed
  <2>2. CASE u = t
    BY <2>1, <2>2
  <2>3. CASE u # t
    <3>1. stream'[u] = stream[u] /\ dropped'[u] = dropped[u]
      BY <2>1, <2>3
    <3>2. ctl' \in Controller
      BY DEF Sound
    <3> QED BY <2>3, <3>1, <3>2, Known, TrackStays
  <2> QED BY <2>2, <2>3
<1> QED BY <1>2, <1>3 DEF LeadInv

\* A step that only moves a stream.
LEMMA OnlyPlace ==
    ASSUME LeadInv, NEW t \in Tracks, NEW place \in Place, Goto(t, place),
           UNCHANGED <<show, ctl, loop, since, commands, furthest, dropped>>,
           loop.period # 0, PlaceInv(show, ctl, loop, [stream[t] EXCEPT !.at = place], t)
    PROVE  LeadInv'
<1> DEFINE q == stream[t]
           r == [q EXCEPT !.at = place]
<1>1. q \in Streams
  BY Known
<1>2. stream' = [stream EXCEPT ![t] = r]
  BY DEF Goto
<1>3. /\ r \in Streams
      /\ r.next = q.next /\ r.delivered = q.delivered /\ r.batch = q.batch
  BY <1>1 DEF Streams
<1>4. loop.period # 0 /\ PlaceInv(show, ctl, loop, r, t)
  OBVIOUS
<1> HIDE DEF q, r
<1>5. TrackInv(show, ctl, loop, q, furthest, dropped[t], t)
  BY Known DEF q
<1>6. TrackInv(show, ctl, loop, r, furthest, dropped[t], t)
  BY <1>1, <1>3, <1>4, <1>5, Known, TrackKept
<1>7. dropped' = [dropped EXCEPT ![t] = dropped[t]]
  BY DEF LeadInv, Typed
<1>8. /\ Sound(ctl) /\ GenInv(show, ctl, loop, commands, furthest)
      /\ since \in 0 .. MaxSince
  BY DEF LeadInv, Typed
<1>9. /\ ctl' = ctl /\ furthest' = furthest /\ since' = since
      /\ furthest \in Nat /\ furthest <= furthest /\ dropped[t] \in Nat
  BY Known
<1>10. /\ Sound(ctl') /\ GenInv(show, ctl', loop, commands, furthest')
       /\ TrackInv(show, ctl', loop, r, furthest', dropped[t], t)
  BY <1>6, <1>8, <1>9
<1> QED BY <1>2, <1>3, <1>7, <1>8, <1>9, <1>10, OneTrack

LEMMA WindowEndsStep ==
    ASSUME LeadInv, NEW t \in Tracks, WindowEnds(t)
    PROVE  LeadInv'
<1>1. stream[t] \in Streams /\ Count(loop.period, t) = Num(show, loop.period, t)
  BY Known
<1>0. loop.period # 0
  BY Known DEF TrackInv, WindowEnds
<1>2. PlaceInv(show, ctl, loop, [stream[t] EXCEPT !.at = "returned"], t)
  <2>1. PlaceInv(show, ctl, loop, stream[t], t)
    BY <1>0, Known DEF TrackInv
  <2>2. Num(show, loop.period, t) \in Nat
    BY <1>0, Known
  <2> DEFINE r == [stream[t] EXCEPT !.at = "returned"]
  <2>3. /\ r.next = stream[t].next /\ r.high = stream[t].high /\ r.batch = stream[t].batch
        /\ r.delivered = stream[t].delivered /\ r.at = "returned"
    BY <1>1 DEF Streams
  <2> HIDE DEF r
  <2>4. stream[t].at = "head" /\ stream[t].next = Num(show, loop.period, t) + 1
    <3>1. stream[t].next \in 1 .. Num(show, loop.period, t) + 1
      BY <2>1 DEF PlaceInv
    <3>2. stream[t].at = "head" /\ stream[t].next > Num(show, loop.period, t)
      BY <1>1 DEF WindowEnds
    <3> QED BY <2>2, <3>1, <3>2
  <2>5. PlaceInv(show, ctl, loop, r, t)
    BY <2>1, <2>2, <2>3, <2>4 DEF PlaceInv
  <2> QED BY <2>5 DEF r
<1> QED BY <1>0, <1>2, OnlyPlace DEF WindowEnds, Place

LEMMA LeaveStep ==
    ASSUME LeadInv, NEW t \in Tracks, Leave(t)
    PROVE  LeadInv'
<1>1. stream[t] \in Streams
  BY Known
<1>0. loop.period # 0
  BY Known DEF TrackInv, Leave
<1>2. PlaceInv(show, ctl, loop, [stream[t] EXCEPT !.at = "returned"], t)
  <2>1. PlaceInv(show, ctl, loop, stream[t], t)
    BY <1>0, Known DEF TrackInv
  <2> QED BY <1>1, <2>1 DEF PlaceInv, Leave, Interrupted, Streams
<1> QED BY <1>0, <1>2, OnlyPlace DEF Leave, Place

LEMMA FetchedStep ==
    ASSUME LeadInv, NEW t \in Tracks, Downloaded(t) \/ UseResult(t)
    PROVE  LeadInv'
<1>1. stream[t] \in Streams
  BY Known
<1>0. loop.period # 0
  BY Known DEF TrackInv, Downloaded, UseResult
<1>2. ASSUME NEW place \in {"result", "decrypt"}
      PROVE  PlaceInv(show, ctl, loop, [stream[t] EXCEPT !.at = place], t)
  <2>1. PlaceInv(show, ctl, loop, stream[t], t)
    BY <1>0, Known DEF TrackInv
  <2>2. stream[t].at \in {"download", "result"}
    BY DEF Downloaded, UseResult
  <2> DEFINE r == [stream[t] EXCEPT !.at = place]
  <2>3. /\ r.next = stream[t].next /\ r.high = stream[t].high /\ r.batch = stream[t].batch
        /\ r.delivered = stream[t].delivered /\ r.at = place
    BY <1>1 DEF Streams
  <2> HIDE DEF r
  <2>4. PlaceInv(show, ctl, loop, r, t)
    BY <1>2, <2>1, <2>2, <2>3 DEF PlaceInv
  <2> QED BY <2>4 DEF r
<1> QED BY <1>0, <1>2, OnlyPlace DEF Downloaded, UseResult, Place

LEMMA ClockTickStep ==
    ASSUME LeadInv, NEW t \in Tracks, ClockTick(t)
    PROVE  LeadInv'
<1>1. PICK c \in Ticked(t) : Steer(c, 0)
  BY DEF ClockTick
<1>2. Sound(c) /\ Keeps(ctl, c)
  BY TickedKeeps DEF LeadInv
<1>3. 0 \in 0 .. MaxSince /\ c \in Controller
  BY <1>2, PacingAssumption DEF Sound
<1>4. \A u \in Tracks : c.ends[u] # NoTime => c.clock # NoTime
  BY <1>2 DEF Keeps, LeadInv, GenInv
<1>5. /\ ctl' = c /\ since' \in 0 .. MaxSince
      /\ furthest' \in Nat /\ furthest <= furthest'
      /\ GenInv(show, c, loop, commands, furthest')
  BY <1>1, <1>2, <1>3, <1>4, Steered DEF Keeps
<1>6. TrackInv(show, c, loop, stream[t], furthest', dropped[t], t)
  BY SMTT(30), <1>2, <1>3, <1>5, Known, TrackStays DEF Keeps
<1>7. /\ stream' = [stream EXCEPT ![t] = stream[t]]
      /\ dropped' = [dropped EXCEPT ![t] = dropped[t]]
  BY DEF ClockTick, LeadInv, Typed
<1>8. UNCHANGED <<show, loop, commands>>
  BY DEF ClockTick
<1> QED BY <1>2, <1>5, <1>6, <1>7, <1>8, Known, OneTrack DEF Keeps

\* The segment that comes next.
LEMMA NextSegment ==
    ASSUME LeadInv, loop.period # 0, NEW t \in Tracks,
           stream[t].next <= Num(show, loop.period, t)
    PROVE  LET start == show.cuts[loop.period][t][stream[t].next]
               end   == show.cuts[loop.period][t][stream[t].next + 1]
           IN  /\ start \in Nat /\ end \in Nat /\ start <= end
               /\ end - start \in Nat /\ IsLength(show, t, end - start)
<1> DEFINE p == loop.period
           n == stream[t].next
           start == show.cuts[p][t][n]
           end == show.cuts[p][t][n + 1]
<1>1. p \in DOMAIN show.cuts /\ Num(show, p, t) \in Nat /\ WellFormed(show)
  BY Known
<1>2. n \in Nat \ {0}
  BY Known DEF Streams
<1>3. n \in 1 .. Num(show, p, t) /\ n \in 1 .. Num(show, p, t) + 1
      /\ n + 1 \in 1 .. Num(show, p, t) + 1
  BY <1>1, <1>2
<1>4. IsLength(show, t, end - start)
  BY <1>1, <1>3 DEF IsLength
<1>5. start \in Nat /\ end \in Nat /\ start <= end
  BY <1>1, <1>3, ListOfTrack
<1> HIDE DEF start, end
<1>6. end - start \in Nat
  BY <1>5
<1> QED BY <1>4, <1>5, <1>6 DEF start, end

\* What the gate lets through.
LEMMA GateIs ==
    ASSUME NEW q \in Streams, NEW buffer \in Nat, NEW remaining \in Nat \ {0},
           NEW len, len = BatchLen(q, buffer, remaining), len # 0
    PROVE  /\ len \in 1 .. MaxParallel /\ len <= remaining
           /\ q.delivered = 0 => len = 1
           /\ q.delivered # 0 => buffer < MinBuffer \/ buffer < q.high
<1> USE PacingAssumption
<1> DEFINE most == IF q.delivered = 0 THEN 1 ELSE MaxParallel
<1>1. most \in 1 .. MaxParallel
  OBVIOUS
<1>2. ShouldFetch(q, buffer, q.delivered)
  BY DEF BatchLen
<1>3. len = IF remaining < most THEN remaining ELSE most
  BY <1>2 DEF BatchLen
<1> QED BY <1>1, <1>2, <1>3 DEF ShouldFetch

LEMMA WaitStep ==
    ASSUME LeadInv, NEW t \in Tracks, WaitForCapacity(t)
    PROVE  LeadInv'
<1> DEFINE q == stream[t]
           p == loop.period
           remaining == Num(show, p, t) + 1 - q.next
           start == show.cuts[p][t][q.next]
           d == dropped[t]
<1>1. /\ q \in Streams /\ d \in Nat /\ p # 0 /\ q.at = "head"
      /\ Count(p, t) = Num(show, p, t) /\ Num(show, p, t) \in Nat
      /\ q.next <= Num(show, p, t)
      /\ UNCHANGED <<show, loop, commands>> /\ dropped' = dropped
  BY Known DEF WaitForCapacity, TrackInv
<1>2. PICK c \in Ticked(t) :
          LET len == BatchLen(q, EstimatedBuffer(c, t), remaining)
          IN  /\ Steer(c, 0)
              /\ stream' = IF len = 0 THEN stream
                           ELSE [stream EXCEPT ![t].at = "download", ![t].batch = len]
  BY <1>1 DEF WaitForCapacity
<1> DEFINE buffer == EstimatedBuffer(c, t)
           len == BatchLen(q, buffer, remaining)
           r == [q EXCEPT !.at = "download", !.batch = len]
           f == furthest'
<1>3. Sound(c) /\ Keeps(ctl, c) /\ c \in Controller
  BY TickedKeeps DEF LeadInv, Sound
<1>4. 0 \in 0 .. MaxSince
  BY PacingAssumption
<1>5. \A u \in Tracks : c.ends[u] # NoTime => c.clock # NoTime
  BY <1>3 DEF Keeps, LeadInv, GenInv
<1>6. /\ ctl' = c /\ since' \in 0 .. MaxSince
      /\ f \in Nat /\ furthest <= f
      /\ c.clock # NoTime => c.clock <= f
      /\ GenInv(show, c, loop, commands, f)
  BY <1>2, <1>3, <1>4, <1>5, Steered DEF Keeps
<1>7. TrackInv(show, c, loop, q, f, d, t)
  BY <1>3, <1>6, Known, TrackStays DEF Keeps
<1>8. dropped' = [dropped EXCEPT ![t] = d]
  BY <1>1 DEF LeadInv, Typed
<1>9. CASE len = 0
  <2>1. stream' = [stream EXCEPT ![t] = q]
    BY <1>2, <1>9 DEF LeadInv, Typed
  <2> HIDE DEF q, d, f
  <2> QED BY <1>1, <1>3, <1>6, <1>7, <1>8, <2>1, OneTrack DEF Keeps, f
<1>10. CASE len # 0
  <2>1. stream' = [stream EXCEPT ![t].at = "download", ![t].batch = len]
    BY <1>2, <1>10
  <2>2. stream' = [stream EXCEPT ![t] = r]
    BY <1>1, <2>1 DEF LeadInv, Typed, Streams
  <2>3. buffer \in Nat
    BY <1>3, EstimatedBufferNat
  <2>4. remaining \in Nat \ {0}
    BY <1>1 DEF Streams
  <2>5. /\ len \in 1 .. MaxParallel /\ len <= remaining
        /\ q.delivered = 0 => len = 1
        /\ q.delivered # 0 => buffer < MinBuffer \/ buffer < q.high
    <3> HIDE DEF q, buffer, remaining
    <3> QED BY SMTT(30), <1>1, <1>10, <2>3, <2>4, GateIs
  <2>6. start \in Nat
    BY <1>1, NextSegment
  <2>7. NextInv(show, c.ends[t], loop, q, f, d, t) /\ PlaceInv(show, c, loop, q, t)
    <3>1. c.seekGen = loop.gen
      BY <1>3 DEF Keeps, WaitForCapacity, Interrupted
    <3> QED BY <1>1, <1>7, <3>1 DEF TrackInv
  <2> HIDE DEF buffer, len, f
  <2>8. /\ r \in Streams /\ r.next = q.next /\ r.delivered = q.delivered /\ r.high = q.high
        /\ r.at = "download" /\ r.batch = len
    <3>1. len \in 0 .. MaxParallel /\ "download" \in Place
      BY <2>5, PacingAssumption DEF Place
    <3>2. q \in Streams
      BY <1>1
    <3> HIDE DEF q
    <3> QED BY <3>1, <3>2 DEF Streams
  <2> HIDE DEF r
  <2>9. PlaceInv(show, c, loop, r, t)
    <3>1. r.next + r.batch <= Num(show, p, t) + 1
      <4>1. q.next \in Nat /\ len \in Nat
        BY <1>1, <2>5, PacingAssumption DEF Streams
      <4> QED BY <1>1, <2>5, <2>8, <4>1
    <3>2. 1 <= r.batch /\ (r.delivered = 0 => r.batch <= 1)
      BY <2>5, <2>8
    <3> QED BY <2>7, <2>8, <3>1, <3>2 DEF PlaceInv
  <2>10. Allowed(loop, r) \in Nat
    BY <1>1, <2>8, Known, AllowedNat
  <2>11. ASSUME NEW n \in Nat, IsLength(show, t, n)
         PROVE  Fits(show, t, f + d, Allowed(loop, r), start)
    <3>1. CASE q.delivered = 0
      <4>1. Allowed(loop, r) = Allowed(loop, q)
        BY <2>8, <3>1 DEF Allowed
      <4> QED BY <2>7, <2>11, <4>1 DEF NextInv
    <3>2. CASE q.delivered # 0
      <4>1. /\ q.high \in Nat /\ IsMark(show, t, q.high) /\ MinBuffer <= q.high /\ 0 < q.high
        BY <1>1, <2>7 DEF PlaceInv, Streams
      <4>2. buffer < q.high
        BY <2>3, <2>5, <3>2, <4>1, BufferAssumption
      <4>3. EndOr0(c.ends[t]) \in Nat /\ EndOr0(c.ends[t]) < f + q.high
        <5>1. CASE c.ends[t] = NoTime
          BY <1>6, <4>1, <5>1 DEF EndOr0, f
        <5>2. CASE c.ends[t] # NoTime
          <6>1. c.ends[t] \in Nat /\ c.clock \in Nat /\ c.clock <= f
            BY <1>3, <1>5, <1>6, <5>2 DEF Controller, OptTime, f
          <6>2. buffer = IF c.ends[t] < c.clock THEN 0 ELSE c.ends[t] - c.clock
            BY <1>5, <5>2 DEF buffer, EstimatedBuffer
          <6>3. f \in Nat /\ EndOr0(c.ends[t]) = c.ends[t]
            BY <1>6, <5>2 DEF f, EndOr0
          <6> QED BY <4>1, <4>2, <6>1, <6>2, <6>3
        <5> QED BY <5>1, <5>2
      <4>4. f \in Nat /\ f + d \in Nat
        BY <1>1, <1>6 DEF f
      <4>5. start <= Larger(EndOr0(c.ends[t]), f) + d
        BY <2>7 DEF NextInv
      <4>6. start < f + d + q.high
        <5> HIDE DEF start, q, d
        <5> QED BY SMTT(30), <1>1, <2>6, <4>1, <4>3, <4>4, <4>5 DEF Larger
      <4> HIDE DEF start, q, d
      <4> QED BY <2>6, <2>10, <2>11, <4>1, <4>4, <4>6, Known, FitsBelowMark
    <3> QED BY <3>1, <3>2
  <2>12. NextInv(show, c.ends[t], loop, r, f, d, t)
    BY <2>7, <2>8, <2>11 DEF NextInv
  <2>13. TrackInv(show, c, loop, r, f, d, t)
    BY <1>1, <1>7, <2>9, <2>12 DEF TrackInv
  <2> HIDE DEF q, d
  <2> QED BY <1>1, <1>3, <1>6, <1>8, <2>2, <2>8, <2>13, OneTrack DEF Keeps, f
<1> QED BY <1>9, <1>10

\* A stream behind the segment it used.
After(q, delivered) ==
    [q EXCEPT !.at = IF q.batch = 1 THEN "head" ELSE "result", !.next = q.next + 1,
              !.batch = q.batch - 1, !.delivered = delivered]

LEMMA PlaceAfterSegment ==
    ASSUME LeadInv, NEW t \in Tracks, loop.period # 0, stream[t].at = "decrypt",
           NEW c \in Controller,
           NEW delivered \in {stream[t].delivered, stream[t].delivered + 1},
           NEW r, r = After(stream[t], delivered)
    PROVE  /\ r \in Streams
           /\ r.next = stream[t].next + 1 /\ r.batch = stream[t].batch - 1
           /\ r.delivered = delivered
           /\ r.at # "returned"
           /\ stream[t].next \in Nat \ {0}
           /\ stream[t].next <= Num(show, loop.period, t)
           /\ stream[t].batch \in 1 .. MaxParallel
           /\ stream[t].delivered \in Nat
           /\ stream[t].delivered = 0 => stream[t].batch = 1
           /\ PlaceInv(show, c, loop, r, t)
<1> DEFINE q == stream[t]
           n == Num(show, loop.period, t)
<1>1. q \in Streams /\ n \in Nat /\ MaxParallel \in Nat
  BY Known, PacingAssumption
<1>2. PlaceInv(show, ctl, loop, q, t)
  BY Known DEF TrackInv
<1>3. /\ q.next \in Nat \ {0} /\ q.batch \in 0 .. MaxParallel /\ q.delivered \in Nat
      /\ q.high \in Nat /\ q.at = "decrypt"
  BY <1>1 DEF Streams
<1>4. /\ q.next \in 1 .. n + 1
      /\ q.next <= n => IsMark(show, t, q.high) /\ MinBuffer <= q.high /\ 0 < q.high
      /\ 1 <= q.batch /\ q.next + q.batch <= n + 1
      /\ q.delivered = 0 => q.batch <= 1
  BY <1>2, <1>3 DEF PlaceInv
<1> DEFINE at == IF q.batch = 1 THEN "head" ELSE "result"
<1>5. at \in Place /\ delivered \in Nat
  BY <1>3 DEF Place
<1>6. r = [q EXCEPT !.at = at, !.next = q.next + 1, !.batch = q.batch - 1, !.delivered = delivered]
  BY DEF After
<1>7. q.next + 1 \in Nat \ {0} /\ q.batch - 1 \in 0 .. MaxParallel
  BY <1>1, <1>3, <1>4
<1> HIDE DEF q, n, at
<1>8. /\ r \in Streams
      /\ r.at = at /\ r.next = q.next + 1 /\ r.batch = q.batch - 1 /\ r.delivered = delivered
      /\ r.high = q.high
  BY <1>1, <1>5, <1>6, <1>7 DEF Streams
<1>9. q.next <= n /\ q.batch \in 1 .. MaxParallel /\ (q.delivered = 0 => q.batch = 1)
  BY <1>1, <1>3, <1>4
<1>10. r.at = (IF q.batch = 1 THEN "head" ELSE "result") /\ r.at # "returned"
  BY <1>8 DEF at
<1>11. /\ r.next \in 1 .. n + 1
       /\ r.next <= n => IsMark(show, t, r.high) /\ MinBuffer <= r.high /\ 0 < r.high
       /\ r.delivered = 0 => r.batch <= 1
  <2>1. r.next \in 1 .. n + 1
    BY <1>1, <1>3, <1>8, <1>9
  <2>2. r.next <= n => IsMark(show, t, r.high) /\ MinBuffer <= r.high /\ 0 < r.high
    BY <1>4, <1>8, <1>9
  <2>3. delivered = q.delivered \/ delivered # 0
    BY <1>3 DEF q
  <2>4. r.delivered = 0 => r.batch <= 1
    BY <1>3, <1>4, <1>8, <2>3
  <2> QED BY <2>1, <2>2, <2>4
<1>12. /\ r.at \in {"download", "result", "decrypt"}
                => 1 <= r.batch /\ r.next + r.batch <= n + 1
       /\ r.at = "head" => r.batch = 0
  BY <1>1, <1>3, <1>4, <1>8, <1>9, <1>10
<1>13. PlaceInv(show, c, loop, r, t)
  BY <1>10, <1>11, <1>12 DEF PlaceInv, n
<1> QED BY <1>3, <1>8, <1>9, <1>10, <1>13 DEF q, n

\* What is left of the allowance behind a segment.
LEMMA AllowedAfter ==
    ASSUME LeadInv, NEW t \in Tracks, loop.period # 0, NEW r \in Streams,
           stream[t].batch \in 1 .. MaxParallel, stream[t].delivered = 0 => stream[t].batch = 1,
           r.batch = stream[t].batch - 1
    PROVE  /\ Allowed(loop, stream[t]) \in Nat
           /\ Allowed(loop, r) \in Nat
           /\ r.delivered = stream[t].delivered => Allowed(loop, stream[t]) <= Allowed(loop, r)
           /\ r.delivered # 0 => Allowed(loop, r) = Allowed(loop, stream[t]) + 1
           /\ Allowed(loop, stream[t]) + 1 <= MaxParallel + Len(show.cuts) - 1
<1>1. /\ loop.period \in 1 .. Len(show.cuts) /\ Len(show.cuts) \in Nat
      /\ loop.period \in Nat \ {0} /\ stream[t] \in Streams /\ MaxParallel \in Nat
  BY Known, PacingAssumption
<1>2. Allowed(loop, stream[t]) \in Nat /\ Allowed(loop, r) \in Nat
  BY <1>1, AllowedNat
<1>3. stream[t].batch \in Nat \ {0}
  BY <1>1
<1>4. Allowed(loop, stream[t]) = MaxParallel + loop.period - 1 - stream[t].batch
  BY <1>3 DEF Allowed
<1>5. r.delivered # 0 => Allowed(loop, r) = MaxParallel + loop.period - 1 - r.batch
  BY DEF Allowed
<1>6. r.delivered = 0 => Allowed(loop, r) = MaxParallel + loop.period - 1 - 1
  BY DEF Allowed
<1> HIDE DEF Allowed
<1>7. r.delivered = stream[t].delivered => Allowed(loop, stream[t]) <= Allowed(loop, r)
  <2>1. r.batch \in Nat /\ 1 <= stream[t].batch
    BY <1>1, <1>3
  <2>2. CASE r.delivered = 0
    BY <1>1, <1>3, <1>4, <1>6, <2>1, <2>2
  <2>3. CASE r.delivered # 0
    BY <1>1, <1>3, <1>4, <1>5, <2>1, <2>3
  <2> QED BY <2>2, <2>3
<1>8. r.delivered # 0 => Allowed(loop, r) = Allowed(loop, stream[t]) + 1
  BY <1>1, <1>3, <1>4, <1>5
<1>9. Allowed(loop, stream[t]) + 1 <= MaxParallel + Len(show.cuts) - 1
  <2>1. loop.period <= Len(show.cuts) /\ 1 <= stream[t].batch /\ stream[t].batch \in Nat
    BY SMTT(30), <1>1, <1>3
  <2> QED BY SMTT(30), <1>1, <1>4, <2>1
<1> QED BY <1>2, <1>7, <1>8, <1>9

\* A pause throws the segment away.
LEMMA DropStep ==
    ASSUME LeadInv, NEW t \in Tracks, EmitSegment(t),
           ctl.paused, ~ctl.policy.scheduleWhilePaused
    PROVE  LeadInv'
<1> DEFINE q == stream[t]
           p == loop.period
           start == show.cuts[p][t][q.next]
           end == show.cuts[p][t][q.next + 1]
           len == end - start
           d == dropped[t]
           r == After(q, q.delivered)
           f == furthest'
<1>1. /\ q \in Streams /\ d \in Nat /\ p # 0 /\ q.at = "decrypt"
      /\ ctl \in Controller /\ Sound(ctl) /\ WellFormed(show)
      /\ p \in 0 .. Len(show.cuts)
  BY Known DEF EmitSegment, TrackInv, LeadInv, Typed
<1>2. /\ UNCHANGED <<show, loop, commands>> /\ Steer(ctl, since)
      /\ stream' = [stream EXCEPT ![t] = r]
      /\ dropped' = [dropped EXCEPT ![t] = d + len]
  BY DEF EmitSegment, Length, Cuts, After, LeadInv, Typed
<1>3. /\ r \in Streams /\ r.next = q.next + 1 /\ r.batch = q.batch - 1
      /\ r.delivered = q.delivered /\ r.at # "returned"
      /\ q.next <= Num(show, p, t) /\ q.batch \in 1 .. MaxParallel
      /\ q.delivered = 0 => q.batch = 1
      /\ PlaceInv(show, ctl, loop, r, t)
  BY <1>1, PlaceAfterSegment
<1>4. since \in 0 .. MaxSince /\ \A u \in Tracks : ctl.ends[u] # NoTime => ctl.clock # NoTime
  BY DEF LeadInv, Typed, GenInv
<1>5. /\ ctl' = ctl /\ since' \in 0 .. MaxSince
      /\ f \in Nat /\ furthest <= f
      /\ GenInv(show, ctl, loop, commands, f)
  BY <1>1, <1>2, <1>4, Steered
<1>6. TrackInv(show, ctl, loop, q, f, d, t)
  BY SMTT(30), <1>1, <1>5, Known, TrackStays
<1>7. NextInv(show, ctl.ends[t], loop, q, f, d, t)
  <2>1. ctl.seekGen = loop.gen
    BY DEF EmitSegment, Interrupted
  <2> QED BY <1>1, <1>6, <2>1 DEF TrackInv
<1>8. /\ start \in Nat /\ end \in Nat /\ start <= end /\ len \in Nat /\ IsLength(show, t, len)
  BY <1>1, <1>3, NextSegment
<1>9. end = start + len
  <2> HIDE DEF start, end
  <2> QED BY <1>8
<1>10. /\ Allowed(loop, q) \in Nat /\ Allowed(loop, r) \in Nat
       /\ Allowed(loop, q) <= Allowed(loop, r)
  BY <1>1, <1>3, AllowedAfter
<1> HIDE DEF Allowed, r, f
<1>11. ASSUME NEW n \in Nat, IsLength(show, t, n)
       PROVE  Fits(show, t, f + (d + len), Allowed(loop, r), end)
  <2>1. Fits(show, t, f + d, Allowed(loop, q), start)
    BY <1>7, <1>11 DEF NextInv
  <2> HIDE DEF start, end, len, q, d
  <2>2. f + d \in Nat /\ f + (d + len) \in Nat /\ f + (d + len) = f + d + len
    <3>1. f \in Nat /\ d \in Nat /\ len \in Nat
      BY <1>1, <1>5, <1>8
    <3> QED BY <3>1
  <2>3. Fits(show, t, f + d + len, Allowed(loop, q), start + len)
    BY SMTT(30), <1>8, <1>10, <2>1, <2>2, FitsDropped
  <2> QED BY <1>8, <1>9, <1>10, <2>2, <2>3, FitsMore
<1>12. NextInv(show, ctl.ends[t], loop, r, f, d + len, t)
  <2>1. start <= Larger(EndOr0(ctl.ends[t]), f) + d
    BY <1>7 DEF NextInv
  <2>2. EndOr0(ctl.ends[t]) \in Nat /\ f \in Nat /\ d \in Nat
    BY <1>1, <1>5 DEF EndOr0, Controller, OptTime
  <2>3. end <= Larger(EndOr0(ctl.ends[t]), f) + (d + len)
    <3> HIDE DEF start, end, len, d
    <3> QED BY <1>8, <1>9, <2>1, <2>2 DEF Larger
  <2> QED BY <1>3, <1>11, <2>3 DEF NextInv
<1>13. ctl.ends[t] # NoTime =>
           Fits(show, t, f + (d + len), MaxParallel + Len(show.cuts) - 1, ctl.ends[t])
  <2> SUFFICES ASSUME ctl.ends[t] # NoTime
               PROVE  Fits(show, t, f + (d + len), MaxParallel + Len(show.cuts) - 1, ctl.ends[t])
    OBVIOUS
  <2> DEFINE m == MaxParallel + Len(show.cuts) - 1
  <2>1. Fits(show, t, f + d, m, ctl.ends[t])
    BY <1>6 DEF TrackInv
  <2>2. m \in Nat
    BY Known, PacingAssumption
  <2>3. ctl.ends[t] \in Nat
    BY <1>1 DEF Controller, OptTime
  <2> HIDE DEF m, start, end, len, d
  <2>4. f + d \in Nat /\ f + (d + len) \in Nat /\ f + d <= f + (d + len)
    BY <1>1, <1>5, <1>8
  <2>5. Fits(show, t, f + (d + len), m, ctl.ends[t])
    BY <2>1, <2>2, <2>3, <2>4, FitsMore
  <2> QED BY <2>5 DEF m
<1> HIDE DEF q, d, len
<1>14. TrackInv(show, ctl, loop, r, f, d + len, t)
  BY <1>1, <1>3, <1>12, <1>13 DEF TrackInv
<1>15. d + len \in Nat
  BY <1>1, <1>8
<1> QED BY <1>1, <1>2, <1>3, <1>5, <1>14, <1>15, OneTrack DEF f

\* The segment is delivered.
LEMMA DeliverStep ==
    ASSUME LeadInv, NEW t \in Tracks, EmitSegment(t),
           ~(ctl.paused /\ ~ctl.policy.scheduleWhilePaused)
    PROVE  LeadInv'
<1> DEFINE q == stream[t]
           p == loop.period
           start == show.cuts[p][t][q.next]
           end == show.cuts[p][t][q.next + 1]
           len == end - start
           d == dropped[t]
           r == After(q, q.delivered + 1)
           f == furthest'
           old == EndOr0(ctl.ends[t])
           most == MaxParallel + Len(show.cuts) - 1
<1>1. /\ q \in Streams /\ d \in Nat /\ p # 0 /\ q.at = "decrypt"
      /\ ctl \in Controller /\ WellFormed(show)
      /\ p \in 0 .. Len(show.cuts) /\ q.next \in Nat
  BY Known DEF EmitSegment, TrackInv, Streams
<1>2. /\ UNCHANGED <<show, loop, commands>>
      /\ stream' = [stream EXCEPT ![t] = r]
      /\ dropped' = [dropped EXCEPT ![t] = d]
  BY DEF EmitSegment, After, LeadInv, Typed
<1>3. PICK c \in Emitted(t, start, end) : Steer(c, since)
  BY DEF EmitSegment, Cuts
<1>4. PlaceInv(show, ctl, loop, q, t)
  BY <1>1, Known DEF TrackInv
<1>5. q.next <= Num(show, p, t)
  <2> DEFINE n == Num(show, p, t)
  <2>1. q.next + q.batch <= n + 1 /\ 1 <= q.batch
    BY <1>1, <1>4 DEF PlaceInv
  <2>2. n \in Nat /\ q.batch \in Nat
    <3>1. MaxParallel \in Nat
      BY PacingAssumption
    <3> QED BY <1>1, <3>1, Known DEF Streams
  <2> HIDE DEF n, q
  <2>3. q.next <= n
    <3>1. q.next \in Nat
      BY SMTT(30), <1>1
    <3> QED BY <2>1, <2>2, <3>1
  <2> QED BY <2>3 DEF n
<1>6. /\ start \in Nat /\ end \in Nat /\ start <= end /\ len \in Nat /\ IsLength(show, t, len)
  BY <1>1, <1>5, NextSegment
<1>7. end = start + len
  <2> HIDE DEF start, end
  <2> QED BY <1>6
<1>8. /\ Sound(c) /\ c \in Controller
      /\ c.clock # NoTime /\ c.seekGen = ctl.seekGen /\ c.seekTarget = ctl.seekTarget
      /\ ctl.stopped => c.stopped
      /\ \A u \in Tracks : u # t => c.ends[u] = ctl.ends[u]
      /\ c.ends[t] = Larger(old, end)
  <2> HIDE DEF start, end, old
  <2> QED BY SMTT(30), <1>3, <1>6, EmittedMoves DEF LeadInv, Sound, old
<1>9. /\ r \in Streams /\ r.next = q.next + 1 /\ r.batch = q.batch - 1
      /\ r.delivered = q.delivered + 1 /\ r.at # "returned"
      /\ q.batch \in 1 .. MaxParallel /\ q.delivered \in Nat
      /\ q.delivered = 0 => q.batch = 1
      /\ PlaceInv(show, c, loop, r, t)
  BY <1>1, <1>8, PlaceAfterSegment
<1>10. /\ ctl' = c /\ since' \in 0 .. MaxSince
       /\ f \in Nat /\ furthest <= f
       /\ GenInv(show, c, loop, commands, f)
  <2>1. since \in 0 .. MaxSince
    BY DEF LeadInv, Typed
  <2> QED BY <1>3, <1>8, <2>1, Steered
<1>11. r.delivered # 0
  <2> HIDE DEF q, r
  <2> QED BY <1>9
<1>12. /\ Allowed(loop, q) \in Nat /\ Allowed(loop, r) = Allowed(loop, q) + 1
       /\ Allowed(loop, q) + 1 <= most
  BY <1>1, <1>9, <1>11, AllowedAfter
<1>13. f + d \in Nat /\ furthest + d \in Nat /\ furthest + d <= f + d /\ most \in Nat
  <2>1. furthest \in Nat /\ Len(show.cuts) \in Nat /\ MaxParallel \in Nat \ {0}
    BY Known, PacingAssumption
  <2>2. f \in Nat /\ d \in Nat /\ furthest <= f
    BY <1>1, <1>10
  <2> HIDE DEF f, d
  <2>3. f + d \in Nat /\ furthest + d \in Nat /\ furthest + d <= f + d
    BY <2>1, <2>2
  <2>4. most \in Nat
    BY <2>1
  <2> QED BY <2>3, <2>4
<1> HIDE DEF Allowed, r, most
<1>14. old \in Nat
  BY SMTT(30), <1>1 DEF old, EndOr0, Controller, OptTime
<1>15. /\ start <= Larger(old, furthest) + d
       /\ Fits(show, t, furthest + d, Allowed(loop, q), start)
  <2>1. ctl.seekGen = loop.gen
    BY DEF EmitSegment, Interrupted
  <2>2. NextInv(show, ctl.ends[t], loop, q, furthest, d, t)
    BY <1>1, <2>1, Known DEF TrackInv
  <2> QED BY <1>6, <2>2 DEF NextInv, old
<1> HIDE DEF start, end, len, d, q, f
<1>16. Fits(show, t, f + d, Allowed(loop, r), end)
  <2>1. Fits(show, t, furthest + d, Allowed(loop, q) + 1, start + len)
    BY <1>6, <1>12, <1>13, <1>15, FitsNext
  <2>2. Allowed(loop, r) \in Nat
    BY <1>12
  <2> QED BY <1>6, <1>7, <1>12, <1>13, <2>1, <2>2, FitsMore
<1> HIDE DEF old
<1>17. Fits(show, t, f + d, most, c.ends[t])
  <2>1. CASE c.ends[t] = end
    <3>1. Allowed(loop, r) \in Nat /\ Allowed(loop, r) <= most
      BY <1>12
    <3> QED BY <1>6, <1>13, <1>16, <2>1, <3>1, FitsMore
  <2>2. CASE c.ends[t] # end
    <3>1. c.ends[t] = old /\ end < old
      BY <1>6, <1>8, <1>14, <2>2 DEF Larger
    <3>2. ctl.ends[t] # NoTime /\ old = ctl.ends[t]
      BY <1>6, <3>1 DEF old, EndOr0
    <3>3. Fits(show, t, furthest + d, most, ctl.ends[t])
      BY <3>2, Known DEF TrackInv, most, d
    <3> QED BY <1>13, <1>14, <3>1, <3>2, <3>3, FitsMore
  <2> QED BY <2>1, <2>2
<1>18. NextInv(show, c.ends[t], loop, r, f, d, t)
  <2>1. end <= c.ends[t] /\ c.ends[t] \in Nat /\ c.ends[t] # NoTime
    BY <1>6, <1>8, <1>14, NoTimeAssumption DEF Larger
  <2>2. end <= Larger(EndOr0(c.ends[t]), f) + d
    BY <1>1, <1>6, <1>10, <2>1 DEF EndOr0, Larger
  <2>3. end = show.cuts[loop.period][t][r.next]
    BY <1>9 DEF end
  <2> QED BY <1>16, <2>2, <2>3 DEF NextInv
<1>19. TrackInv(show, c, loop, r, f, d, t)
  BY <1>1, <1>9, <1>17, <1>18 DEF TrackInv, most
<1> QED BY <1>1, <1>2, <1>8, <1>9, <1>10, <1>19, OneTrack DEF f

LEMMA EmitStep ==
    ASSUME LeadInv, NEW t \in Tracks, EmitSegment(t)
    PROVE  LeadInv'
BY DropStep, DeliverStep

-----------------------------------------------------------------------------
(* The run loop.                                                           *)

\* A stream that begins a Period is at a position the clock has reached, or
\* not behind what the stream had in the Period before, which allowed for one
\* segment less.
LEMMA TrackBegins ==
    ASSUME show \in Presentations, NEW p \in DOMAIN show.cuts, NEW target \in Nat,
           NEW t \in Tracks, NEW c \in Controller, NEW l, l.period = p,
           NEW f \in Nat, target <= f, NEW d \in Nat,
           NEW had \in Nat, show.cuts[p][t][1] <= had,
           had <= Larger(EndOr0(c.ends[t]), f) + d,
           \A n \in Nat : IsLength(show, t, n) =>
               Fits(show, t, f + d, MaxParallel + p - 2, had),
           c.ends[t] # NoTime =>
               Fits(show, t, f + d, MaxParallel + Len(show.cuts) - 1, c.ends[t])
    PROVE  TrackInv(show, c, l, Entering(p, target)[t], f, d, t)
<1> DEFINE q == Entering(p, target)[t]
           first == show.cuts[p][t][1]
           start == show.cuts[p][t][q.next]
           n == Num(show, p, t)
<1>1. WellFormed(show) /\ p \in Nat \ {0} /\ MaxParallel \in Nat \ {0}
  <2>1. WellFormed(show)
    BY ShownIsWellFormed
  <2>2. show.cuts \in Seq([Tracks -> Seq(Nat)])
    BY <2>1 DEF WellFormed, Presentation
  <2>3. MaxParallel \in Nat \ {0}
    BY PacingAssumption
  <2> QED BY <2>1, <2>2, <2>3
<1>2. /\ q \in Streams
      /\ q.at = "head" /\ q.delivered = 0 /\ q.batch = 0
      /\ q.next \in 1 .. n + 1
      /\ q.next <= n => IsMark(show, t, q.high) /\ MinBuffer <= q.high /\ 0 < q.high
      /\ start <= Larger(first, target)
  BY Entered
<1>3. n \in Nat /\ first \in Nat /\ start \in Nat
  <2>1. n \in Nat
    BY <1>1, ListOfTrack
  <2>2. 1 \in 1 .. n + 1
    BY <2>1
  <2> QED BY <1>1, <1>2, <2>1, <2>2, ListOfTrack
<1> HIDE DEF q, start, first
<1>4. PlaceInv(show, c, l, q, t)
  BY <1>2, <1>3 DEF PlaceInv
<1> HIDE DEF n
<1>5. EndOr0(c.ends[t]) \in Nat
  BY DEF EndOr0, Controller, OptTime
<1>6. start <= had \/ start <= f
  BY <1>2, <1>3 DEF Larger, first
<1>7. start <= Larger(EndOr0(c.ends[t]), f) + d
  BY <1>3, <1>5, <1>6 DEF Larger
<1>8. Allowed(l, q) = MaxParallel + p - 2 /\ Allowed(l, q) \in Nat
  BY <1>1, <1>2 DEF Allowed
<1> HIDE DEF Allowed
<1>9. ASSUME NEW k \in Nat, IsLength(show, t, k)
      PROVE  Fits(show, t, f + d, Allowed(l, q), start)
  <2>1. f + d \in Nat
    OBVIOUS
  <2>2. CASE start <= had
    <3>1. Fits(show, t, f + d, Allowed(l, q), had)
      BY <1>8, <1>9
    <3> QED BY <1>3, <1>8, <2>1, <2>2, <3>1, FitsMore
  <2>3. CASE start <= f
    <3>1. /\ IsMark(show, t, DefaultMaxBuffer) /\ DefaultMaxBuffer \in Nat
          /\ start < f + d + DefaultMaxBuffer
      BY <1>3, <2>3, PacingAssumption DEF IsMark
    <3> QED BY <1>1, <1>3, <1>8, <1>9, <2>1, <3>1, FitsBelowMark
  <2> QED BY <1>6, <2>2, <2>3
<1>10. NextInv(show, c.ends[t], l, q, f, d, t)
  BY <1>7, <1>9 DEF NextInv, start
<1> QED BY <1>1, <1>4, <1>10 DEF TrackInv, q

\* One that begins at a position the clock has reached.
LEMMA TrackBeginsBehind ==
    ASSUME show \in Presentations, NEW p \in DOMAIN show.cuts, NEW target \in Nat,
           NEW t \in Tracks, NEW c \in Controller, NEW l, l.period = p,
           NEW f \in Nat, target <= f, NEW d \in Nat, show.cuts[p][t][1] <= target,
           c.ends[t] # NoTime =>
               Fits(show, t, f + d, MaxParallel + Len(show.cuts) - 1, c.ends[t])
    PROVE  TrackInv(show, c, l, Entering(p, target)[t], f, d, t)
<1>1. WellFormed(show) /\ p \in Nat \ {0} /\ MaxParallel \in Nat \ {0}
  <2>1. WellFormed(show)
    BY ShownIsWellFormed
  <2>2. show.cuts \in Seq([Tracks -> Seq(Nat)])
    BY <2>1 DEF WellFormed, Presentation
  <2>3. MaxParallel \in Nat \ {0}
    BY PacingAssumption
  <2> QED BY <2>1, <2>2, <2>3
<1>2. EndOr0(c.ends[t]) \in Nat
  BY DEF EndOr0, Controller, OptTime
<1>3. target <= Larger(EndOr0(c.ends[t]), f) + d
  BY <1>2 DEF Larger
<1> DEFINE m == MaxParallel + p - 2
<1>4. m \in Nat /\ f + d \in Nat
  BY <1>1
<1>5. /\ IsMark(show, t, DefaultMaxBuffer) /\ DefaultMaxBuffer \in Nat
      /\ target < f + d + DefaultMaxBuffer
  BY PacingAssumption DEF IsMark
<1> HIDE DEF m
<1>6. \A n \in Nat : IsLength(show, t, n) => Fits(show, t, f + d, m, target)
  BY <1>1, <1>4, <1>5, FitsBelowMark
<1> QED BY <1>3, <1>6, TrackBegins DEF m

\* What both ways into a Period have in common.
LEMMA EnterStep ==
    ASSUME LeadInv, NEW p \in DOMAIN show.cuts, NEW target \in Nat,
           NEW c, Sound(c), c.seekGen = ctl.seekGen,
           c.ends = ctl.ends, c.clock = ctl.clock,
           Enter(p, ctl.seekGen, target, c), UNCHANGED <<commands, dropped>>,
           target <= furthest,
           \A b \in Controller, f \in Nat : \A l :
               /\ b.ends = ctl.ends /\ furthest <= f /\ l.period = p
               => \A t \in Tracks : TrackInv(show, b, l, Entering(p, target)[t], f, dropped[t], t)
    PROVE  LeadInv'
<1> DEFINE b == SetState(c, "Buffering")
           l == [period |-> p, gen |-> ctl.seekGen, target |-> target]
<1>1. Sound(b) /\ Keeps(c, b) /\ b \in Controller
  BY SetStateSound, PlainKeeps DEF PlaybackState, Sound
<1>2. /\ Steer(b, since) /\ loop' = l /\ stream' = Entering(p, target)
      /\ UNCHANGED <<show, commands, dropped>>
  BY DEF Enter
<1>3. b.seekGen = ctl.seekGen /\ b.ends = ctl.ends /\ (b.clock = NoTime <=> ctl.clock = NoTime)
  BY <1>1 DEF Keeps
<1> HIDE DEF b
<1>4. ctl' = b /\ since' \in 0 .. MaxSince
  BY <1>2, PacingAssumption DEF Steer, LeadInv, Typed
<1>5. GenInv(show, ctl, loop, commands, furthest)
  BY DEF LeadInv
<1>6. furthest' = IF b.clock = NoTime THEN 0 ELSE Larger(furthest, b.clock)
  BY <1>2, <1>3 DEF Steer
<1>7. b.clock # NoTime => b.clock \in Nat
  BY <1>1 DEF Controller, OptTime
<1>8. furthest' \in Nat /\ furthest <= furthest' /\ furthest \in Nat
  BY <1>3, <1>5, <1>6, <1>7, Known DEF GenInv, Larger
<1>9. GenInv(show, b, l, commands, furthest')
  <2>1. ctl.seekGen \in Nat /\ target <= furthest'
    BY <1>8, Known
  <2>2. b.clock = NoTime => furthest' = 0
    BY <1>6
  <2> QED BY <1>3, <1>5, <2>1, <2>2 DEF GenInv
<1>10. Typed'
  <2>1. p \in 0 .. Len(show.cuts) /\ ctl.seekGen \in Nat
    BY Known
  <2>2. l \in [period : 0 .. Len(show.cuts), gen : Nat, target : Nat]
    BY <2>1
  <2>3. show \in Presentations /\ Entering(p, target) \in [Tracks -> Streams]
    BY Entered DEF LeadInv, Typed
  <2> QED BY <1>1, <1>2, <1>4, <1>8, <2>2, <2>3 DEF LeadInv, Typed
<1>11. ASSUME NEW t \in Tracks
       PROVE  TrackInv(show, b, l, Entering(p, target)[t], furthest', dropped[t], t)
  <2>1. l.period = p
    OBVIOUS
  <2> HIDE DEF l
  <2> QED BY <1>1, <1>3, <1>8, <2>1
<1> QED BY <1>2, <1>4, <1>9, <1>10, <1>11 DEF LeadInv

LEMMA NextPeriodStep ==
    ASSUME LeadInv, NextPeriod
    PROVE  LeadInv'
<1> DEFINE p == loop.period
           q(t) == stream[t]
<1>1. /\ p # 0 /\ ctl.seekGen = loop.gen /\ ~ctl.stopped /\ p < Len(show.cuts)
      /\ \A t \in Tracks : stream[t].at = "returned"
      /\ Enter(p + 1, ctl.seekGen, loop.target, ctl) /\ UNCHANGED <<commands, dropped>>
  BY DEF NextPeriod, Over, AllReturned, Interrupted
<1>2. /\ p \in DOMAIN show.cuts /\ p + 1 \in DOMAIN show.cuts /\ p \in Nat \ {0}
      /\ WellFormed(show) /\ show \in Presentations
      /\ loop.target \in Nat /\ furthest \in Nat
  BY <1>1, Known DEF LeadInv, Typed
<1>3. Sound(ctl) /\ loop.target <= furthest
  BY <1>1 DEF LeadInv, Typed, GenInv
<1>4. ASSUME NEW b \in Controller, NEW f \in Nat, NEW l, NEW t \in Tracks,
             b.ends = ctl.ends, furthest <= f, l.period = p + 1
      PROVE  TrackInv(show, b, l, Entering(p + 1, loop.target)[t], f, dropped[t], t)
  <2> DEFINE had == show.cuts[p][t][q(t).next]
             d == dropped[t]
  <2>1. q(t) \in Streams /\ d \in Nat /\ TrackInv(show, ctl, loop, q(t), furthest, d, t)
    BY Known
  <2>2. PlaceInv(show, ctl, loop, q(t), t) /\ NextInv(show, ctl.ends[t], loop, q(t), furthest, d, t)
    BY <1>1, <2>1 DEF TrackInv
  <2>3. q(t).next = Num(show, p, t) + 1
    BY <1>1, <2>2 DEF PlaceInv
  <2>4. had = show.cuts[p][t][Len(show.cuts[p][t])] /\ had \in Nat
    <3>1. Num(show, p, t) \in Nat /\ show.cuts[p][t] \in Seq(Nat)
      BY <1>2, ListOfTrack
    <3>2. q(t).next = Len(show.cuts[p][t])
      BY <2>3, <3>1 DEF Num
    <3>3. q(t).next \in 1 .. Num(show, p, t) + 1
      BY <2>3, <3>1
    <3>4. had \in Nat
      BY <1>2, <3>3, ListOfTrack
    <3> QED BY <3>2, <3>4
  <2>5. show.cuts[p + 1][t][1] <= had
    <3>1. p + 1 > 1 /\ p + 1 - 1 = p
      BY <1>2
    <3>2. show.cuts[p + 1][t][1] <= show.cuts[p + 1 - 1][t][Len(show.cuts[p + 1 - 1][t])]
      BY <1>2, <3>1 DEF WellFormed
    <3> QED BY <2>4, <3>1, <3>2
  <2>6. had <= Larger(EndOr0(ctl.ends[t]), furthest) + d
    BY <2>2 DEF NextInv
  <2>7. EndOr0(ctl.ends[t]) \in Nat
    BY Known DEF EndOr0, Controller, OptTime
  <2> HIDE DEF had, d, q
  <2>8. had <= Larger(EndOr0(b.ends[t]), f) + d
    <3> DEFINE e == EndOr0(ctl.ends[t])
    <3>1. e = EndOr0(b.ends[t]) /\ e \in Nat /\ furthest \in Nat /\ f \in Nat
          /\ furthest <= f /\ d \in Nat /\ had \in Nat /\ had <= Larger(e, furthest) + d
      BY <1>2, <1>4, <2>1, <2>4, <2>6, <2>7
    <3> HIDE DEF e
    <3>2. had <= Larger(e, f) + d
      BY <3>1 DEF Larger
    <3> QED BY <3>1, <3>2
  <2>9. f + d \in Nat /\ furthest + d \in Nat /\ furthest + d <= f + d
    BY <1>2, <1>4, <2>1
  <2>10. ASSUME NEW n \in Nat, IsLength(show, t, n)
         PROVE  Fits(show, t, f + d, MaxParallel + (p + 1) - 2, had)
    <3> DEFINE m == MaxParallel + (p + 1) - 2
    <3>1. Fits(show, t, furthest + d, Allowed(loop, q(t)), had)
      BY <2>2, <2>10 DEF NextInv, had
    <3>2. Allowed(loop, q(t)) \in Nat
      BY <1>2, <2>1, AllowedNat
    <3>3. q(t).delivered # 0 /\ q(t).batch = 0 => Allowed(loop, q(t)) = m
      BY <1>2, PacingAssumption DEF Allowed
    <3>4. ~(q(t).delivered # 0 /\ q(t).batch = 0) => Allowed(loop, q(t)) <= m
      BY <1>2, <2>1, PacingAssumption DEF Allowed, Streams
    <3>5. m \in Nat /\ Allowed(loop, q(t)) <= m
      BY <1>2, <3>2, <3>3, <3>4, PacingAssumption
    <3> HIDE DEF m
    <3>6. Fits(show, t, f + d, m, had)
      BY SMTT(30), <2>4, <2>9, <3>1, <3>2, <3>5, FitsMore
    <3> QED BY <3>6 DEF m
  <2>11. ASSUME b.ends[t] # NoTime
         PROVE  Fits(show, t, f + d, MaxParallel + Len(show.cuts) - 1, b.ends[t])
    <3> DEFINE m == MaxParallel + Len(show.cuts) - 1
    <3>1. Fits(show, t, furthest + d, m, b.ends[t])
      BY <1>4, <2>1, <2>11 DEF TrackInv
    <3>2. m \in Nat /\ b.ends[t] \in Nat
      BY <2>11, Known, PacingAssumption DEF Controller, OptTime
    <3> HIDE DEF m
    <3>3. Fits(show, t, f + d, m, b.ends[t])
      BY <2>9, <3>1, <3>2, FitsMore
    <3> QED BY <3>3 DEF m
  <2>12. loop.target <= f
    BY <1>2, <1>3, <1>4
  <2>13. TrackInv(show, b, l, Entering(p + 1, loop.target)[t], f, d, t)
    BY <1>2, <1>4, <2>1, <2>4, <2>5, <2>8, <2>10, <2>11, <2>12, TrackBegins
  <2> QED BY <2>13 DEF d
<1> HIDE DEF p
<1> QED BY <1>1, <1>2, <1>3, <1>4, EnterStep

LEMMA RestartStep ==
    ASSUME LeadInv, Restart
    PROVE  LeadInv'
<1> DEFINE target == IF ctl.seekTarget = NoTime THEN loop.target ELSE ctl.seekTarget
           p == PeriodAt(target)
           c == TakePending(SetState(ctl, "LoadingManifest"))
           s1 == SetState(ctl, "LoadingManifest")
           Ahead == {n \in DOMAIN show.cuts : \E t \in Tracks : TrackEnd(n, t) > target}
<1>1. /\ ctl.seekGen # loop.gen /\ Enter(p, ctl.seekGen, target, c)
      /\ UNCHANGED <<commands, dropped>>
  BY DEF Restart
<1>2. /\ WellFormed(show) /\ show \in Presentations /\ furthest \in Nat
      /\ DOMAIN show.cuts = 1 .. Len(show.cuts) /\ Len(show.cuts) \in Nat
  BY Known DEF LeadInv, Typed
<1>3. target \in show.seekTimes /\ target <= furthest /\ target \in Nat
  <2>1. ctl.seekTarget \in show.seekTimes /\ ctl.seekTarget <= furthest
    BY <1>1 DEF LeadInv, GenInv
  <2>2. show.seekTimes \subseteq Nat
    BY <1>2 DEF WellFormed, Presentation
  <2> QED BY <2>1, <2>2, NoTimeAssumption
<1>4. Sound(s1) /\ Keeps(ctl, s1) /\ s1.clock = ctl.clock
  <2>1. Sound(ctl) /\ ctl \in Controller
    BY DEF LeadInv, Typed, Sound
  <2>2. Sound(s1)
    BY <2>1, SetStateSound
  <2>3. Keeps(ctl, s1)
    BY <2>1, PlainKeeps DEF PlaybackState
  <2>4. s1.clock = ctl.clock
    BY <2>1 DEF SetState, Controller
  <2> QED BY <2>2, <2>3, <2>4
<1> HIDE DEF s1
<1>5. Sound(TakePending(s1)) /\ TakePending(s1).ends = s1.ends /\ TakePending(s1).seekGen = s1.seekGen
      /\ TakePending(s1).clock = s1.clock
  BY <1>4, TakePendingSound DEF TakePending, Sound, Controller
<1>6. /\ Sound(c) /\ c.seekGen = ctl.seekGen /\ c.ends = ctl.ends /\ c.clock = ctl.clock
  BY <1>4, <1>5 DEF Keeps, s1
<1> HIDE DEF c, target
<1>7. p \in Ahead /\ \A n \in Ahead : p <= n
  <2>1. Ahead # {} /\ Ahead \in SUBSET Nat
    <3>1. \E n \in DOMAIN show.cuts, t \in Tracks :
              target < show.cuts[n][t][Len(show.cuts[n][t])]
      BY <1>2, <1>3 DEF WellFormed
    <3>2. PICK n \in DOMAIN show.cuts : \E t \in Tracks :
              target < show.cuts[n][t][Len(show.cuts[n][t])]
      BY <3>1
    <3>3. PICK t \in Tracks : target < show.cuts[n][t][Len(show.cuts[n][t])]
      BY <3>2
    <3>4. TrackEnd(n, t) > target
      BY <3>3 DEF TrackEnd, Cuts
    <3> QED BY <1>2, <3>4
  <2>2. p = Least(Ahead)
    BY DEF PeriodAt
  <2> HIDE DEF Ahead, p
  <2> QED BY <2>1, <2>2, LeastIs
<1>8. p \in DOMAIN show.cuts /\ p \in Nat \ {0}
  BY <1>2, <1>7
<1>9. ASSUME NEW t \in Tracks
      PROVE  show.cuts[p][t][1] <= target
  <2>1. CASE p = 1
    BY <1>2, <1>3, <2>1 DEF WellFormed
  <2>2. CASE p # 1
    <3>1. p - 1 \in DOMAIN show.cuts /\ p > 1 /\ ~(p <= p - 1)
      BY <1>2, <1>8, <2>2
    <3>2. p - 1 \notin Ahead
      BY <1>7, <3>1
    <3>3. ~(TrackEnd(p - 1, t) > target)
      BY <3>1, <3>2
    <3>4. show.cuts[p][t][1] <= show.cuts[p - 1][t][Len(show.cuts[p - 1][t])]
      BY <1>2, <1>8, <3>1 DEF WellFormed
    <3>5. show.cuts[p - 1][t][Len(show.cuts[p - 1][t])] \in Nat /\ show.cuts[p][t][1] \in Nat
      <4>1. show.cuts \in Seq([Tracks -> Seq(Nat)])
        BY <1>2 DEF WellFormed, Presentation
      <4>2. show.cuts[p - 1][t] \in Seq(Nat) /\ show.cuts[p][t] \in Seq(Nat)
        BY <1>8, <3>1, <4>1
      <4>3. show.cuts[p - 1][t] # <<>> /\ show.cuts[p][t] # <<>>
        BY <1>2, <1>8, <3>1 DEF WellFormed
      <4>4. \A list \in Seq(Nat) : list # <<>> => list[1] \in Nat /\ list[Len(list)] \in Nat
        OBVIOUS
      <4> QED BY <4>2, <4>3, <4>4
    <3>6. ~(show.cuts[p - 1][t][Len(show.cuts[p - 1][t])] > target)
      BY <3>3 DEF TrackEnd, Cuts
    <3> QED BY SMTT(30), <1>3, <3>4, <3>5, <3>6
  <2> QED BY <2>1, <2>2
<1> HIDE DEF p, Ahead
<1>10. ASSUME NEW b \in Controller, NEW f \in Nat, NEW l, NEW t \in Tracks,
              b.ends = ctl.ends, furthest <= f, l.period = p
       PROVE  TrackInv(show, b, l, Entering(p, target)[t], f, dropped[t], t)
  <2> DEFINE d == dropped[t]
             m == MaxParallel + Len(show.cuts) - 1
  <2>1. d \in Nat /\ TrackInv(show, ctl, loop, stream[t], furthest, d, t)
    BY Known
  <2>2. m \in Nat
    BY <1>2, PacingAssumption
  <2> HIDE DEF m, d
  <2>3. f + d \in Nat /\ furthest + d \in Nat /\ furthest + d <= f + d /\ target <= f
    BY <1>2, <1>3, <1>10, <2>1
  <2>4. b.ends[t] # NoTime => Fits(show, t, f + d, m, b.ends[t])
    <3> SUFFICES ASSUME b.ends[t] # NoTime PROVE Fits(show, t, f + d, m, b.ends[t])
      OBVIOUS
    <3>1. Fits(show, t, furthest + d, m, b.ends[t])
      BY <1>10, <2>1 DEF TrackInv, m
    <3>2. b.ends[t] \in Nat
      BY DEF Controller, OptTime
    <3> QED BY <2>2, <2>3, <3>1, <3>2, FitsMore
  <2>5. TrackInv(show, b, l, Entering(p, target)[t], f, d, t)
    BY <1>2, <1>3, <1>8, <1>9, <1>10, <2>1, <2>3, <2>4, TrackBeginsBehind DEF m
  <2> QED BY <2>5 DEF d
<1> QED BY <1>1, <1>3, <1>6, <1>8, <1>10, EnterStep

\* A step that leaves the streams and what was thrown away alone.
LEMMA StreamsRest ==
    ASSUME LeadInv, NEW c, Sound(c), Keeps(ctl, c), NEW left \in 0 .. MaxSince, Steer(c, left),
           UNCHANGED <<show, stream, dropped>>,
           loop' \in [period : 0 .. Len(show.cuts), gen : Nat, target : Nat],
           loop'.gen = loop.gen, loop'.target = loop.target,
           \/ loop'.period = loop.period
           \/ loop'.period = 0 /\ \A t \in Tracks : stream[t].at = "returned",
           commands' \in 0 .. MaxCommands, commands <= commands'
    PROVE  LeadInv'
<1>1. c \in Controller /\ \A u \in Tracks : c.ends[u] # NoTime => c.clock # NoTime
  BY DEF Sound, Keeps, LeadInv, GenInv
<1>2. /\ ctl' = c /\ since' \in 0 .. MaxSince
      /\ furthest' \in Nat /\ furthest <= furthest'
      /\ GenInv(show, c, loop, commands, furthest')
  BY <1>1, Steered DEF Keeps
<1>3. GenInv(show, c, loop', commands', furthest')
  <2>1. c.seekGen \in Nat /\ commands \in Nat /\ commands' \in Nat
    BY <1>1, PacingAssumption DEF Controller, LeadInv, Typed
  <2> QED BY <1>2, <2>1 DEF GenInv
<1>4. Typed'
  BY <1>2 DEF LeadInv, Typed
<1>5. ASSUME NEW t \in Tracks
      PROVE  TrackInv(show, c, loop', stream[t], furthest', dropped[t], t)
  <2>1. TrackInv(show, c, loop, stream[t], furthest', dropped[t], t)
    BY <1>1, <1>2, Known, TrackStays DEF Keeps
  <2>2. CASE loop'.period = loop.period
    <3>1. loop' = loop
      BY <2>2 DEF LeadInv, Typed
    <3> QED BY <2>1, <3>1
  <2>3. CASE loop'.period = 0 /\ stream[t].at = "returned"
    BY <2>1, <2>3 DEF TrackInv
  <2> QED BY <2>1, <2>2, <2>3
<1> QED BY <1>2, <1>3, <1>4, <1>5 DEF LeadInv

LEMMA FinishStep ==
    ASSUME LeadInv, Finish
    PROVE  LeadInv'
<1>1. Sound(SetState(ctl, "Ended")) /\ Keeps(ctl, SetState(ctl, "Ended"))
  <2>1. Sound(ctl) /\ ctl \in Controller
    BY DEF LeadInv, Typed, Sound
  <2>2. Sound(SetState(ctl, "Ended"))
    BY <2>1, SetStateSound
  <2> QED BY <2>1, <2>2, PlainKeeps DEF PlaybackState
<1>2. /\ loop' \in [period : 0 .. Len(show.cuts), gen : Nat, target : Nat]
      /\ loop'.gen = loop.gen /\ loop'.target = loop.target /\ loop'.period = 0
  BY SMTT(30), Known DEF Finish, LeadInv, Typed
<1>3. 0 \in 0 .. MaxSince /\ commands \in 0 .. MaxCommands /\ commands <= commands
  BY PacingAssumption DEF LeadInv, Typed
<1>4. \A t \in Tracks : stream[t].at = "returned"
  BY DEF Finish, AllReturned
<1>5. Steer(SetState(ctl, "Ended"), 0) /\ UNCHANGED <<show, stream, commands, dropped>>
  BY DEF Finish
<1> QED BY <1>1, <1>2, <1>3, <1>4, <1>5, StreamsRest

-----------------------------------------------------------------------------
(* The host and time.                                                      *)

LEMMA PlainCommandStep ==
    ASSUME LeadInv, NEW c, Sound(c), Keeps(ctl, c), Command(c)
    PROVE  LeadInv'
<1>1. commands' \in 0 .. MaxCommands /\ commands <= commands' /\ since \in 0 .. MaxSince
  BY PacingAssumption DEF Command, LeadInv, Typed
<1>2. /\ loop' \in [period : 0 .. Len(show.cuts), gen : Nat, target : Nat] /\ loop' = loop
      /\ UNCHANGED <<show, stream>> /\ dropped' = dropped
  BY DEF Command, Keeps, LeadInv, Typed
<1>3. Steer(c, since)
  BY DEF Command
<1> QED BY <1>1, <1>2, <1>3, StreamsRest

LEMMA SeekStep ==
    ASSUME LeadInv, NEW to \in show.seekTimes, Command(DoSeek(ctl, to))
    PROVE  LeadInv'
<1> DEFINE c == DoSeek(ctl, to)
           e == SetMediaClock(ResetSession(ctl), to)
<1>1. to \in Nat /\ to # NoTime /\ to \in OptTime /\ ctl \in Controller
  BY Known, NoTimeAssumption DEF WellFormed, Presentation, OptTime
<1>2. Sound(c)
  BY <1>1, DoSeekSound DEF Command, LeadInv, Typed
<1>3. /\ e \in Controller /\ e.clock = to /\ e.seekGen = ctl.seekGen /\ e.ends = NoEnds
  <2>1. ResetSession(ctl) \in Controller /\ ResetSession(ctl).ends = NoEnds
        /\ ResetSession(ctl).seekGen = ctl.seekGen
    BY <1>1, ResetSessionTyped DEF ResetSession, Controller
  <2> DEFINE g == ResetSession(ctl)
  <2> HIDE DEF g
  <2>2. g \in Controller /\ g.ends = NoEnds /\ g.seekGen = ctl.seekGen
    BY <2>1 DEF g
  <2>3. SetMediaClock(g, to).ends = g.ends
    BY <2>2 DEF SetMediaClock, Controller
  <2> QED BY <1>1, <2>2, <2>3, SetMediaClockTyped DEF g
<1>4. c = [e EXCEPT !.seekTarget = to, !.seekGen = @ + 1, !.state = "Seeking"]
  BY DEF DoSeek, InterruptAt
<1> HIDE DEF e
<1>5. c.clock = to /\ c.seekGen = ctl.seekGen + 1 /\ c.ends = NoEnds /\ c.seekTarget = to
  BY <1>3, <1>4 DEF Controller
<1> HIDE DEF c
<1>6. ctl.seekGen \in Nat /\ loop.gen <= ctl.seekGen /\ ctl.seekGen <= commands
      /\ loop.gen \in Nat /\ commands \in Nat
  BY Known, PacingAssumption DEF LeadInv, GenInv, Typed
<1>7. /\ Steer(c, since) /\ commands' = commands + 1 /\ commands < MaxCommands
      /\ UNCHANGED <<show, loop, stream>> /\ ~Over
  BY DEF Command, c
<1>8. c.seekGen # ctl.seekGen /\ c.seekGen # loop.gen
  BY <1>5, <1>6
<1>9. ctl' = c /\ furthest' = to /\ since' \in 0 .. MaxSince /\ dropped' = NothingDropped
  BY <1>1, <1>5, <1>7, <1>8, PacingAssumption DEF Steer, Command, LeadInv, Typed, c
<1>10. \A t \in Tracks : c.ends[t] = NoTime
  BY <1>5 DEF NoEnds
<1>11. GenInv(show, c, loop, commands', furthest')
  BY <1>1, <1>5, <1>6, <1>7, <1>8, <1>9, <1>10 DEF GenInv
<1>12. Typed'
  <2>1. commands' \in 0 .. MaxCommands
    BY <1>6, <1>7, PacingAssumption
  <2>2. NothingDropped \in [Tracks -> Nat]
    BY DEF NothingDropped
  <2> QED BY <1>1, <1>2, <1>7, <1>9, <2>1, <2>2 DEF LeadInv, Typed
<1>13. ASSUME NEW t \in Tracks
       PROVE  TrackInv(show, c, loop, stream[t], furthest', dropped'[t], t)
  <2>1. TrackInv(show, ctl, loop, stream[t], furthest, dropped[t], t)
    BY Known
  <2>2. loop.period # 0 => PlaceInv(show, c, loop, stream[t], t)
    BY <1>8, <2>1 DEF TrackInv, PlaceInv
  <2>3. loop.period = 0 => stream[t].at = "returned"
    BY <2>1 DEF TrackInv
  <2> QED BY <1>8, <1>10, <2>2, <2>3 DEF TrackInv
<1> QED BY <1>7, <1>9, <1>11, <1>12, <1>13 DEF LeadInv

LEMMA HostStep ==
    ASSUME LeadInv, Host
    PROVE  LeadInv'
<1>1. Sound(ctl) /\ ctl \in Controller
  BY DEF LeadInv, Typed, Sound
<1>2. CASE Pause
  <2>1. IsActive(ctl)
    BY <1>2 DEF Pause, Command
  <2> QED BY <1>1, <1>2, <2>1, PlainKeeps, DoPauseSound, PlainCommandStep DEF Pause
<1>3. CASE Resume
  <2>1. IsActive(ctl)
    BY <1>3 DEF Resume, Command
  <2> QED BY <1>1, <1>3, <2>1, PlainKeeps, DoResumeSound, PlainCommandStep DEF Resume
<1>4. CASE Stop
  BY <1>1, <1>4, PlainKeeps, DoStopSound, PlainCommandStep DEF Stop
<1>5. CASE SetPausePolicy
  <2>1. PICK p \in show.policies : Command([ctl EXCEPT !.policy = p])
    BY <1>5 DEF SetPausePolicy
  <2>2. p \in PausePolicy
    BY <2>1, Known DEF WellFormed, Presentation
  <2> QED BY <1>1, <2>1, <2>2, PlainKeeps, SetPolicySound, PlainCommandStep
<1>6. CASE Seek
  BY <1>6, SeekStep DEF Seek
<1> QED BY <1>2, <1>3, <1>4, <1>5, <1>6 DEF Host

LEMMA TimeStep ==
    ASSUME LeadInv, TimePasses \/ UNCHANGED vars
    PROVE  LeadInv'
<1>1. since' \in 0 .. MaxSince
  BY PacingAssumption DEF TimePasses, vars, LeadInv, Typed
<1>2. UNCHANGED <<show, ctl, loop, stream, commands, furthest, dropped>>
  BY DEF TimePasses, vars
<1>3. Typed'
  BY <1>1, <1>2 DEF LeadInv, Typed
<1>4. \A t \in Tracks : TrackInv(show, ctl, loop, stream[t], furthest, dropped[t], t)
  BY Known
<1> QED BY <1>2, <1>3, <1>4 DEF LeadInv

-----------------------------------------------------------------------------
(* The invariant.                                                          *)

LEMMA LeadInvInit == Init => LeadInv
<1> SUFFICES ASSUME Init PROVE LeadInv
  OBVIOUS
<1>1. show \in Presentations /\ WellFormed(show)
  BY ShownIsWellFormed DEF Init
<1>2. 1 \in DOMAIN show.cuts /\ Len(show.cuts) \in Nat /\ 1 \in 0 .. Len(show.cuts)
  <2>1. show.cuts \in Seq([Tracks -> Seq(Nat)]) /\ show.cuts # <<>>
    BY <1>1 DEF WellFormed, Presentation
  <2> QED BY <2>1
<1> DEFINE m == MarkStarted(NewController)
<1>3. Sound(m) /\ m.ends = NoEnds /\ m.seekGen = 0 /\ m.clock = NoTime
  <2>1. NewController \in Controller
    BY NewControllerSound DEF Sound
  <2>2. Sound(m)
    BY <2>1, MarkStartedSound
  <2>3. m.ends = NoEnds /\ m.seekGen = 0 /\ m.clock = NoTime
    BY DEF MarkStarted, SetLatencyControl, SetMediaClock, ResetSession, NewController
  <2> QED BY <2>2, <2>3
<1>4. ctl = SetState(m, "Buffering")
  BY DEF Init
<1> HIDE DEF m
<1>5. Sound(ctl) /\ Keeps(m, ctl)
  BY <1>3, <1>4, SetStateSound, PlainKeeps DEF Sound, PlaybackState
<1>6. ctl \in Controller /\ ctl.seekGen = 0 /\ ctl.clock = NoTime
      /\ \A t \in Tracks : ctl.ends[t] = NoTime
  BY <1>3, <1>5 DEF Keeps, Sound, NoEnds
<1>7. /\ loop = [period |-> 1, gen |-> 0, target |-> 0]
      /\ stream = Entering(1, 0) /\ since = 0 /\ commands = 0 /\ furthest = 0
      /\ dropped = NothingDropped
  BY DEF Init
<1>8. loop.period = 1 /\ loop.gen = 0 /\ loop.target = 0
      /\ loop \in [period : 0 .. Len(show.cuts), gen : Nat, target : Nat]
  BY <1>2, <1>7
<1>9. Typed
  <2>1. Entering(1, 0) \in [Tracks -> Streams]
    BY <1>1, <1>2, Entered
  <2>2. NothingDropped \in [Tracks -> Nat]
    BY DEF NothingDropped
  <2> QED BY <1>1, <1>5, <1>7, <1>8, <2>1, <2>2, PacingAssumption DEF Typed
<1>10. GenInv(show, ctl, loop, commands, furthest)
  BY <1>6, <1>7, <1>8 DEF GenInv
<1>11. ASSUME NEW t \in Tracks
       PROVE  TrackInv(show, ctl, loop, Entering(1, 0)[t], 0, 0, t)
  <2>1. show.cuts[1][t][1] <= 0
    BY <1>1 DEF WellFormed
  <2> QED BY <1>1, <1>2, <1>6, <1>8, <2>1, TrackBeginsBehind
<1>12. \A t \in Tracks : dropped[t] = 0
  BY <1>7 DEF NothingDropped
<1> QED BY <1>7, <1>9, <1>10, <1>11, <1>12 DEF LeadInv

LEMMA LeadInvNext == LeadInv /\ [Next]_vars => LeadInv'
<1> SUFFICES ASSUME LeadInv, [Next]_vars PROVE LeadInv'
  OBVIOUS
<1>1. CASE Host
  BY <1>1, HostStep
<1>2. CASE RunLoop
  BY <1>2, NextPeriodStep, RestartStep, FinishStep DEF RunLoop
<1>3. CASE TimePasses \/ UNCHANGED vars
  BY <1>3, TimeStep
<1>4. ASSUME NEW t \in Tracks, StreamStep(t) \/ ClockTick(t) PROVE LeadInv'
  BY <1>4, WindowEndsStep, LeaveStep, WaitStep, FetchedStep, EmitStep, ClockTickStep
     DEF StreamStep
<1> QED BY <1>1, <1>2, <1>3, <1>4 DEF Next

(* What the streams, the clock and the run loop keep between them.         *)
THEOREM LeadInvariant == Spec => []LeadInv
BY LeadInvInit, LeadInvNext, PTL DEF Spec

LEMMA LeadInvPaces == LeadInv => PacingInv
<1> SUFFICES ASSUME LeadInv PROVE PacingInv
  OBVIOUS
<1>1. TypeOK
  <2>1. loop.gen \in 0 .. MaxCommands
    <3>1. loop.gen \in Nat /\ ctl.seekGen \in Nat /\ commands \in 0 .. MaxCommands
      BY Known DEF LeadInv, Typed
    <3>2. loop.gen <= ctl.seekGen /\ ctl.seekGen <= commands
      BY DEF LeadInv, GenInv
    <3> QED BY <3>1, <3>2, PacingAssumption
  <2>2. loop \in [period : 0 .. Len(show.cuts), gen : 0 .. MaxCommands, target : Nat]
    BY <2>1 DEF LeadInv, Typed
  <2> QED BY <2>2 DEF TypeOK, LeadInv, Typed, Sound, Streams
<1>2. ASSUME NEW t \in Tracks, ctl.ends[t] # NoTime
      PROVE  Leads(t, MaxParallel + Len(show.cuts) - 1)
  <2> DEFINE n == MaxParallel + Len(show.cuts) - 1
  <2>1. Fits(show, t, furthest + dropped[t], n, ctl.ends[t])
    BY <1>2, Known DEF TrackInv
  <2>2. n \in Nat /\ furthest \in Nat /\ dropped[t] \in Nat
    BY Known, PacingAssumption
  <2> HIDE DEF n
  <2>3. PICK m \in Nat : \E len \in Nat :
            IsMark(show, t, m) /\ IsLength(show, t, len)
            /\ ctl.ends[t] < furthest + dropped[t] + m + n * len
    BY <2>1 DEF Fits
  <2>4. PICK len \in Nat :
            IsMark(show, t, m) /\ IsLength(show, t, len)
            /\ ctl.ends[t] < furthest + dropped[t] + m + n * len
    BY <2>3
  <2>5. m \in Marks(t)
    BY <2>4 DEF IsMark, Mark, Num, Marks, Nominal, Count, Cuts, TrackEnd
  <2>6. len \in Lengths(t)
    BY <2>4 DEF IsLength, Num, Lengths, Length, Count, Cuts
  <2>7. n * len \in Nat
    BY <2>2
  <2>8. ctl.ends[t] < furthest + m + n * len + dropped[t]
    BY <2>2, <2>4, <2>7
  <2> QED BY <2>5, <2>6, <2>8 DEF Leads, n
<1> QED BY <1>1, <1>2 DEF PacingInv, LeadIsBounded

(* No track is fetched further ahead of the clock than its high-water mark *)
(* and a batch, with one segment for every later Period: for every number  *)
(* of tracks that hold back each other's clock, with every pause, seek and *)
(* stop in between.                                                        *)
THEOREM FetchingIsPaced == Spec => []PacingInv
BY LeadInvariant, LeadInvPaces, PTL
=============================================================================
