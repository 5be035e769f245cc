------------------------- MODULE PlaybackSteps_proofs -------------------------
(***************************************************************************)
(* What a single step of the session never does: move a frozen clock,      *)
(* steer an idle session, or seek backwards or too short for latency.      *)
(* Each is a chain of controller methods, so the lemmas say what a method  *)
(* leaves alone and the theorems compose them.                             *)
(***************************************************************************)
EXTENDS PlaybackSession_proofs

\* Neither repositioned, nor paused, nor stopped.
SameFlags(c, d) ==
    d.paused = c.paused /\ d.stopped = c.stopped /\ d.seekGen = c.seekGen

\* The position is the same, too.
SamePlace(c, d) == SameFlags(c, d) /\ d.clock = c.clock /\ d.playhead = c.playhead

\* A running clock stands still unless the streams are interrupted.
Still(c, d) ==
    \/ d.seekGen > c.seekGen
    \/ d.seekGen = c.seekGen /\ (c.clock # NoTime => d.clock = c.clock)

LEMMA StillChain ==
    ASSUME NEW c \in Controller, NEW d \in Controller, NEW e \in Controller,
           Still(c, d), Still(d, e)
    PROVE  Still(c, e)
<1>1. c.seekGen \in Nat /\ d.seekGen \in Nat /\ e.seekGen \in Nat
  BY DEF Controller
<1> QED BY <1>1 DEF Still

LEMMA SamePlaceStill ==
    ASSUME NEW c \in Controller, NEW d, SamePlace(c, d)
    PROVE  Still(c, d)
BY DEF SamePlace, SameFlags, Still

-----------------------------------------------------------------------------
(* What the methods leave alone.                                           *)

LEMMA SetStatePlace ==
    ASSUME NEW c \in Controller, NEW s
    PROVE  SamePlace(c, SetState(c, s))
BY DEF SetState, SamePlace, SameFlags, Controller

LEMMA UpdateStallStatePlace ==
    ASSUME NEW c \in Controller, NEW buffer
    PROVE  SamePlace(c, UpdateStallState(c, buffer))
<1> DEFINE wasHealthy == c.healthy \/ buffer >= HealthyBuffer
           d == UpdateStallState(c, buffer)
<1>1. \/ d = c
      \/ d = [c EXCEPT !.healthy = FALSE, !.wall = FALSE, !.state = "Buffering"]
      \/ d = [c EXCEPT !.healthy = wasHealthy, !.hasStarted = TRUE, !.state = "Playing"]
      \/ d = [c EXCEPT !.healthy = wasHealthy]
  BY DEF UpdateStallState
<1> HIDE DEF wasHealthy, d
<1>2. SamePlace(c, d)
  BY <1>1 DEF SamePlace, SameFlags, Controller
<1> QED BY <1>2 DEF d

LEMMA OnMediaDeliveredPlace ==
    ASSUME NEW c \in Controller, NEW tr
    PROVE  SamePlace(c, OnMediaDelivered(c, tr))
<1> DEFINE buffer == EstimatedBuffer(c, tr)
           healthy == c.healthy \/ buffer >= HealthyBuffer
           d == OnMediaDelivered(c, tr)
<1>1. \/ d = c
      \/ d = [c EXCEPT !.hasStarted = TRUE, !.state = "Playing", !.healthy = healthy]
      \/ d = UpdateStallState(c, buffer)
  BY DEF OnMediaDelivered
<1> HIDE DEF buffer, healthy, d
<1>2. CASE d = UpdateStallState(c, buffer)
  BY <1>2, UpdateStallStatePlace DEF d
<1>3. CASE d = c \/ d = [c EXCEPT !.hasStarted = TRUE, !.state = "Playing", !.healthy = healthy]
  BY <1>3 DEF d, SamePlace, SameFlags, Controller
<1> QED BY <1>1, <1>2, <1>3

LEMMA RecordSegmentDeliveryPlace ==
    ASSUME NEW c \in Controller, NEW tr, NEW start, NEW end
    PROVE  /\ SameFlags(c, RecordSegmentDelivery(c, tr, start, end))
           /\ c.clock # NoTime => SamePlace(c, RecordSegmentDelivery(c, tr, start, end))
<1> DEFINE newEnd == IF c.ends[tr] = NoTime THEN Larger(end, start)
                     ELSE Larger(c.ends[tr], Larger(end, start))
           covered == [c EXCEPT !.ends[tr] = newEnd]
           d == RecordSegmentDelivery(c, tr, start, end)
<1>1. d = IF c.clock # NoTime THEN covered ELSE SetMediaClock(covered, start)
  BY DEF RecordSegmentDelivery
<1> HIDE DEF newEnd, d
<1>2. SameFlags(c, d) /\ (c.clock # NoTime => SamePlace(c, d))
  BY <1>1 DEF SetMediaClock, SamePlace, SameFlags, Controller
<1> QED BY <1>2 DEF d

LEMMA AdvanceMediaClockPlace ==
    ASSUME NEW c \in Controller, NEW dt
    PROVE  /\ SameFlags(c, AdvanceMediaClock(c, dt))
           /\ c.paused \/ c.state = "Seeking" => SamePlace(c, AdvanceMediaClock(c, dt))
<1> DEFINE t == CappedTo(DeliveredEnds(c), c.clock + dt)
           d == AdvanceMediaClock(c, dt)
<1>1. \/ d = [c EXCEPT !.wall = FALSE]
      \/ ~c.paused /\ c.state # "Seeking" /\ (d = c \/ d = [c EXCEPT !.wall = TRUE])
      \/ ~c.paused /\ c.state # "Seeking" /\ d = [c EXCEPT !.clock = t, !.playhead = t]
  BY DEF AdvanceMediaClock
<1> HIDE DEF t, d
<1>2. SameFlags(c, d) /\ (c.paused \/ c.state = "Seeking" => SamePlace(c, d))
  BY <1>1 DEF SamePlace, SameFlags, Controller
<1> QED BY <1>2 DEF d

LEMMA ResyncStill ==
    ASSUME NEW c \in Controller, NEW tr, NEW buffer
    PROVE  Still(c, ResyncMediaClockFromBuffer(c, tr, buffer))
<1> DEFINE now == IF c.clock = NoTime THEN 0 ELSE c.clock
           synced == IF c.clock = NoTime THEN SetMediaClock(c, now) ELSE [c EXCEPT !.wall = FALSE]
           d == [synced EXCEPT !.ends[tr] = now + buffer]
<1>1. synced.seekGen = c.seekGen /\ (c.clock # NoTime => synced.clock = c.clock)
  BY DEF SetMediaClock, Controller
<1>2. d.seekGen = synced.seekGen /\ d.clock = synced.clock
  BY DEF SetMediaClock, Controller
<1>3. ResyncMediaClockFromBuffer(c, tr, buffer) = d
  BY DEF ResyncMediaClockFromBuffer
<1> HIDE DEF synced, d
<1> QED BY <1>1, <1>2, <1>3 DEF Still

\* An interruption counts up the generation and publishes its position.
LEMMA InterruptAtPlace ==
    ASSUME NEW c \in Controller, NEW t, NEW s
    PROVE  /\ InterruptAt(c, t, s).seekGen = c.seekGen + 1
           /\ InterruptAt(c, t, s).playhead = t
BY DEF InterruptAt, SetMediaClock, ResetSession, Controller

\* Latency control either leaves the place alone or seeks to the target,
\* which a consuming session that is too far behind has ahead of it.
LEMMA ApplyLatencyControlPlace ==
    ASSUME NEW c, Sound(c), NEW edge \in Nat
    PROVE  \/ SamePlace(c, ApplyLatencyControl(c, edge))
           \/ /\ Consuming(c)
              /\ LatencyMax > LatencyTarget /\ edge > LatencyTarget
              /\ ApplyLatencyControl(c, edge).seekGen = c.seekGen + 1
              /\ ApplyLatencyControl(c, edge).playhead = edge - LatencyTarget
<1> DEFINE off == [c EXCEPT !.armed = FALSE]
           target == IF edge > LatencyTarget THEN edge - LatencyTarget ELSE 0
           d == ApplyLatencyControl(c, edge)
<1>0. c \in Controller /\ off \in Controller /\ off.seekGen = c.seekGen
  BY DEF Sound, Controller
<1>1. \/ d = c
      \/ d = [c EXCEPT !.armed = TRUE]
      \/ d = off
      \/ /\ Consuming(c) /\ c.playhead # NoTime /\ TooFarBehind(c.playhead, edge)
         /\ d = DoSeek(off, target)
  BY DEF ApplyLatencyControl
<1>2. CASE d = c \/ d = [c EXCEPT !.armed = TRUE] \/ d = off
  BY <1>0, <1>2 DEF SamePlace, SameFlags, Controller
<1>3. CASE /\ Consuming(c) /\ c.playhead # NoTime /\ TooFarBehind(c.playhead, edge)
           /\ d = DoSeek(off, target)
  <2>1. c.playhead \in Nat
    BY <1>0, <1>3 DEF Controller, OptTime
  <2>2. LatencyMax > LatencyTarget /\ edge > LatencyTarget
    BY <1>3, <2>1, LatencyAssumption DEF TooFarBehind
  <2>3. target = edge - LatencyTarget
    BY <2>2
  <2> HIDE DEF off, target
  <2>4. d.seekGen = c.seekGen + 1 /\ d.playhead = target
    BY <1>0, <1>3, InterruptAtPlace DEF DoSeek
  <2> QED BY <1>3, <2>2, <2>3, <2>4
<1> QED BY <1>1, <1>2, <1>3

-----------------------------------------------------------------------------
(* The steps of the streams.                                               *)

\* What emit_segment does to a controller, from the delivery that is
\* recorded to the stall state.
LEMMA EmitSegmentPlace ==
    ASSUME SessionInv, NEW tr \in Tracks, NEW span \in Spans,
           NEW recorded, recorded = RecordSegmentDelivery(ctl, tr, span[1], span[2]),
           NEW steered, steered = ApplyLatencyControl(recorded, live),
           NEW delivered, delivered = OnMediaDelivered(steered, tr),
           NEW d, d = UpdateStallState(delivered, EstimatedBuffer(delivered, tr))
    PROVE  /\ Sound(recorded) /\ Sound(steered) /\ d \in Controller
           /\ SameFlags(ctl, recorded)
           /\ ctl.clock # NoTime => SamePlace(ctl, recorded)
           /\ SamePlace(steered, d)
<1>1. Sound(ctl) /\ live \in Nat /\ span[1] \in Nat /\ span[2] \in Nat
  BY InputAssumption DEF SessionInv
<1>2. Sound(recorded)
  BY <1>1, RecordSegmentDeliverySound
<1>3. Sound(steered)
  BY <1>1, <1>2, ApplyLatencyControlSound
<1>4. Sound(delivered)
  BY <1>3, OnMediaDeliveredSound
<1>5. Sound(d)
  BY <1>4, EstimatedBufferNat, UpdateStallStateSound DEF Sound
<1>6. SamePlace(steered, delivered) /\ SamePlace(delivered, d)
  BY <1>3, <1>4, OnMediaDeliveredPlace, UpdateStallStatePlace DEF Sound
<1>7. SamePlace(steered, d)
  BY <1>6 DEF SamePlace, SameFlags
<1>8. SameFlags(ctl, recorded) /\ (ctl.clock # NoTime => SamePlace(ctl, recorded))
  BY <1>1, RecordSegmentDeliveryPlace DEF Sound
<1> QED BY <1>2, <1>3, <1>5, <1>7, <1>8 DEF Sound

\* The same for a clock tick, up to latency control.
LEMMA ClockTickPlace ==
    ASSUME SessionInv, NEW tr \in Tracks, NEW dt \in Elapsed,
           NEW advanced, advanced = AdvanceMediaClock(ctl, dt),
           NEW published, published = UpdateStallState(advanced, EstimatedBuffer(advanced, tr))
    PROVE  /\ Sound(advanced) /\ Sound(published)
           /\ SameFlags(ctl, published)
           /\ ctl.paused \/ ctl.state = "Seeking" => SamePlace(ctl, published)
<1>1. Sound(ctl) /\ dt \in Nat
  BY InputAssumption DEF SessionInv
<1>2. Sound(advanced)
  BY <1>1, AdvanceMediaClockSound
<1>3. Sound(published)
  BY <1>2, EstimatedBufferNat, UpdateStallStateSound DEF Sound
<1>4. SamePlace(advanced, published)
  BY <1>2, UpdateStallStatePlace DEF Sound
<1>5. /\ SameFlags(ctl, advanced)
      /\ ctl.paused \/ ctl.state = "Seeking" => SamePlace(ctl, advanced)
  BY <1>1, AdvanceMediaClockPlace DEF Sound
<1> QED BY <1>2, <1>3, <1>4, <1>5 DEF SamePlace, SameFlags

\* Latency control is the only one to steer: a step of the streams keeps the
\* generation, or a consuming session seeks to the latency target.
LEMMA StreamsSteer ==
    ASSUME SessionInv, Streams
    PROVE  \/ ctl'.seekGen = ctl.seekGen
           \/ /\ Consuming(ctl)
              /\ LatencyMax > LatencyTarget /\ live > LatencyTarget
              /\ ctl'.playhead = live - LatencyTarget
<1>0. Sound(ctl) /\ ctl \in Controller /\ live \in Nat
  BY DEF SessionInv, Sound
<1>1. CASE BuildPeriodContext
  BY <1>0, <1>1 DEF BuildPeriodContext, Apply, SetLatencyControl, Controller
<1>2. CASE BeginStream
  BY <1>0, <1>2, SetStatePlace DEF BeginStream, Apply, SamePlace, SameFlags
<1>3. CASE EmitSegment
  <2>1. PICK tr \in Tracks, span \in Spans :
             LET recorded  == RecordSegmentDelivery(ctl, tr, span[1], span[2])
                 steered   == ApplyLatencyControl(recorded, live)
                 delivered == OnMediaDelivered(steered, tr)
             IN  ctl' = UpdateStallState(delivered, EstimatedBuffer(delivered, tr))
    BY <1>3 DEF EmitSegment, Apply
  <2> DEFINE recorded  == RecordSegmentDelivery(ctl, tr, span[1], span[2])
             steered   == ApplyLatencyControl(recorded, live)
             delivered == OnMediaDelivered(steered, tr)
  <2>2. ctl' = UpdateStallState(delivered, EstimatedBuffer(delivered, tr))
    BY <2>1
  <2>3. Sound(recorded) /\ SameFlags(ctl, recorded) /\ SamePlace(steered, ctl')
    BY <2>2, EmitSegmentPlace
  <2> HIDE DEF recorded
  <2>4. \/ SamePlace(recorded, steered)
        \/ /\ Consuming(recorded)
           /\ LatencyMax > LatencyTarget /\ live > LatencyTarget
           /\ steered.playhead = live - LatencyTarget
    BY <1>0, <2>3, ApplyLatencyControlPlace
  <2> HIDE DEF steered
  <2> QED BY <2>3, <2>4 DEF SamePlace, SameFlags, Consuming
<1>4. CASE ClockTick
  <2>1. PICK tr \in Tracks, dt \in Elapsed :
             LET advanced  == AdvanceMediaClock(ctl, dt)
                 published == UpdateStallState(advanced, EstimatedBuffer(advanced, tr))
             IN  ctl' = IF advanced.playhead = ctl.playhead THEN published
                        ELSE ApplyLatencyControl(published, live)
    BY <1>4 DEF ClockTick, Apply
  <2> DEFINE advanced  == AdvanceMediaClock(ctl, dt)
             published == UpdateStallState(advanced, EstimatedBuffer(advanced, tr))
  <2>2. Sound(published) /\ SameFlags(ctl, published)
    BY ClockTickPlace
  <2>3. ctl' \in {published, ApplyLatencyControl(published, live)}
    BY <2>1
  <2> HIDE DEF published
  <2>4. \/ SamePlace(published, ApplyLatencyControl(published, live))
        \/ /\ Consuming(published)
           /\ LatencyMax > LatencyTarget /\ live > LatencyTarget
           /\ ApplyLatencyControl(published, live).playhead = live - LatencyTarget
    BY <1>0, <2>2, ApplyLatencyControlPlace
  <2> QED BY <2>2, <2>3, <2>4 DEF SamePlace, SameFlags, Consuming
<1> QED BY <1>1, <1>2, <1>3, <1>4 DEF Streams

\* Latency control never repositions a paused or stopped session.
THEOREM IdleIsNotSteered == Spec => IdleNotSteered
<1>1. SessionInv => (Streams /\ ~Consuming(ctl) => ctl'.seekGen = ctl.seekGen)
  BY StreamsSteer
<1> QED BY <1>1, SessionSound, PTL DEF Spec, IdleNotSteered

\* A latency seek lands within Latency@max and never moves back a session
\* that lags its target.
THEOREM LatencySeekIsForward == Spec => LatencySeekCatchesUp
<1>1. SessionInv =>
        (Streams /\ ctl'.seekGen # ctl.seekGen =>
            /\ ~TooFarBehind(ctl'.playhead, live)
            /\ ctl.playhead # NoTime /\ ctl.playhead + LatencyTarget <= live
               => ctl'.playhead >= ctl.playhead)
  <2> SUFFICES ASSUME SessionInv, Streams, ctl'.seekGen # ctl.seekGen
               PROVE  /\ ~TooFarBehind(ctl'.playhead, live)
                      /\ ctl.playhead # NoTime /\ ctl.playhead + LatencyTarget <= live
                         => ctl'.playhead >= ctl.playhead
    OBVIOUS
  <2>1. /\ LatencyMax > LatencyTarget /\ live > LatencyTarget
        /\ ctl'.playhead = live - LatencyTarget
    BY StreamsSteer
  <2>2. live \in Nat /\ ctl.playhead \in Nat \cup {NoTime}
    BY DEF SessionInv, Sound, Controller, OptTime
  <2> QED BY <2>1, <2>2, LatencyAssumption DEF TooFarBehind
<1> QED BY <1>1, SessionSound, PTL DEF Spec, LatencySeekCatchesUp

\* Both promises of latency control.
THEOREM LatencyControlHolds == Spec => LatencyControlIsSound
BY IdleIsNotSteered, LatencySeekIsForward DEF LatencyControlIsSound

-----------------------------------------------------------------------------
(* The clock of a paused or seeking session.                               *)

\* The steps of the streams.
LEMMA StreamsStill ==
    ASSUME SessionInv, Streams, ctl.paused \/ ctl.state = "Seeking"
    PROVE  Still(ctl, ctl')
<1>0. Sound(ctl) /\ ctl \in Controller /\ live \in Nat
  BY DEF SessionInv, Sound
<1>1. CASE BuildPeriodContext
  BY <1>0, <1>1 DEF BuildPeriodContext, Apply, SetLatencyControl, Controller, Still
<1>2. CASE BeginStream
  BY <1>0, <1>2, SetStatePlace, SamePlaceStill DEF BeginStream, Apply
<1>3. ASSUME NEW c, Sound(c)
      PROVE  Still(c, ApplyLatencyControl(c, live))
  <2>1. c \in Controller /\ c.seekGen \in Nat
    BY <1>3 DEF Sound, Controller
  <2> QED BY <1>0, <1>3, <2>1, ApplyLatencyControlPlace, SamePlaceStill DEF Still
<1>4. CASE EmitSegment
  <2>1. PICK tr \in Tracks, span \in Spans :
             LET recorded  == RecordSegmentDelivery(ctl, tr, span[1], span[2])
                 steered   == ApplyLatencyControl(recorded, live)
                 delivered == OnMediaDelivered(steered, tr)
             IN  ctl' = UpdateStallState(delivered, EstimatedBuffer(delivered, tr))
    BY <1>4 DEF EmitSegment, Apply
  <2> DEFINE recorded  == RecordSegmentDelivery(ctl, tr, span[1], span[2])
             steered   == ApplyLatencyControl(recorded, live)
             delivered == OnMediaDelivered(steered, tr)
  <2>2. ctl' = UpdateStallState(delivered, EstimatedBuffer(delivered, tr))
    BY <2>1
  <2>3. /\ Sound(recorded) /\ Sound(steered) /\ ctl' \in Controller
        /\ SameFlags(ctl, recorded)
        /\ ctl.clock # NoTime => SamePlace(ctl, recorded)
        /\ SamePlace(steered, ctl')
    BY <2>2, EmitSegmentPlace
  <2>4. Still(ctl, recorded)
    BY <2>3 DEF SamePlace, SameFlags, Still
  <2>5. Still(recorded, steered)
    BY <1>3, <2>3
  <2>6. Still(steered, ctl')
    BY <2>3, SamePlaceStill DEF Sound
  <2> HIDE DEF recorded, steered
  <2> QED BY <1>0, <2>3, <2>4, <2>5, <2>6, StillChain DEF Sound
<1>5. CASE ClockTick
  <2>1. PICK tr \in Tracks, dt \in Elapsed :
             LET advanced  == AdvanceMediaClock(ctl, dt)
                 published == UpdateStallState(advanced, EstimatedBuffer(advanced, tr))
             IN  ctl' = IF advanced.playhead = ctl.playhead THEN published
                        ELSE ApplyLatencyControl(published, live)
    BY <1>5 DEF ClockTick, Apply
  <2> DEFINE advanced  == AdvanceMediaClock(ctl, dt)
             published == UpdateStallState(advanced, EstimatedBuffer(advanced, tr))
  <2>2. Sound(published) /\ SamePlace(ctl, published)
    BY ClockTickPlace
  <2>3. ctl' \in {published, ApplyLatencyControl(published, live)}
    BY <2>1
  <2> HIDE DEF published
  <2>4. Still(ctl, published)
    BY <1>0, <2>2, SamePlaceStill
  <2>5. Still(published, ApplyLatencyControl(published, live))
    BY <1>3, <2>2
  <2>6. published \in Controller /\ ApplyLatencyControl(published, live) \in Controller
    BY <1>0, <2>2, ApplyLatencyControlSound DEF Sound
  <2> QED BY <1>0, <2>3, <2>4, <2>5, <2>6, StillChain
<1> QED BY <1>1, <1>2, <1>4, <1>5 DEF Streams

\* The commands of the host.
LEMMA HostStill ==
    ASSUME SessionInv, Host
    PROVE  Still(ctl, ctl')
<1>0. Sound(ctl) /\ ctl \in Controller /\ ctl.seekGen \in Nat
  BY DEF SessionInv, Sound, Controller
<1>1. CASE Pause
  BY <1>0, <1>1 DEF Pause, Apply, DoPause, Controller, Still
<1>2. CASE Resume
  BY <1>0, <1>2 DEF Resume, Apply, DoResume, Controller, Still
<1>3. CASE Seek
  BY <1>0, <1>3, InterruptAtPlace DEF Seek, Apply, DoSeek, Still
<1>4. ASSUME NEW c \in Controller, c.seekGen = ctl.seekGen
      PROVE  Still(ctl, InterruptStreamsFromPlayhead(c))
  BY <1>0, <1>4, InterruptAtPlace DEF InterruptStreamsFromPlayhead, Still
<1>5. CASE SetTrackSelection
  <2> DEFINE c == [ctl EXCEPT !.newSelection = TRUE]
  <2>1. c \in Controller /\ c.seekGen = ctl.seekGen
    BY <1>0 DEF Controller
  <2> QED BY <1>4, <1>5, <2>1 DEF SetTrackSelection, Apply, DoSetTrackSelection
<1>6. CASE SetQualityConstraints
  BY <1>0, <1>4, <1>6 DEF SetQualityConstraints, Apply
<1>7. CASE SetPlaybackRate
  BY <1>0, <1>7 DEF SetPlaybackRate, Apply, Controller, Still
<1>8. CASE SetPausePolicy
  BY <1>0, <1>8 DEF SetPausePolicy, Apply, Controller, Still
<1>9. CASE Stop
  BY <1>0, <1>9 DEF Stop, Apply, DoStop, Controller, Still
<1>10. CASE Report
  <2>1. PICK tr \in Tracks, b \in Reports :
             ctl' = UpdateStallState(ResyncMediaClockFromBuffer(ctl, tr, b), b)
    BY <1>10 DEF Report, Apply
  <2> DEFINE synced == ResyncMediaClockFromBuffer(ctl, tr, b)
  <2>2. Sound(synced) /\ Sound(UpdateStallState(synced, b))
    BY <1>0, InputAssumption, ResyncSound, UpdateStallStateSound
  <2>3. Still(ctl, synced)
    BY <1>0, ResyncStill
  <2> HIDE DEF synced
  <2>4. Still(synced, UpdateStallState(synced, b))
    BY <2>2, UpdateStallStatePlace, SamePlaceStill DEF Sound
  <2>5. ctl' = UpdateStallState(synced, b)
    BY <2>1 DEF synced
  <2> QED BY <1>0, <2>2, <2>3, <2>4, <2>5, StillChain DEF Sound
<1>11. CASE DropReceivers
  BY <1>0, <1>11 DEF DropReceivers, Still
<1> QED BY <1>1, <1>2, <1>3, <1>5, <1>6, <1>7, <1>8, <1>9, <1>10, <1>11 DEF Host

\* The run loop, which clears the clock at the start of the session only.
LEMMA RunLoopStill ==
    ASSUME SessionInv, RunLoop
    PROVE  Start \/ Still(ctl, ctl')
<1>0. ctl \in Controller
  BY DEF SessionInv, Sound
<1>1. Still(ctl, ctl) /\ \A s : Still(ctl, SetState(ctl, s))
  BY <1>0, SetStatePlace, SamePlaceStill DEF Still
<1>2. CASE BeginTick
  BY <1>1, <1>2 DEF BeginTick, Goto
<1>3. CASE BeginPeriods
  BY <1>0, <1>3 DEF BeginPeriods, Goto, TakePending, Controller, Still
<1>4. CASE FinishTick
  BY <1>1, <1>4 DEF FinishTick, Goto
<1>5. CASE Wake
  BY <1>1, <1>5 DEF Wake, Goto
<1>6. CASE Fail
  BY <1>0, <1>6 DEF Fail, Goto, MarkError, Controller, Still
<1> QED BY <1>2, <1>3, <1>4, <1>5, <1>6 DEF RunLoop

\* A running clock stands still while the session is paused or seeking.
THEOREM FrozenClock == Spec => ClockFrozen
<1> DEFINE Frozen ==
             /\ (ctl.paused /\ ctl'.paused) \/ (ctl.state = "Seeking" /\ ctl'.state = "Seeking")
             /\ ctl'.seekGen = ctl.seekGen
             /\ ctl.clock # NoTime
             => ctl'.clock = ctl.clock
<1>1. SessionInv /\ [Next]_vars => Frozen
  <2> SUFFICES ASSUME SessionInv, [Next]_vars,
                      (ctl.paused /\ ctl'.paused)
                        \/ (ctl.state = "Seeking" /\ ctl'.state = "Seeking"),
                      ctl'.seekGen = ctl.seekGen, ctl.clock # NoTime
               PROVE  ctl'.clock = ctl.clock
    OBVIOUS
  <2>1. ctl \in Controller /\ ctl.seekGen \in Nat
    BY DEF SessionInv, Sound, Controller
  <2>2. ASSUME Still(ctl, ctl') PROVE ctl'.clock = ctl.clock
    BY <2>1, <2>2 DEF Still
  <2>3. CASE Host
    BY <2>2, <2>3, HostStill
  <2>4. CASE RunLoop
    <3>1. CASE Start
      <4>1. ~ctl'.paused /\ ctl'.state = "LoadingManifest"
        BY <2>1, <3>1 DEF Start, MarkStarted, SetLatencyControl, SetMediaClock,
                          ResetSession, Controller
      <4> QED BY <4>1
    <3> QED BY <2>2, <2>4, <3>1, RunLoopStill
  <2>5. CASE Streams
    BY <2>2, <2>5, StreamsStill
  <2>6. CASE LiveEdge \/ UNCHANGED vars
    BY <2>6 DEF LiveEdge, vars
  <2> QED BY <2>3, <2>4, <2>5, <2>6 DEF Next
<1> QED BY <1>1, SessionSound, PTL DEF Spec, ClockFrozen
=============================================================================
