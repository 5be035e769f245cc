------------------------ MODULE PlaybackControl_proofs ------------------------
(***************************************************************************)
(* What every method of the controller preserves, one lemma per method.    *)
(* Modules that run several methods in a step chain the lemmas.            *)
(***************************************************************************)
EXTENDS PlaybackControl, TLAPS, WellFoundedInduction

\* The controller values a session can be in: the conjuncts that each
\* method relies on and restores.
Sound(c) ==
    /\ c \in Controller
    /\ c.playhead = c.clock
    /\ c.stopped => c.state \in {"Ended", "Error"}
    /\ c.paused => c.state \notin {"Playing", "LoadingManifest"}
    /\ c.wall => ~c.paused /\ ~c.stopped /\ c.state # "Seeking"
    /\ c.state = "Playing" => /\ c.hasStarted
                              /\ c.clock # NoTime
                              /\ DeliveredEnds(c) # {}

\* A nonempty set of times has an earliest one: the minimum that caps the
\* media clock exists.
LEMMA EarliestExists ==
    ASSUME NEW S \in SUBSET Nat, S # {}
    PROVE  \E e \in S : \A f \in S : e <= f
<1> DEFINE R == {p \in Nat \X Nat : p[1] < p[2]}
<1>1. IsWellFoundedOn(R, Nat)
  BY NatLessThanWellFounded DEF OpToRel
<1> HIDE DEF R
<1>2. PICK e \in S : \A f \in S : ~ <<f, e>> \in R
  BY <1>1, WFMin
<1>3. \A f \in S : ~(f < e)
  BY <1>2 DEF R
<1> QED BY <1>3

LEMMA CappedToNat ==
    ASSUME NEW S \in SUBSET Nat, NEW t \in Nat
    PROVE  CappedTo(S, t) \in Nat
<1>1. CASE \E e \in S : e < t
  <2>1. S # {}
    BY <1>1
  <2>2. \E e \in S : \A f \in S : e <= f
    BY <2>1, EarliestExists
  <2> QED BY <1>1, <2>2 DEF CappedTo
<1>2. CASE ~ \E e \in S : e < t
  BY <1>2 DEF CappedTo
<1> QED BY <1>1, <1>2

LEMMA EstimatedBufferNat ==
    ASSUME NEW c \in Controller, NEW tr \in Tracks
    PROVE  /\ EstimatedBuffer(c, tr) \in Nat
           /\ EstimatedBuffer(c, tr) > 0 => c.clock # NoTime /\ DeliveredEnds(c) # {}
BY NoTimeAssumption DEF EstimatedBuffer, Controller, OptTime, DeliveredEnds

LEMMA SetMediaClockTyped ==
    ASSUME NEW c \in Controller, NEW t \in OptTime
    PROVE  /\ SetMediaClock(c, t) \in Controller
           /\ SetMediaClock(c, t).clock = t
           /\ SetMediaClock(c, t).playhead = t
           /\ ~SetMediaClock(c, t).wall
           /\ SetMediaClock(c, t).seekGen = c.seekGen
           /\ SetMediaClock(c, t).stopped = c.stopped
BY DEF SetMediaClock, Controller

LEMMA ResetSessionTyped ==
    ASSUME NEW c \in Controller
    PROVE  /\ ResetSession(c) \in Controller
           /\ ResetSession(c).seekGen = c.seekGen
           /\ ResetSession(c).stopped = c.stopped
<1>1. NoEnds \in [Tracks -> OptTime]
  BY DEF NoEnds, OptTime
<1> QED BY <1>1 DEF ResetSession, Controller

-----------------------------------------------------------------------------
(* Commands of the host.                                                   *)

LEMMA NewControllerSound == Sound(NewController)
BY DEF Sound, NewController, Controller, PlaybackState, PausePolicy, OptTime, NoEnds

LEMMA DoPauseSound ==
    ASSUME NEW c, Sound(c), IsActive(c)
    PROVE  Sound(DoPause(c))
<1> DEFINE n == IF ~c.policy.scheduleWhilePaused /\ c.policy.cancelInflight
                THEN c.fetchCancel + 1 ELSE c.fetchCancel
<1>1. n \in Nat
  BY DEF Sound, Controller
<1>2. DoPause(c) = [c EXCEPT !.paused = TRUE, !.wall = FALSE,
                             !.state = "Paused", !.fetchCancel = n]
  BY DEF DoPause
<1> HIDE DEF n
<1> QED BY <1>1, <1>2 DEF Sound, IsActive, Controller, PlaybackState

LEMMA DoResumeSound ==
    ASSUME NEW c, Sound(c), IsActive(c)
    PROVE  Sound(DoResume(c))
BY DEF Sound, DoResume, IsActive, Controller, PlaybackState

LEMMA InterruptAtSound ==
    ASSUME NEW c, Sound(c), IsActive(c),
           NEW t \in Nat, NEW s \in {"Seeking", "Buffering"}
    PROVE  Sound(InterruptAt(c, t, s))
<1> DEFINE e == SetMediaClock(ResetSession(c), t)
<1>1. t \in OptTime /\ s \in PlaybackState
  BY DEF OptTime, PlaybackState
<1>2. e \in Controller /\ e.clock = t /\ e.playhead = t /\ ~e.wall /\ ~e.stopped
  BY <1>1, ResetSessionTyped, SetMediaClockTyped DEF Sound, IsActive
<1>3. InterruptAt(c, t, s) = [e EXCEPT !.seekTarget = t, !.seekGen = e.seekGen + 1, !.state = s]
  BY DEF InterruptAt
<1> HIDE DEF e
<1>4. e.seekGen + 1 \in Nat
  BY <1>2 DEF Controller
<1> QED BY <1>1, <1>2, <1>3, <1>4 DEF Sound, Controller

LEMMA DoSeekSound ==
    ASSUME NEW c, Sound(c), IsActive(c), NEW t \in Nat
    PROVE  Sound(DoSeek(c, t))
BY InterruptAtSound DEF DoSeek

LEMMA InterruptFromPlayheadSound ==
    ASSUME NEW c, Sound(c), IsActive(c)
    PROVE  Sound(InterruptStreamsFromPlayhead(c))
<1>1. (IF c.playhead = NoTime THEN 0 ELSE c.playhead) \in Nat
  BY DEF Sound, Controller, OptTime
<1> QED BY <1>1, InterruptAtSound DEF InterruptStreamsFromPlayhead

LEMMA DoSetTrackSelectionSound ==
    ASSUME NEW c, Sound(c), IsActive(c)
    PROVE  Sound(DoSetTrackSelection(c))
<1> DEFINE d == [c EXCEPT !.newSelection = TRUE]
<1>1. Sound(d) /\ IsActive(d)
  <2>1. d \in Controller
    BY DEF Sound, Controller
  <2> QED BY <2>1 DEF Sound, IsActive, Controller, DeliveredEnds
<1> HIDE DEF d
<1>2. DoSetTrackSelection(c) = InterruptStreamsFromPlayhead(d)
  BY DEF DoSetTrackSelection, d
<1> QED BY <1>1, <1>2, InterruptFromPlayheadSound

LEMMA DoStopSound ==
    ASSUME NEW c, Sound(c)
    PROVE  Sound(DoStop(c))
BY DEF Sound, DoStop, Controller, PlaybackState

\* set_playback_rate, and the other places that only drop the wall sample.
LEMMA ClearWallSound ==
    ASSUME NEW c, Sound(c)
    PROVE  Sound([c EXCEPT !.wall = FALSE])
BY DEF Sound, Controller, DeliveredEnds

LEMMA SetPolicySound ==
    ASSUME NEW c, Sound(c), NEW p \in PausePolicy
    PROVE  Sound([c EXCEPT !.policy = p])
<1>1. [c EXCEPT !.policy = p] \in Controller
  BY DEF Sound, Controller
<1> QED BY <1>1 DEF Sound, Controller, DeliveredEnds

-----------------------------------------------------------------------------
(* Calls of the run loop and of the track streams.                         *)

LEMMA SetLatencyControlSound ==
    ASSUME NEW c, Sound(c), NEW on \in BOOLEAN
    PROVE  Sound(SetLatencyControl(c, on))
<1>1. SetLatencyControl(c, on) \in Controller
  BY DEF SetLatencyControl, Sound, Controller
<1> QED BY <1>1 DEF SetLatencyControl, Sound, Controller, DeliveredEnds

LEMMA MarkStartedSound ==
    ASSUME NEW c \in Controller
    PROVE  Sound(MarkStarted(c))
<1> DEFINE e == SetMediaClock(ResetSession(c), NoTime)
           f == SetLatencyControl(e, FALSE)
<1>1. e \in Controller /\ e.clock = NoTime /\ e.playhead = NoTime /\ ~e.wall
  <2>1. NoTime \in OptTime
    BY DEF OptTime
  <2> QED BY <2>1, ResetSessionTyped, SetMediaClockTyped
<1> HIDE DEF e
<1>2. f \in Controller /\ f.clock = NoTime /\ f.playhead = NoTime /\ ~f.wall
  BY <1>1 DEF SetLatencyControl, Controller
<1> HIDE DEF f
<1>3. MarkStarted(c) = [f EXCEPT !.started = TRUE, !.stopped = FALSE, !.paused = FALSE,
                                 !.state = "LoadingManifest"]
  BY DEF MarkStarted, e, f
<1>4. MarkStarted(c) \in Controller
  BY <1>2, <1>3 DEF Controller, PlaybackState
<1> QED BY <1>2, <1>3, <1>4 DEF Sound, Controller

LEMMA SetStateSound ==
    ASSUME NEW c, Sound(c), NEW s \in {"LoadingManifest", "Buffering", "Ended"}
    PROVE  Sound(SetState(c, s))
<1>1. CASE SetState(c, s) = c
  BY <1>1
<1>2. CASE SetState(c, s) # c
  <2>1. ~c.stopped /\ (c.paused => s = "Ended")
    BY <1>2 DEF SetState
  <2>2. SetState(c, s) = [c EXCEPT !.state = s]
    BY <1>2 DEF SetState
  <2>3. SetState(c, s) \in Controller
    BY <2>2 DEF Sound, Controller, PlaybackState
  <2> QED BY <2>1, <2>2, <2>3 DEF Sound, Controller
<1> QED BY <1>1, <1>2

LEMMA MarkErrorSound ==
    ASSUME NEW c, Sound(c)
    PROVE  Sound(MarkError(c))
<1>1. MarkError(c) \in Controller
  BY DEF MarkError, Sound, Controller, PlaybackState
<1> QED BY <1>1 DEF MarkError, Sound, Controller

LEMMA TakePendingSound ==
    ASSUME NEW c, Sound(c)
    PROVE  Sound(TakePending(c))
<1>1. TakePending(c) \in Controller
  BY DEF TakePending, Sound, Controller, OptTime
<1> QED BY <1>1 DEF TakePending, Sound, Controller, DeliveredEnds

\* Only the delivered end of one track moves.
LEMMA CoverSound ==
    ASSUME NEW c, Sound(c), NEW tr \in Tracks, NEW e \in Nat
    PROVE  /\ Sound([c EXCEPT !.ends[tr] = e])
           /\ DeliveredEnds([c EXCEPT !.ends[tr] = e]) # {}
<1> DEFINE d == [c EXCEPT !.ends[tr] = e]
<1>1. d \in Controller
  BY DEF Sound, Controller, OptTime
<1>2. d.ends[tr] = e
  BY DEF Sound, Controller
<1>3. DeliveredEnds(d) # {}
  BY <1>2, NoTimeAssumption DEF DeliveredEnds
<1> QED BY <1>1, <1>3 DEF Sound, Controller

LEMMA SetMediaClockSound ==
    ASSUME NEW c, Sound(c), NEW t \in Nat
    PROVE  Sound(SetMediaClock(c, t))
<1>1. t \in OptTime /\ t # NoTime
  BY NoTimeAssumption DEF OptTime
<1>2. SetMediaClock(c, t) \in Controller
  BY <1>1, SetMediaClockTyped DEF Sound
<1> QED BY <1>1, <1>2 DEF Sound, SetMediaClock, Controller, DeliveredEnds

LEMMA RecordSegmentDeliverySound ==
    ASSUME NEW c, Sound(c), NEW tr \in Tracks, NEW start \in Nat, NEW end \in Nat
    PROVE  Sound(RecordSegmentDelivery(c, tr, start, end))
<1> DEFINE newEnd == IF c.ends[tr] = NoTime THEN Larger(end, start)
                     ELSE Larger(c.ends[tr], Larger(end, start))
           covered == [c EXCEPT !.ends[tr] = newEnd]
<1>1. newEnd \in Nat
  BY DEF Larger, Sound, Controller, OptTime
<1>2. RecordSegmentDelivery(c, tr, start, end) =
          IF c.clock # NoTime THEN covered ELSE SetMediaClock(covered, start)
  BY DEF RecordSegmentDelivery
<1> HIDE DEF newEnd
<1>3. Sound(covered)
  BY <1>1, CoverSound
<1> HIDE DEF covered
<1> QED BY <1>2, <1>3, SetMediaClockSound

LEMMA AdvanceMediaClockSound ==
    ASSUME NEW c, Sound(c), NEW dt \in Nat
    PROVE  Sound(AdvanceMediaClock(c, dt))
<1>1. CASE c.paused \/ c.stopped \/ c.state # "Playing"
  BY <1>1, ClearWallSound DEF AdvanceMediaClock
<1>2. CASE ~(c.paused \/ c.stopped \/ c.state # "Playing")
  <2>1. CASE c.clock = NoTime \/ (c.wall /\ dt = 0)
    BY <1>2, <2>1 DEF AdvanceMediaClock
  <2>2. CASE c.clock # NoTime /\ ~c.wall
    <3>1. AdvanceMediaClock(c, dt) = [c EXCEPT !.wall = TRUE]
      BY <1>2, <2>2 DEF AdvanceMediaClock
    <3>2. [c EXCEPT !.wall = TRUE] \in Controller
      BY DEF Sound, Controller
    <3>3. ~c.paused /\ ~c.stopped /\ c.state = "Playing"
      BY <1>2
    <3> DEFINE d == [c EXCEPT !.wall = TRUE]
    <3>4. /\ d.paused = c.paused /\ d.stopped = c.stopped /\ d.state = c.state
          /\ d.clock = c.clock /\ d.playhead = c.playhead
          /\ d.hasStarted = c.hasStarted /\ d.ends = c.ends
      BY DEF Sound, Controller
    <3> HIDE DEF d
    <3> QED BY <3>1, <3>2, <3>3, <3>4 DEF Sound, DeliveredEnds, d
  <2>3. CASE c.clock # NoTime /\ c.wall /\ dt # 0
    <3> DEFINE t == CappedTo(DeliveredEnds(c), c.clock + dt)
               d == [c EXCEPT !.clock = t, !.playhead = t]
    <3>1. AdvanceMediaClock(c, dt) = d
      BY <1>2, <2>3 DEF AdvanceMediaClock
    <3>2. DeliveredEnds(c) \subseteq Nat /\ c.clock + dt \in Nat
      BY <2>3 DEF DeliveredEnds, Sound, Controller, OptTime
    <3>3. t \in Nat
      BY <3>2, CappedToNat
    <3> HIDE DEF t
    <3>4. d \in Controller /\ t # NoTime
      BY <3>3, NoTimeAssumption DEF Sound, Controller, OptTime
    <3> QED BY <3>1, <3>4 DEF Sound, Controller, DeliveredEnds
  <2> QED BY <2>1, <2>2, <2>3
<1> QED BY <1>1, <1>2

\* buffer is the estimate for a track, or what the consumer reported after
\* the resync covered it.
LEMMA UpdateStallStateSound ==
    ASSUME NEW c, Sound(c), NEW buffer \in Nat,
           buffer > 0 => c.clock # NoTime /\ DeliveredEnds(c) # {}
    PROVE  Sound(UpdateStallState(c, buffer))
<1> DEFINE wasHealthy == c.healthy \/ buffer >= HealthyBuffer
<1>0. wasHealthy \in BOOLEAN
  OBVIOUS
<1>1. CASE ~Consuming(c) \/ c.state \notin {"Buffering", "Playing"}
  BY <1>1 DEF UpdateStallState
<1>2. CASE ~(~Consuming(c) \/ c.state \notin {"Buffering", "Playing"})
  <2>1. ~c.paused /\ ~c.stopped
    BY <1>2 DEF Consuming
  <2>2. CASE buffer = 0 /\ wasHealthy
    <3> DEFINE d == [c EXCEPT !.healthy = FALSE, !.wall = FALSE, !.state = "Buffering"]
    <3>1. UpdateStallState(c, buffer) = d
      BY <1>2, <2>2 DEF UpdateStallState
    <3>2. d \in Controller
      BY DEF Sound, Controller, PlaybackState
    <3> QED BY <2>1, <3>1, <3>2 DEF Sound, Controller
  <2>3. CASE ~(buffer = 0 /\ wasHealthy) /\ c.state = "Buffering" /\ buffer >= MinBuffer
    <3> DEFINE d == [c EXCEPT !.healthy = wasHealthy, !.hasStarted = TRUE, !.state = "Playing"]
    <3>1. UpdateStallState(c, buffer) = d
      BY <1>2, <2>3 DEF UpdateStallState
    <3> HIDE DEF wasHealthy
    <3>2. d \in Controller
      BY <1>0 DEF Sound, Controller, PlaybackState
    <3>3. c.clock # NoTime /\ DeliveredEnds(c) # {}
      BY <2>3, BufferAssumption
    <3> QED BY <2>1, <3>1, <3>2, <3>3 DEF Sound, Controller, DeliveredEnds
  <2>4. CASE ~(buffer = 0 /\ wasHealthy) /\ ~(c.state = "Buffering" /\ buffer >= MinBuffer)
    <3> DEFINE d == [c EXCEPT !.healthy = wasHealthy]
    <3>1. UpdateStallState(c, buffer) = d
      BY <1>2, <2>4 DEF UpdateStallState
    <3> HIDE DEF wasHealthy
    <3>2. d \in Controller
      BY <1>0 DEF Sound, Controller
    <3> QED BY <3>1, <3>2 DEF Sound, Controller, DeliveredEnds
  <2> QED BY <2>2, <2>3, <2>4
<1> QED BY <1>1, <1>2

LEMMA OnMediaDeliveredSound ==
    ASSUME NEW c, Sound(c), NEW tr \in Tracks
    PROVE  Sound(OnMediaDelivered(c, tr))
<1> DEFINE buffer == EstimatedBuffer(c, tr)
           healthy == c.healthy \/ buffer >= HealthyBuffer
           d == [c EXCEPT !.hasStarted = TRUE, !.state = "Playing", !.healthy = healthy]
<1>1. buffer \in Nat /\ (buffer > 0 => c.clock # NoTime /\ DeliveredEnds(c) # {})
  BY EstimatedBufferNat DEF Sound
<1>2. CASE ~Consuming(c) \/ c.state \in {"Seeking", "Ended", "Error"}
  BY <1>2 DEF OnMediaDelivered
<1>3. CASE /\ ~(~Consuming(c) \/ c.state \in {"Seeking", "Ended", "Error"})
           /\ ~c.hasStarted /\ buffer > 0
  <2>1. OnMediaDelivered(c, tr) = d
    BY <1>3 DEF OnMediaDelivered
  <2>2. ~c.paused /\ ~c.stopped /\ c.clock # NoTime /\ DeliveredEnds(c) # {}
    BY <1>1, <1>3 DEF Consuming
  <2>3. healthy \in BOOLEAN
    OBVIOUS
  <2> HIDE DEF healthy
  <2>4. d \in Controller
    BY <2>3 DEF Sound, Controller, PlaybackState
  <2> QED BY <2>1, <2>2, <2>4 DEF Sound, Controller, DeliveredEnds
<1>4. CASE /\ ~(~Consuming(c) \/ c.state \in {"Seeking", "Ended", "Error"})
           /\ ~(~c.hasStarted /\ buffer > 0)
  <2>1. OnMediaDelivered(c, tr) = UpdateStallState(c, buffer)
    BY <1>4 DEF OnMediaDelivered
  <2> HIDE DEF buffer
  <2> QED BY <1>1, <2>1, UpdateStallStateSound
<1> QED BY <1>2, <1>3, <1>4

LEMMA ResyncSound ==
    ASSUME NEW c, Sound(c), NEW tr \in Tracks, NEW buffer \in Nat
    PROVE  /\ Sound(ResyncMediaClockFromBuffer(c, tr, buffer))
           /\ ResyncMediaClockFromBuffer(c, tr, buffer).clock # NoTime
           /\ DeliveredEnds(ResyncMediaClockFromBuffer(c, tr, buffer)) # {}
<1> DEFINE now == IF c.clock = NoTime THEN 0 ELSE c.clock
           synced == IF c.clock = NoTime THEN SetMediaClock(c, now) ELSE [c EXCEPT !.wall = FALSE]
           d == [synced EXCEPT !.ends[tr] = now + buffer]
<1>1. now \in Nat /\ now + buffer \in Nat
  BY DEF Sound, Controller, OptTime
<1>2. Sound(synced) /\ synced.clock # NoTime
  <2>1. CASE c.clock = NoTime
    <3>1. synced = SetMediaClock(c, now) /\ now # NoTime /\ now \in OptTime
      BY <1>1, <2>1, NoTimeAssumption DEF OptTime
    <3> HIDE DEF now, synced
    <3> QED BY <1>1, <3>1, SetMediaClockSound, SetMediaClockTyped DEF Sound
  <2>2. CASE c.clock # NoTime
    BY <2>2, ClearWallSound DEF Sound, Controller
  <2> QED BY <2>1, <2>2
<1>3. ResyncMediaClockFromBuffer(c, tr, buffer) = d
  BY DEF ResyncMediaClockFromBuffer
<1> HIDE DEF now, synced
<1>4. d.clock = synced.clock
  BY <1>2 DEF Sound, Controller
<1>5. Sound(d) /\ DeliveredEnds(d) # {}
  BY <1>1, <1>2, CoverSound
<1> HIDE DEF d
<1> QED BY <1>2, <1>3, <1>4, <1>5

LEMMA ApplyLatencyControlSound ==
    ASSUME NEW c, Sound(c), NEW live \in Nat
    PROVE  Sound(ApplyLatencyControl(c, live))
<1> DEFINE off == [c EXCEPT !.armed = FALSE]
           target == IF live > LatencyTarget THEN live - LatencyTarget ELSE 0
<1>1. ASSUME NEW b \in BOOLEAN
      PROVE  Sound([c EXCEPT !.armed = b])
  <2> DEFINE d == [c EXCEPT !.armed = b]
  <2>1. d \in Controller
    BY DEF Sound, Controller
  <2>2. /\ d.paused = c.paused /\ d.stopped = c.stopped /\ d.state = c.state
        /\ d.clock = c.clock /\ d.playhead = c.playhead /\ d.wall = c.wall
        /\ d.hasStarted = c.hasStarted /\ d.ends = c.ends
    BY DEF Sound, Controller
  <2> HIDE DEF d
  <2> QED BY <2>1, <2>2 DEF Sound, DeliveredEnds, d
<1>2. CASE ~Consuming(c) \/ c.state = "Seeking" \/ ~c.latencyOn \/ c.playhead = NoTime
  BY <1>2 DEF ApplyLatencyControl
<1>3. CASE ~(~Consuming(c) \/ c.state = "Seeking" \/ ~c.latencyOn \/ c.playhead = NoTime)
  <2>1. CASE ~TooFarBehind(c.playhead, live)
    BY <1>1, <1>3, <2>1 DEF ApplyLatencyControl
  <2>2. CASE TooFarBehind(c.playhead, live) /\ c.armed /\ IsActive(c)
    <3>1. ApplyLatencyControl(c, live) = DoSeek(off, target)
      BY <1>3, <2>2 DEF ApplyLatencyControl
    <3>2. Sound(off)
      BY <1>1
    <3>3. IsActive(off)
      BY <2>2 DEF Sound, Controller, IsActive
    <3>4. target \in Nat
      BY LatencyAssumption
    <3> HIDE DEF off, target
    <3> QED BY <3>1, <3>2, <3>3, <3>4, DoSeekSound
  <2>3. CASE TooFarBehind(c.playhead, live) /\ ~(c.armed /\ IsActive(c))
    BY <1>1, <1>3, <2>3 DEF ApplyLatencyControl
  <2> QED BY <2>1, <2>2, <2>3
<1> QED BY <1>2, <1>3
=============================================================================
