------------------------ MODULE PlaybackSession_proofs ------------------------
(***************************************************************************)
(* PlaybackSession keeps its invariants for every set of tracks, every     *)
(* timeline, buffer threshold and latency policy: the controller value is  *)
(* Sound in every reachable state.                                         *)
(***************************************************************************)
EXTENDS PlaybackSession, PlaybackControl_proofs

\* The inductive invariant.
SessionInv ==
    /\ Sound(ctl)
    /\ phase \in Phase
    /\ tickGen \in Nat
    /\ live \in Nat
    /\ listening \in BOOLEAN

LEMMA InitSession == Init => SessionInv
BY NewControllerSound DEF Init, SessionInv, Phase

\* A step of the controller alone is sound when its new value is.
LEMMA ApplySound ==
    ASSUME SessionInv, NEW c, Sound(c), Apply(c)
    PROVE  SessionInv'
BY DEF SessionInv, Apply

LEMMA HostStep ==
    ASSUME SessionInv, Host
    PROVE  SessionInv'
<1>1. Sound(ctl)
  BY DEF SessionInv
<1>2. CASE Pause
  BY <1>1, <1>2, ApplySound, DoPauseSound DEF Pause
<1>3. CASE Resume
  BY <1>1, <1>3, ApplySound, DoResumeSound DEF Resume
<1>4. CASE Seek
  BY <1>1, <1>4, ApplySound, DoSeekSound, InputAssumption DEF Seek
<1>5. CASE SetTrackSelection
  BY <1>1, <1>5, ApplySound, DoSetTrackSelectionSound DEF SetTrackSelection
<1>6. CASE SetQualityConstraints
  BY <1>1, <1>6, ApplySound, InterruptFromPlayheadSound DEF SetQualityConstraints
<1>7. CASE SetPlaybackRate
  BY <1>1, <1>7, ApplySound, ClearWallSound DEF SetPlaybackRate
<1>8. CASE SetPausePolicy
  BY <1>1, <1>8, ApplySound, SetPolicySound, InputAssumption DEF SetPausePolicy
<1>9. CASE Stop
  BY <1>1, <1>9, ApplySound, DoStopSound DEF Stop
<1>10. CASE Report
  <2>1. PICK tr \in Tracks, b \in Reports :
             Apply(UpdateStallState(ResyncMediaClockFromBuffer(ctl, tr, b), b))
    BY <1>10 DEF Report
  <2>2. b \in Nat
    BY InputAssumption
  <2>3. Sound(UpdateStallState(ResyncMediaClockFromBuffer(ctl, tr, b), b))
    BY <1>1, <2>2, ResyncSound, UpdateStallStateSound
  <2> QED BY <2>1, <2>3, ApplySound
<1>11. CASE DropReceivers
  BY <1>11 DEF DropReceivers, SessionInv
<1> QED BY <1>2, <1>3, <1>4, <1>5, <1>6, <1>7, <1>8, <1>9, <1>10, <1>11 DEF Host

LEMMA RunLoopStep ==
    ASSUME SessionInv, RunLoop
    PROVE  SessionInv'
<1>1. Sound(ctl)
  BY DEF SessionInv
<1>2. ASSUME NEW p \in Phase, NEW c, Sound(c), Goto(p, c), tickGen' \in Nat
      PROVE  SessionInv'
  BY <1>2 DEF Goto, SessionInv
<1>3. tickGen \in Nat /\ ctl.seekGen \in Nat
  BY DEF SessionInv, Sound, Controller
<1>4. {"top", "refreshing", "periods", "sleeping", "done"} \subseteq Phase
  BY DEF Phase
<1>5. CASE Start
  BY <1>1, <1>4, <1>5, MarkStartedSound DEF Start, SessionInv, Sound
<1>6. CASE BeginTick
  BY <1>1, <1>2, <1>3, <1>4, <1>6, SetStateSound DEF BeginTick
<1>7. CASE BeginPeriods
  BY <1>1, <1>2, <1>3, <1>4, <1>7, TakePendingSound DEF BeginPeriods
<1>8. CASE FinishTick
  BY <1>1, <1>2, <1>3, <1>4, <1>8, SetStateSound DEF FinishTick
<1>9. CASE Wake
  BY <1>1, <1>2, <1>3, <1>4, <1>9, SetStateSound DEF Wake
<1>10. CASE Fail
  BY <1>1, <1>2, <1>3, <1>4, <1>10, MarkErrorSound DEF Fail
<1> QED BY <1>5, <1>6, <1>7, <1>8, <1>9, <1>10 DEF RunLoop

LEMMA StreamsStep ==
    ASSUME SessionInv, Streams
    PROVE  SessionInv'
<1>1. Sound(ctl) /\ live \in Nat
  BY DEF SessionInv
<1>2. CASE BuildPeriodContext
  BY <1>1, <1>2, ApplySound, SetLatencyControlSound, InputAssumption DEF BuildPeriodContext
<1>3. CASE BeginStream
  BY <1>1, <1>3, ApplySound, SetStateSound DEF BeginStream
<1>4. ASSUME NEW c, Sound(c), NEW tr \in Tracks
      PROVE  Sound(UpdateStallState(c, EstimatedBuffer(c, tr)))
  BY <1>4, EstimatedBufferNat, UpdateStallStateSound DEF Sound
<1>5. CASE EmitSegment
  <2>1. PICK tr \in Tracks, span \in Spans :
             LET recorded  == RecordSegmentDelivery(ctl, tr, span[1], span[2])
                 steered   == ApplyLatencyControl(recorded, live)
                 delivered == OnMediaDelivered(steered, tr)
             IN  Apply(UpdateStallState(delivered, EstimatedBuffer(delivered, tr)))
    BY <1>5 DEF EmitSegment
  <2> DEFINE recorded  == RecordSegmentDelivery(ctl, tr, span[1], span[2])
             steered   == ApplyLatencyControl(recorded, live)
             delivered == OnMediaDelivered(steered, tr)
  <2>2. span[1] \in Nat /\ span[2] \in Nat
    BY InputAssumption
  <2>3. Sound(recorded)
    BY <1>1, <2>2, RecordSegmentDeliverySound
  <2>4. Sound(steered)
    BY <1>1, <2>3, ApplyLatencyControlSound
  <2>5. Sound(delivered)
    BY <2>4, OnMediaDeliveredSound
  <2> QED BY <1>4, <2>1, <2>5, ApplySound
<1>6. CASE ClockTick
  <2>1. PICK tr \in Tracks, dt \in Elapsed :
             LET advanced  == AdvanceMediaClock(ctl, dt)
                 published == UpdateStallState(advanced, EstimatedBuffer(advanced, tr))
             IN  Apply(IF advanced.playhead = ctl.playhead THEN published
                       ELSE ApplyLatencyControl(published, live))
    BY <1>6 DEF ClockTick
  <2> DEFINE advanced  == AdvanceMediaClock(ctl, dt)
             published == UpdateStallState(advanced, EstimatedBuffer(advanced, tr))
  <2>2. Sound(advanced)
    BY <1>1, InputAssumption, AdvanceMediaClockSound
  <2>3. Sound(published)
    BY <1>4, <2>2
  <2>4. Sound(ApplyLatencyControl(published, live))
    BY <1>1, <2>3, ApplyLatencyControlSound
  <2> QED BY <2>1, <2>3, <2>4, ApplySound
<1> QED BY <1>2, <1>3, <1>5, <1>6 DEF Streams

\* SessionInv is an invariant of the session.
THEOREM SessionSound == Spec => []SessionInv
<1>1. SessionInv /\ [Next]_vars => SessionInv'
  <2> SUFFICES ASSUME SessionInv, [Next]_vars PROVE SessionInv'
    OBVIOUS
  <2>1. CASE Host
    BY <2>1, HostStep
  <2>2. CASE RunLoop
    BY <2>2, RunLoopStep
  <2>3. CASE Streams
    BY <2>3, StreamsStep
  <2>4. CASE LiveEdge
    BY <2>4 DEF LiveEdge, SessionInv
  <2>5. CASE UNCHANGED vars
    BY <2>5 DEF vars, SessionInv
  <2> QED BY <2>1, <2>2, <2>3, <2>4, <2>5 DEF Next
<1> QED BY <1>1, InitSession, PTL DEF Spec

\* Every variable keeps its type, and what presentation_time() reports is always
\* the media clock.
THEOREM ClockIsPublished == Spec => []ClockInv
<1>1. SessionInv => ClockInv
  BY DEF SessionInv, ClockInv, TypeOK, PlayheadIsClock, Sound
<1> QED BY <1>1, SessionSound, PTL

\* After stop() the state is Ended, or Error if the pipeline then failed; a
\* paused session is never Playing nor LoadingManifest; and no wall sample
\* survives into a paused, stopped or seeking session.
THEOREM IdleHolds == Spec => []IdleStaysIdle
<1>1. SessionInv => IdleStaysIdle
  BY DEF SessionInv, IdleStaysIdle, StopIsFinal, PausedNeverPlays, IdleTimeNotCharged, Sound
<1> QED BY <1>1, SessionSound, PTL

\* Playing implies delivered media since the last interruption.
THEOREM PlayingNeedsMedia == Spec => []PlayingHasMedia
<1>1. SessionInv => PlayingHasMedia
  BY DEF SessionInv, PlayingHasMedia, Sound
<1> QED BY <1>1, SessionSound, PTL
=============================================================================
