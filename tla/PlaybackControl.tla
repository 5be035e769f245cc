--------------------------- MODULE PlaybackControl ---------------------------
(***************************************************************************)
(* The playback controller (src/src/playback_control.rs): the record       *)
(* shared by the host's commands, the run loop and the track streams.      *)
(*                                                                         *)
(* Every method of the controller is an operator from a controller value   *)
(* to a controller value, so that other modules can run several of them in *)
(* one step, the way the code's callers do.  Seconds are natural numbers.  *)
(* The wall-clock sample of the media clock is abstracted to whether there *)
(* is one: the time it measures is an argument of AdvanceMediaClock, which *)
(* also stands for every consumption rate.                                 *)
(***************************************************************************)
EXTENDS Integers, FiniteSets

CONSTANTS
    Tracks,         \* track slots, fixed at MediaPlayer::start
    NoTime,         \* None of an Option<Duration>
    MinBuffer,      \* MPD@minBufferTime
    HealthyBuffer,  \* STALL_HEALTHY_BUFFER_S
    LatencyTarget,  \* Latency@target
    LatencyMax      \* Latency@max

ASSUME NoTimeAssumption == NoTime \notin Nat
ASSUME BufferAssumption == MinBuffer \in Nat \ {0} /\ HealthyBuffer \in Nat \ {0}
ASSUME LatencyAssumption == LatencyTarget \in Nat /\ LatencyMax \in Nat

OptTime == Nat \cup {NoTime}

PlaybackState == {"Idle", "LoadingManifest", "Buffering", "Playing",
                  "Paused", "Seeking", "Ended", "Error"}

PausePolicy == [scheduleWhilePaused : BOOLEAN, cancelInflight : BOOLEAN]

Controller ==
    [ state : PlaybackState,
      started : BOOLEAN,
      paused : BOOLEAN,
      stopped : BOOLEAN,
      policy : PausePolicy,
      fetchCancel : Nat,           \* generation of cancelled fetches
      seekTarget : OptTime,        \* taken by the run loop
      seekGen : Nat,               \* generation that interrupts the streams
      newSelection : BOOLEAN,      \* pending_track_selection is Some
      ends : [Tracks -> OptTime],  \* track_delivered_ends
      clock : OptTime,             \* media_clock
      wall : BOOLEAN,              \* media_clock_wall is Some
      playhead : OptTime,          \* published by presentation_time()
      healthy : BOOLEAN,           \* buffer_was_healthy
      hasStarted : BOOLEAN,        \* has_started_playing
      latencyOn : BOOLEAN,         \* latency_policy and live_clock are Some
      armed : BOOLEAN ]            \* latency_seek_armed

NoEnds == [t \in Tracks |-> NoTime]

NewController ==
    [ state |-> "Idle", started |-> FALSE, paused |-> FALSE, stopped |-> FALSE,
      policy |-> [scheduleWhilePaused |-> TRUE, cancelInflight |-> FALSE],
      fetchCancel |-> 0, seekTarget |-> NoTime, seekGen |-> 0,
      newSelection |-> FALSE, ends |-> NoEnds, clock |-> NoTime,
      wall |-> FALSE, playhead |-> NoTime, healthy |-> FALSE,
      hasStarted |-> FALSE, latencyOn |-> FALSE, armed |-> TRUE ]

-----------------------------------------------------------------------------
(* Private helpers of the controller.                                      *)

IsActive(c) == c.started /\ ~c.stopped

\* A slip: the playhead watchers are not told.
SetMediaClock_Unpublished(c, t) == [c EXCEPT !.clock = t, !.wall = FALSE]

SetMediaClock(c, t) == [c EXCEPT !.clock = t, !.wall = FALSE, !.playhead = t]

ResetSession(c) == [c EXCEPT !.ends = NoEnds, !.healthy = FALSE, !.hasStarted = FALSE]

\* What seek and interrupt_streams_from_playhead share.
InterruptAt(c, t, state) ==
    [SetMediaClock(ResetSession(c), t) EXCEPT
        !.seekTarget = t, !.seekGen = @ + 1, !.state = state]

SetLatencyControl(c, on) == [c EXCEPT !.latencyOn = on, !.armed = TRUE]

-----------------------------------------------------------------------------
(* Commands of the host.  Their guard is IsActive unless noted.            *)

\* A slip: the wall sample survives the pause.
DoPause_KeepsWall(c) == [c EXCEPT !.paused = TRUE, !.state = "Paused"]

DoPause(c) ==
    [c EXCEPT !.paused = TRUE, !.wall = FALSE, !.state = "Paused",
              !.fetchCancel = IF ~c.policy.scheduleWhilePaused /\ c.policy.cancelInflight
                              THEN @ + 1 ELSE @]

DoResume(c) == [c EXCEPT !.paused = FALSE, !.wall = FALSE, !.state = "Buffering"]

DoSeek(c, t) == InterruptAt(c, t, "Seeking")

InterruptStreamsFromPlayhead(c) ==
    InterruptAt(c, IF c.playhead = NoTime THEN 0 ELSE c.playhead, "Buffering")

DoSetTrackSelection(c) == InterruptStreamsFromPlayhead([c EXCEPT !.newSelection = TRUE])

\* Guarded by c.started only: stop may be repeated.
DoStop(c) == [c EXCEPT !.stopped = TRUE, !.paused = FALSE, !.wall = FALSE, !.state = "Ended"]

-----------------------------------------------------------------------------
(* Calls of the run loop and of the track streams.                         *)

MarkStarted(c) ==
    [SetLatencyControl(SetMediaClock(ResetSession(c), NoTime), FALSE) EXCEPT
        !.started = TRUE, !.stopped = FALSE, !.paused = FALSE,
        !.state = "LoadingManifest"]

\* A slip: the stopped flag is not looked at.
SetState_AfterStop(c, s) ==
    IF c.paused /\ s \notin {"Paused", "Seeking", "Ended", "Error"}
    THEN c
    ELSE [c EXCEPT !.state = s]

SetState(c, s) ==
    IF \/ c.stopped /\ s # "Error"
       \/ ~c.stopped /\ c.paused /\ s \notin {"Paused", "Seeking", "Ended", "Error"}
    THEN c
    ELSE [c EXCEPT !.state = s]

MarkError(c) == [c EXCEPT !.state = "Error"]

TakePending(c) == [c EXCEPT !.newSelection = FALSE, !.seekTarget = NoTime]

Larger(a, b) == IF a > b THEN a ELSE b

RecordSegmentDelivery(c, tr, start, end) ==
    LET newEnd  == IF c.ends[tr] = NoTime THEN Larger(end, start)
                   ELSE Larger(c.ends[tr], Larger(end, start))
        covered == [c EXCEPT !.ends[tr] = newEnd]
    IN  IF c.clock # NoTime THEN covered ELSE SetMediaClock(covered, start)

EstimatedBuffer(c, tr) ==
    IF c.ends[tr] = NoTime \/ c.clock = NoTime \/ c.ends[tr] < c.clock
    THEN 0
    ELSE c.ends[tr] - c.clock

DeliveredEnds(c) == {c.ends[t] : t \in Tracks} \ {NoTime}

\* min_delivered_end caps the new clock.
CappedTo(S, t) ==
    IF \E e \in S : e < t
    THEN CHOOSE e \in S : \A f \in S : e <= f
    ELSE t

\* A slip: the clock also runs outside Playing.
AdvanceMediaClock_AnyState(c, dt) ==
    IF c.stopped THEN [c EXCEPT !.wall = FALSE]
    ELSE IF c.clock = NoTime THEN c
    ELSE LET t == CappedTo(DeliveredEnds(c), c.clock + dt)
         IN  [c EXCEPT !.clock = t, !.playhead = t]

AdvanceMediaClock(c, dt) ==
    IF c.paused \/ c.stopped \/ c.state # "Playing" THEN [c EXCEPT !.wall = FALSE]
    ELSE IF c.clock = NoTime \/ (c.wall /\ dt = 0) THEN c
    ELSE IF ~c.wall THEN [c EXCEPT !.wall = TRUE]
    ELSE LET t == CappedTo(DeliveredEnds(c), c.clock + dt)
         IN  [c EXCEPT !.clock = t, !.playhead = t]

Consuming(c) == ~c.paused /\ ~c.stopped

\* A slip: recovery does not wait for minBufferTime.
UpdateStallState_NoThreshold(c, buffer) ==
    IF ~Consuming(c) \/ c.state \notin {"Buffering", "Playing"} THEN c
    ELSE [c EXCEPT !.state = IF buffer = 0 /\ c.healthy THEN "Buffering" ELSE "Playing"]

UpdateStallState(c, buffer) ==
    LET wasHealthy == c.healthy \/ buffer >= HealthyBuffer
    IN  IF ~Consuming(c) \/ c.state \notin {"Buffering", "Playing"} THEN c
        ELSE IF buffer = 0 /\ wasHealthy
        THEN [c EXCEPT !.healthy = FALSE, !.wall = FALSE, !.state = "Buffering"]
        ELSE IF c.state = "Buffering" /\ buffer >= MinBuffer
        THEN [c EXCEPT !.healthy = wasHealthy, !.hasStarted = TRUE, !.state = "Playing"]
        ELSE [c EXCEPT !.healthy = wasHealthy]

\* A slip: media delivered during a pause starts playback.
OnMediaDelivered_WhilePaused(c, tr) ==
    IF c.stopped \/ c.state \in {"Seeking", "Ended", "Error"} THEN c
    ELSE [c EXCEPT !.hasStarted = TRUE, !.state = "Playing"]

OnMediaDelivered(c, tr) ==
    LET buffer == EstimatedBuffer(c, tr)
    IN  IF ~Consuming(c) \/ c.state \in {"Seeking", "Ended", "Error"} THEN c
        ELSE IF ~c.hasStarted /\ buffer > 0
        THEN [c EXCEPT !.hasStarted = TRUE, !.state = "Playing",
                       !.healthy = @ \/ buffer >= HealthyBuffer]
        ELSE UpdateStallState(c, buffer)

\* A slip: the reported buffer is taken off the clock.
ResyncMediaClockFromBuffer_Backwards(c, tr, buffer) ==
    LET now == IF c.clock = NoTime THEN 0 ELSE c.clock
    IN  [SetMediaClock(c, now) EXCEPT !.ends[tr] = now - buffer]

\* The consumer reports the occupancy of its own buffer.
ResyncMediaClockFromBuffer(c, tr, buffer) ==
    LET now    == IF c.clock = NoTime THEN 0 ELSE c.clock
        synced == IF c.clock = NoTime THEN SetMediaClock(c, now) ELSE [c EXCEPT !.wall = FALSE]
    IN  [synced EXCEPT !.ends[tr] = now + buffer]

\* Latency above @max, with a target to go back to; latencies saturate at 0.
TooFarBehind(playhead, live) ==
    live > playhead + LatencyMax /\ LatencyMax > LatencyTarget

\* A slip: the latency is taken for the position.
ApplyLatencyControl_ToLatency(c, live) ==
    IF ~Consuming(c) \/ c.state = "Seeking" \/ ~c.latencyOn \/ c.playhead = NoTime THEN c
    ELSE IF TooFarBehind(c.playhead, live) /\ c.armed /\ IsActive(c)
    THEN DoSeek([c EXCEPT !.armed = FALSE], LatencyTarget)
    ELSE c

\* A slip: latency control also steers a paused session.
ApplyLatencyControl_WhilePaused(c, live) ==
    IF ~c.latencyOn \/ c.playhead = NoTime \/ ~TooFarBehind(c.playhead, live) \/ ~IsActive(c) THEN c
    ELSE DoSeek(c, live - LatencyTarget)

\* refresh_latency_control and the seek its caller makes: live is the wall
\* clock on the presentation timeline.
ApplyLatencyControl(c, live) ==
    IF ~Consuming(c) \/ c.state = "Seeking" \/ ~c.latencyOn \/ c.playhead = NoTime THEN c
    ELSE IF ~TooFarBehind(c.playhead, live) THEN [c EXCEPT !.armed = TRUE]
    ELSE IF c.armed /\ IsActive(c)
    THEN DoSeek([c EXCEPT !.armed = FALSE], IF live > LatencyTarget THEN live - LatencyTarget ELSE 0)
    ELSE [c EXCEPT !.armed = FALSE]
=============================================================================
