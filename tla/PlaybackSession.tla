--------------------------- MODULE PlaybackSession ---------------------------
(***************************************************************************)
(* One playback session seen through its controller: the host's commands   *)
(* and decoder reports, the run loop of stream_controller/mod.rs and the   *)
(* controller calls of its track streams (schedule/segment_emit.rs), in    *)
(* any order the program's structure allows.  A method of the controller   *)
(* runs whole here; what threads can do inside one is another module's.    *)
(***************************************************************************)
EXTENDS PlaybackControl

CONSTANTS
    SeekTimes,      \* positions the host may seek to
    Spans,          \* <<start, end>> of media segments on the timeline
    Reports,        \* buffer levels the consumer may report
    Elapsed,        \* media time one clock tick may cover
    Policies,       \* pause policies the host may set
    Live,           \* the presentation has LL-DASH latency control
    MaxTime,        \* bound: presentation times
    MaxInterrupts,  \* bound: seek generations
    MaxCancels      \* bound: fetch cancel generations

ASSUME InputAssumption ==
    /\ SeekTimes \subseteq Nat
    /\ Spans \subseteq Nat \X Nat
    /\ Reports \subseteq Nat
    /\ Elapsed \subseteq Nat
    /\ Policies \subseteq PausePolicy
    /\ Live \in BOOLEAN
    /\ MaxTime \in Nat
    /\ MaxInterrupts \in Nat
    /\ MaxCancels \in Nat

VARIABLES
    ctl,        \* the shared controller
    phase,      \* where the run loop is
    tickGen,    \* seek_generation_at_start of the current tick
    live,       \* the live edge on the presentation timeline
    listening   \* the host still holds a receiver of some track

vars == <<ctl, phase, tickGen, live, listening>>

Phase == {"off", "top", "refreshing", "periods", "sleeping", "done"}

Init ==
    /\ ctl = NewController
    /\ phase = "off"
    /\ tickGen = 0
    /\ live = 0
    /\ listening = TRUE

\* The bounds of the instance, on a controller value a step would produce.
Within(c) ==
    /\ c.seekGen <= MaxInterrupts
    /\ c.fetchCancel <= MaxCancels
    /\ c.clock # NoTime => c.clock <= MaxTime
    /\ \A t \in Tracks : c.ends[t] # NoTime => c.ends[t] <= MaxTime

\* A step of the controller alone.
Apply(c) ==
    /\ Within(c)
    /\ ctl' = c
    /\ UNCHANGED <<phase, tickGen, live, listening>>

-----------------------------------------------------------------------------
(* The host.                                                               *)

Pause == IsActive(ctl) /\ Apply(DoPause(ctl))

Resume == IsActive(ctl) /\ Apply(DoResume(ctl))

Seek == IsActive(ctl) /\ \E t \in SeekTimes : Apply(DoSeek(ctl, t))

SetTrackSelection == IsActive(ctl) /\ Apply(DoSetTrackSelection(ctl))

\* Only a changed ladder filter interrupts; other constraints touch no
\* state of this module.
SetQualityConstraints == IsActive(ctl) /\ Apply(InterruptStreamsFromPlayhead(ctl))

SetPlaybackRate == IsActive(ctl) /\ Apply([ctl EXCEPT !.wall = FALSE])

SetPausePolicy == \E p \in Policies : Apply([ctl EXCEPT !.policy = p])

Stop == ctl.started /\ Apply(DoStop(ctl))

\* BufferFeedback::report
Report ==
    /\ ctl.started
    /\ \E tr \in Tracks, b \in Reports :
           Apply(UpdateStallState(ResyncMediaClockFromBuffer(ctl, tr, b), b))

DropReceivers ==
    /\ ctl.started
    /\ listening
    /\ listening' = FALSE
    /\ UNCHANGED <<ctl, phase, tickGen, live>>

\* MediaPlayer::start
Start ==
    /\ phase = "off"
    /\ phase' = "top"
    /\ ctl' = MarkStarted(ctl)
    /\ UNCHANGED <<tickGen, live, listening>>

-----------------------------------------------------------------------------
(* The run loop.                                                           *)

Goto(p, c) ==
    /\ phase' = p
    /\ ctl' = c
    /\ UNCHANGED <<live, listening>>

BeginTick ==
    /\ phase = "top"
    /\ IF ctl.stopped \/ ~listening
       THEN Goto("done", ctl)
       ELSE Goto("refreshing", SetState(ctl, "LoadingManifest"))
    /\ UNCHANGED tickGen

\* After refresh_manifest: the pending selection and seek are taken.
BeginPeriods ==
    /\ phase = "refreshing"
    /\ Goto("periods", TakePending(ctl))
    /\ tickGen' = ctl.seekGen

\* The join of a window's streams, at the last window of the tick.
FinishTick ==
    /\ phase = "periods"
    /\ UNCHANGED tickGen
    /\ \/ ctl.stopped /\ Goto("done", SetState(ctl, "Ended"))
       \/ ~ctl.stopped /\ ctl.seekGen # tickGen /\ Goto("top", ctl)
       \/ /\ ~ctl.stopped /\ ctl.seekGen = tickGen
          /\ Goto("done", SetState(ctl, "Ended")) \/ Goto("sleeping", ctl)

MayWake == ctl.policy.scheduleWhilePaused \/ ~ctl.paused \/ ctl.stopped

\* wait_while_paused; a stop seen there ends the session, a stop that
\* comes during the sleep is seen at the top.
Wake ==
    /\ phase = "sleeping"
    /\ MayWake
    /\ UNCHANGED tickGen
    /\ \/ ctl.stopped /\ Goto("done", SetState(ctl, "Ended"))
       \/ Goto("top", ctl)

\* An error of the manifest, of DRM or of a track.
Fail ==
    /\ phase \in {"refreshing", "periods"}
    /\ Goto("done", MarkError(ctl))
    /\ UNCHANGED tickGen

-----------------------------------------------------------------------------
(* The track streams of the current window.                                *)

BuildPeriodContext == phase = "periods" /\ Apply(SetLatencyControl(ctl, Live))

BeginStream == phase = "periods" /\ Apply(SetState(ctl, "Buffering"))

\* emit_segment
EmitSegment ==
    /\ phase = "periods"
    /\ \E tr \in Tracks, span \in Spans :
           LET recorded  == RecordSegmentDelivery(ctl, tr, span[1], span[2])
               steered   == ApplyLatencyControl(recorded, live)
               delivered == OnMediaDelivered(steered, tr)
           IN  Apply(UpdateStallState(delivered, EstimatedBuffer(delivered, tr)))

\* publish_buffer_estimate with advance_clock
ClockTick ==
    /\ phase = "periods"
    /\ \E tr \in Tracks, dt \in Elapsed :
           LET advanced  == AdvanceMediaClock(ctl, dt)
               published == UpdateStallState(advanced, EstimatedBuffer(advanced, tr))
           IN  Apply(IF advanced.playhead = ctl.playhead THEN published
                     ELSE ApplyLatencyControl(published, live))

\* Wall time moves the live edge.
LiveEdge ==
    /\ Live
    /\ live < MaxTime
    /\ live' = live + 1
    /\ UNCHANGED <<ctl, phase, tickGen, listening>>

-----------------------------------------------------------------------------
Host ==
    \/ Pause \/ Resume \/ Seek \/ SetTrackSelection \/ SetQualityConstraints
    \/ SetPlaybackRate \/ SetPausePolicy \/ Stop \/ Report \/ DropReceivers

RunLoop == Start \/ BeginTick \/ BeginPeriods \/ FinishTick \/ Wake \/ Fail

Streams == BuildPeriodContext \/ BeginStream \/ EmitSegment \/ ClockTick

Next == Host \/ RunLoop \/ Streams \/ LiveEdge

Spec == Init /\ [][Next]_vars

-----------------------------------------------------------------------------
TypeOK ==
    /\ ctl \in Controller
    /\ phase \in Phase
    /\ tickGen \in Nat
    /\ live \in Nat
    /\ listening \in BOOLEAN

(* The position that presentation_time() reports is the media clock: the   *)
(* two are written by different statements of seven methods.               *)
PlayheadIsClock == ctl.playhead = ctl.clock

(* The variables are what they are declared to be, and the two cells agree. *)
ClockInv == TypeOK /\ PlayheadIsClock

(* Once stop() was called the session never leaves Ended for anything but  *)
(* Error, whatever the run loop, the streams or the consumer still do.     *)
StopIsFinal == ctl.stopped => ctl.state \in {"Ended", "Error"}

(* While the paused flag is up the lifecycle state is never Playing nor    *)
(* LoadingManifest: no delivery, stall recovery or manifest refresh makes  *)
(* a paused session look as if it played.                                  *)
PausedNeverPlays == ctl.paused => ctl.state \notin {"Playing", "LoadingManifest"}

(* Wall time that passes while paused, stopped or seeking is never charged *)
(* to the media clock: no sample survives into those states.               *)
IdleTimeNotCharged ==
    ctl.wall => ~ctl.paused /\ ~ctl.stopped /\ ctl.state # "Seeking"

(* A session that the host has stopped or paused looks so, whatever the    *)
(* run loop and the streams publish, and its clock does not run.           *)
IdleStaysIdle == StopIsFinal /\ PausedNeverPlays /\ IdleTimeNotCharged

(* Playing needs media: playback started after the last interruption, the  *)
(* clock runs and some track reaches past the point it was at.             *)
PlayingHasMedia ==
    ctl.state = "Playing" => /\ ctl.hasStarted
                             /\ ctl.clock # NoTime
                             /\ DeliveredEnds(ctl) # {}

(* A running clock stands still while the session is paused or seeking,    *)
(* unless the host or latency control interrupts the streams.              *)
ClockFrozen ==
    [][ /\ (ctl.paused /\ ctl'.paused) \/ (ctl.state = "Seeking" /\ ctl'.state = "Seeking")
        /\ ctl'.seekGen = ctl.seekGen
        /\ ctl.clock # NoTime
        => ctl'.clock = ctl.clock ]_vars

(* A latency seek lands within Latency@max, and never moves back a session *)
(* that lags the target: the clock its decision was made on, which a short *)
(* track may just have pulled back, is not what bounds the jump.           *)
LatencySeekCatchesUp ==
    [][ Streams /\ ctl'.seekGen # ctl.seekGen =>
            /\ ~TooFarBehind(ctl'.playhead, live)
            /\ ctl.playhead # NoTime /\ ctl.playhead + LatencyTarget <= live
               => ctl'.playhead >= ctl.playhead ]_vars

(* Latency control never repositions a paused or stopped session: only the *)
(* host does.                                                              *)
IdleNotSteered ==
    [][ Streams /\ ~Consuming(ctl) => ctl'.seekGen = ctl.seekGen ]_vars

(* Latency control seeks when it may, and only to catch up.                *)
LatencyControlIsSound == LatencySeekCatchesUp /\ IdleNotSteered

-----------------------------------------------------------------------------
(* What the source says and the program does not do.                       *)

(* "Advance the media clock ... Caps at the earliest delivered-media end   *)
(* across tracks" (playback_control.rs, advance_media_clock): an advance   *)
(* does not rewind.                                                        *)
ClockNeverRewinds ==
    [][ ClockTick /\ ctl'.seekGen = ctl.seekGen /\ ctl.clock # NoTime
        => ctl'.clock >= ctl.clock ]_vars

(* "Ended: the manifest window is exhausted or playback was stopped",      *)
(* "Error: the pipeline failed" (PlaybackState): a session whose run loop  *)
(* has returned while the host still listened is in one of the two.        *)
SessionOverIsEnded == phase = "done" /\ listening => ctl.state \in {"Ended", "Error"}

(* "Avoid repeated max-latency seeks until latency recovers below @max"    *)
(* (latency_seek_armed): the latch is set again only when it did.          *)
LatencySeekLatched ==
    [][ ~ctl.armed /\ ctl'.armed /\ ctl.playhead # NoTime
        => ~TooFarBehind(ctl.playhead, live) ]_vars
=============================================================================
