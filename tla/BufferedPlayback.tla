-------------------------- MODULE BufferedPlayback --------------------------
(***************************************************************************)
(* How the tracks of a static presentation pace each other through the     *)
(* media clock.  A stream asks for more media while its estimated buffer   *)
(* is below its high-water mark (schedule/buffer_target.rs); the buffer    *)
(* drains as the clock runs; the clock stops at the smallest delivered end *)
(* of all tracks, those that have finished included; and the next Period   *)
(* starts when all streams of this one have returned.                      *)
(*                                                                         *)
(* Latency control is off, as it is for static presentations, and the host *)
(* reports no buffer levels: PlaybackSession has both.  A request always   *)
(* succeeds: AdaptationStream and SegmentFetch tell what else it may do.   *)
(***************************************************************************)
EXTENDS PlaybackControl, Sequences

CONSTANTS
    Presentations,     \* what may be played: see Presentation
    DefaultMaxBuffer,  \* DEFAULT_BUFFER_MAX_S
    CapacitySegments,  \* BUFFER_CAPACITY_SEGMENTS
    MaxParallel,       \* MAX_PARALLEL_SEGMENT_FETCHES
    MaxSince,          \* bound: media time between two samples of the wall clock
    MaxCommands        \* bound: commands of the host

\* Per Period and track the boundaries of its media segments, which follow
\* each other; for a track without media in the Period, where its media ended
\* before.  Then the positions the host may seek to; its pause policies.
Presentation ==
    [ cuts : Seq([Tracks -> Seq(Nat)]),
      seekTimes : SUBSET Nat,
      policies : SUBSET PausePolicy ]

\* The media of a track begins with the presentation, and that of a Period not
\* behind what the one before had; StreamController has the seeks to nowhere.
WellFormed(s) ==
    /\ s \in Presentation /\ s.cuts # <<>>
    /\ \A t \in Tracks :
           /\ \A p \in DOMAIN s.cuts :
                  /\ s.cuts[p][t] # <<>>
                  /\ \A i, j \in DOMAIN s.cuts[p][t] : i <= j => s.cuts[p][t][i] <= s.cuts[p][t][j]
                  /\ p > 1 => s.cuts[p][t][1] <= s.cuts[p - 1][t][Len(s.cuts[p - 1][t])]
           /\ s.cuts[1][t][1] = 0
    /\ \A to \in s.seekTimes : \E p \in DOMAIN s.cuts, t \in Tracks :
           to < s.cuts[p][t][Len(s.cuts[p][t])]

ASSUME PacingAssumption ==
    /\ \A s \in Presentations : WellFormed(s)
    /\ DefaultMaxBuffer \in Nat \ {0}
    /\ CapacitySegments \in Nat
    /\ MaxParallel \in Nat \ {0}
    /\ MaxSince \in Nat
    /\ MaxCommands \in Nat

VARIABLES
    show,      \* the presentation
    ctl,       \* the controller
    loop,      \* the run loop: its Period and the seek generation of the tick
    stream,    \* per track, the locals of run_adaptation_stream
    since,     \* media time since the clock's last sample of the wall clock
    commands,  \* commands the host has given
    furthest,  \* observer: how far the clock got since the last interruption
    dropped    \* observer: media per track that pauses have thrown away since

vars == <<show, ctl, loop, stream, since, commands, furthest, dropped>>

Place == {"head", "download", "result", "decrypt", "returned"}

Over == loop.period = 0

-----------------------------------------------------------------------------
(* The list of a track in a Period.                                        *)

Cuts(p, t) == show.cuts[p][t]

Count(p, t) == Len(Cuts(p, t)) - 1

TrackEnd(p, t) == Cuts(p, t)[Len(Cuts(p, t))]

Length(p, t, i) == Cuts(p, t)[i + 1] - Cuts(p, t)[i]

Least(S) == CHOOSE i \in S : \A j \in S : i <= j

\* "The first segment whose interval still contains instants after target",
\* or the first of all.
StartIndex(p, t, target) ==
    LET after == {i \in 1..Count(p, t) : Cuts(p, t)[i + 1] > target}
    IN  IF after = {} THEN 1 ELSE Least(after)

\* nominal_segment_duration_s: the mean of what is left to play.
Nominal(p, t, first) ==
    IF Count(p, t) = 0 THEN 0
    ELSE (TrackEnd(p, t) - Cuts(p, t)[first]) \div (Count(p, t) + 1 - first)

\* BufferTarget::with_segment_duration
HighWater(nominal) ==
    Larger(Larger(nominal * CapacitySegments, DefaultMaxBuffer), MinBuffer + nominal)

-----------------------------------------------------------------------------
(* The gate.                                                               *)

\* A slip: the segment that would fill the buffer still fits.
ShouldFetch_PastTheMark(s, buffer, delivered) ==
    delivered = 0 \/ buffer < MinBuffer \/ buffer <= s.high

ShouldFetch(s, buffer, delivered) ==
    delivered = 0 \/ buffer < MinBuffer \/ buffer < s.high

\* prefetch_batch_len: its loop asks about the buffer before the batch only.
BatchLen(s, buffer, remaining) ==
    LET most == IF s.delivered = 0 THEN 1 ELSE MaxParallel
    IN  IF ~ShouldFetch(s, buffer, s.delivered) THEN 0
        ELSE IF remaining < most THEN remaining ELSE most

\* A slip: the clock is not advanced while a track waits.
Ticked_Standing(t) == {UpdateStallState(ctl, EstimatedBuffer(ctl, t))}

\* publish_buffer_estimate with advance_clock: the controller it leaves.  (A
\* set of one, here and below, so that each call of a chain is evaluated once.)
Ticked(t) ==
    {UpdateStallState(c, EstimatedBuffer(c, t)) : c \in {AdvanceMediaClock(ctl, since)}}

\* emit_segment
Emitted(t, start, end) ==
    {UpdateStallState(c, EstimatedBuffer(c, t)) :
        c \in {OnMediaDelivered(r, t) : r \in {RecordSegmentDelivery(ctl, t, start, end)}}}

\* wait_while_paused lets the caller through.
MayProceed == ~ctl.paused \/ ctl.policy.scheduleWhilePaused \/ ctl.stopped

Interrupted == ctl.stopped \/ ctl.seekGen # loop.gen

-----------------------------------------------------------------------------
\* A step of the controller: what is left of the time since its sample, and
\* what the observer sees.
Steer(c, left) ==
    /\ ctl' = c
    /\ since' = IF c.wall THEN left ELSE 0
    /\ furthest' = IF c.clock = NoTime THEN 0
                   ELSE IF c.seekGen # ctl.seekGen THEN c.clock
                   ELSE Larger(furthest, c.clock)

NothingDropped == [t \in Tracks |-> 0]

Goto(t, place) == stream' = [stream EXCEPT ![t].at = place]

\* The streams of a Period begin: all of them before the first await of any.
Entering(p, target) ==
    [t \in Tracks |->
        LET first == StartIndex(p, t, target)
        IN  [ at |-> "head", next |-> first, delivered |-> 0, batch |-> 0,
              high |-> HighWater(Nominal(p, t, first)) ]]

Init ==
    /\ show \in Presentations
    /\ ctl = SetState(MarkStarted(NewController), "Buffering")
    /\ loop = [period |-> 1, gen |-> 0, target |-> 0]
    /\ stream = Entering(1, 0)
    /\ since = 0
    /\ commands = 0
    /\ furthest = 0
    /\ dropped = NothingDropped

-----------------------------------------------------------------------------
(* A track stream, from one await to the next.                             *)

WindowEnds(t) ==
    /\ stream[t].at = "head"
    /\ stream[t].next > Count(loop.period, t)
    /\ Goto(t, "returned")
    /\ UNCHANGED <<show, ctl, loop, since, commands, furthest, dropped>>

\* A stop or a seek is seen once the pause gate lets through, and after
\* every await of a batch.
Leave(t) ==
    /\ Interrupted
    /\ \/ stream[t].at = "head" /\ MayProceed /\ stream[t].next <= Count(loop.period, t)
       \/ stream[t].at \in {"result", "decrypt"}
    /\ Goto(t, "returned")
    /\ UNCHANGED <<show, ctl, loop, since, commands, furthest, dropped>>

\* One round of wait_for_fetch_capacity, and the batch it lets through.
WaitForCapacity(t) ==
    /\ stream[t].at = "head"
    /\ stream[t].next <= Count(loop.period, t)
    /\ MayProceed
    /\ ~Interrupted
    /\ \E c \in Ticked(t) :
           LET len == BatchLen(stream[t], EstimatedBuffer(c, t),
                               Count(loop.period, t) + 1 - stream[t].next)
           IN  /\ Steer(c, 0)
               /\ stream' = IF len = 0 THEN stream
                            ELSE [stream EXCEPT ![t].at = "download", ![t].batch = len]
    /\ UNCHANGED <<show, loop, commands, dropped>>

\* with_media_clock_ticks; or the tick of a wait that was interrupted at its
\* pause gate, behind which it does not look again.
ClockTick(t) ==
    /\ \/ stream[t].at = "download"
       \/ stream[t].at = "head" /\ stream[t].next <= Count(loop.period, t) /\ MayProceed /\ Interrupted
    /\ \E c \in Ticked(t) : Steer(c, 0)
    /\ UNCHANGED <<show, loop, stream, commands, dropped>>

Downloaded(t) ==
    /\ stream[t].at = "download"
    /\ Goto(t, "result")
    /\ UNCHANGED <<show, ctl, loop, since, commands, furthest, dropped>>

\* An interruption may come behind the check as well, at the pause gate.
UseResult(t) ==
    /\ stream[t].at = "result"
    /\ MayProceed
    /\ Goto(t, "decrypt")
    /\ UNCHANGED <<show, ctl, loop, since, commands, furthest, dropped>>

\* The segment is delivered, or dropped by a pause that came meanwhile.
EmitSegment(t) ==
    /\ stream[t].at = "decrypt"
    /\ ~Interrupted
    /\ LET s     == stream[t]
           drops == ctl.paused /\ ~ctl.policy.scheduleWhilePaused
           cut   == Cuts(loop.period, t)
       IN  /\ \E c \in IF drops THEN {ctl} ELSE Emitted(t, cut[s.next], cut[s.next + 1]) :
                  Steer(c, since)
           /\ stream' = [stream EXCEPT
                  ![t] = [s EXCEPT !.at = IF s.batch = 1 THEN "head" ELSE "result",
                                   !.next = @ + 1, !.batch = @ - 1,
                                   !.delivered = IF drops THEN @ ELSE @ + 1]]
           /\ dropped' = IF drops THEN [dropped EXCEPT ![t] = @ + Length(loop.period, t, s.next)]
                         ELSE dropped
    /\ UNCHANGED <<show, loop, commands>>

-----------------------------------------------------------------------------
(* The run loop, when all streams of the Period have returned.             *)

AllReturned == \A t \in Tracks : stream[t].at = "returned"

PeriodAt(target) ==
    Least({p \in DOMAIN show.cuts : \E t \in Tracks : TrackEnd(p, t) > target})

Enter(p, gen, target, c) ==
    /\ \E b \in {SetState(c, "Buffering")} : Steer(b, since)
    /\ loop' = [period |-> p, gen |-> gen, target |-> target]
    /\ stream' = Entering(p, target)
    /\ UNCHANGED show

NextPeriod ==
    /\ ~Over /\ AllReturned /\ ~Interrupted
    /\ loop.period < Len(show.cuts)
    /\ Enter(loop.period + 1, loop.gen, loop.target, ctl)
    /\ UNCHANGED <<commands, dropped>>

\* The tick after a seek: refresh, take the target, skip what is before it.
Restart ==
    /\ ~Over /\ AllReturned /\ ~ctl.stopped
    /\ ctl.seekGen # loop.gen
    /\ LET target == IF ctl.seekTarget = NoTime THEN loop.target ELSE ctl.seekTarget
       IN  Enter(PeriodAt(target), ctl.seekGen, target,
                 TakePending(SetState(ctl, "LoadingManifest")))
    /\ UNCHANGED <<commands, dropped>>

Finish ==
    /\ ~Over /\ AllReturned
    /\ ctl.stopped \/ (~Interrupted /\ loop.period = Len(show.cuts))
    /\ Steer(SetState(ctl, "Ended"), 0)
    /\ loop' = [loop EXCEPT !.period = 0]
    /\ UNCHANGED <<show, stream, commands, dropped>>

-----------------------------------------------------------------------------
(* The host and time.                                                      *)

Command(c) ==
    /\ ~Over
    /\ IsActive(ctl)
    /\ commands < MaxCommands
    /\ commands' = commands + 1
    /\ Steer(c, since)
    /\ dropped' = IF c.seekGen # ctl.seekGen THEN NothingDropped ELSE dropped
    /\ UNCHANGED <<show, loop, stream>>

Pause == Command(DoPause(ctl))

Resume == Command(DoResume(ctl))

Seek == \E to \in show.seekTimes : Command(DoSeek(ctl, to))

Stop == Command(DoStop(ctl))

SetPausePolicy == \E p \in show.policies : Command([ctl EXCEPT !.policy = p])

\* Time matters once there is a sample to measure it from.
TimePasses ==
    /\ ctl.wall /\ ~Over
    /\ since < MaxSince
    /\ since' = since + 1
    /\ UNCHANGED <<show, ctl, loop, stream, commands, furthest, dropped>>

-----------------------------------------------------------------------------
Host == Pause \/ Resume \/ Seek \/ Stop \/ SetPausePolicy

StreamStep(t) ==
    \/ WindowEnds(t) \/ Leave(t) \/ WaitForCapacity(t)
    \/ Downloaded(t) \/ UseResult(t) \/ EmitSegment(t)

RunLoop == NextPeriod \/ Restart \/ Finish

Next ==
    \/ Host \/ RunLoop \/ TimePasses
    \/ \E t \in Tracks : StreamStep(t) \/ ClockTick(t)

Fairness ==
    /\ WF_vars(RunLoop)
    /\ WF_vars(TimePasses)
    /\ \A t \in Tracks : WF_vars(StreamStep(t))

Spec == Init /\ [][Next]_vars /\ Fairness

-----------------------------------------------------------------------------
TypeOK ==
    /\ show \in Presentations
    /\ ctl \in Controller
    /\ loop \in [period : 0..Len(show.cuts), gen : 0..MaxCommands, target : Nat]
    /\ \A t \in Tracks :
           /\ stream[t].at \in Place
           /\ stream[t].batch \in 0..MaxParallel
           /\ stream[t].next \in Nat \ {0} /\ {stream[t].delivered, stream[t].high} \subseteq Nat
    /\ since \in 0..MaxSince
    /\ commands \in 0..MaxCommands
    /\ furthest \in Nat
    /\ dropped \in [Tracks -> Nat]

\* The high-water marks of a track, and the lengths of its segments.
Marks(t) ==
    {DefaultMaxBuffer} \cup
    UNION {{HighWater(Nominal(p, t, i)) : i \in 1..Count(p, t)} : p \in DOMAIN show.cuts}

Lengths(t) == UNION {{Length(p, t, i) : i \in 1..Count(p, t)} : p \in DOMAIN show.cuts}

\* A track ends within a full buffer and n segments of the clock.
Leads(t, n) ==
    \E mark \in Marks(t), len \in Lengths(t) :
        ctl.ends[t] < furthest + mark + n * len + dropped[t]

(* No track is fetched further ahead of the clock than its high-water mark *)
(* and a batch, however the tracks, pauses and seeks interleave: neither   *)
(* the buffer of another track nor what a batch has under way counts as    *)
(* room.  Every Period adds one segment, which is fetched whatever the     *)
(* buffer.                                                                 *)
LeadIsBounded ==
    \A t \in Tracks : ctl.ends[t] # NoTime => Leads(t, MaxParallel + Len(show.cuts) - 1)

PacingInv == TypeOK /\ LeadIsBounded

\* No track has to start a segment while the clock is held back by more than
\* a full buffer, at the end of the media of another.
Level ==
    \A p \in DOMAIN show.cuts : \A t, u \in Tracks :
        Count(p, t) > 0 => Cuts(p, t)[Count(p, t)] < TrackEnd(p, u) + DefaultMaxBuffer

\* A pause has thrown away the last media of a track, which ends early by it.
CutShort(t) ==
    /\ stream[t].at = "returned" /\ dropped[t] > 0
    /\ ctl.ends[t] = NoTime \/ ctl.ends[t] < TrackEnd(loop.period, t)

(* Tracks do not wait for each other for ever: the session gets to its     *)
(* end, unless the host leaves it paused or a pause has cut a track short. *)
TracksFinish ==
    Level => <>Over \/ <>[]ctl.paused \/ <>[](~Over /\ \E t \in Tracks : CutShort(t))

-----------------------------------------------------------------------------
(* What the source says and the program does not do.                       *)

(* "Downloads pause when the consumer buffer is full" (buffer_target.rs):  *)
(* also where a Period begins.                                             *)
CeilingHolds == \A t \in Tracks : ctl.ends[t] # NoTime => Leads(t, MaxParallel)

(* The same of any presentation: a track that has ended holds back the     *)
(* clock, and with it the others.                                          *)
AnyTracksFinish == <>Over \/ <>[]ctl.paused
=============================================================================
