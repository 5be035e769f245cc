------------------------- MODULE ControllerThreads -------------------------
(***************************************************************************)
(* The methods of the controller, cell by cell.  Natively the engine is a  *)
(* task of a multi-threaded runtime (platform/native.rs) and the host has  *)
(* threads of its own: what PlaybackControl takes as one step is a row of  *)
(* loads, stores and critical sections between which those of other        *)
(* threads fall.  A mutex is held across another step only by              *)
(* advance_media_clock.  Some accesses are one step here: the flags that   *)
(* are read or reset in a row, those of stall detection from the first to  *)
(* the last, and a seek's target with its generation.                      *)
(*                                                                         *)
(* A call is a stack of methods, each the steps that are left of it; a     *)
(* step that is the name of a lifecycle state sends that state.  Latency   *)
(* control is off.                                                         *)
(***************************************************************************)
EXTENDS PlaybackControl, Sequences

CONSTANTS
    Engine,       \* the thread that runs the engine's task
    Callers,      \* the host's threads
    Nobody,       \* holds a lock that is free
    Policies,     \* pause policies a session may have
    SeekTimes,    \* targets of the host's seeks
    Reports,      \* buffer levels the host reports
    MaxTime,      \* bound: where the media ends
    MaxCommands   \* bound: calls of the host

Threads == Callers \cup {Engine}

Lock == {"clock", "wall", "ends"}

ASSUME ThreadsAssumption ==
    /\ Engine \notin Callers /\ Nobody \notin Threads
    /\ Policies \subseteq PausePolicy
    /\ SeekTimes \subseteq Nat /\ Reports \subseteq Nat
    /\ MaxTime \in Nat /\ MaxCommands \in Nat

VARIABLES
    ctl,       \* the cells
    locks,     \* who holds a guard
    call,      \* per thread: what is left to do, and its local variables
    stream,    \* the track: its seek generation, and where its next segment starts
    commands,  \* calls of the host so far
    overlap,   \* observer: the last pause or stop began while the engine was in a call
    idle,      \* observer: idle time has passed since the clock's wall sample
    charged    \* observer: idle time was added to the clock, and no call about to prevent it

observers == <<overlap, idle, charged>>

vars == <<ctl, locks, call, stream, commands, observers>>

-----------------------------------------------------------------------------
(* The methods.                                                            *)

Pausing == <<"active", "raisePaused", "clearWall", "cancel", "Paused">>

\* A slip: the sample that a clock tick took meanwhile is left.
Resuming_KeepsWall == <<"active", "lowerPaused", "Buffering">>

Resuming == <<"active", "lowerPaused", "clearWall", "Buffering">>

Interrupting(state) ==
    <<"bumpSeekGen", "clearEnds", "resetFlags", "setClock", "clearWall", "publish", state>>

Seeking == <<"active">> \o Interrupting("Seeking")

Selecting == <<"active", "select", "resumeAt">> \o Interrupting("Buffering")

Stopping == <<"raiseStopped", "lowerPaused", "clearWall", "Ended">>

\* A slip: the flags are not looked at.
SettingState_Unchecked(state) == <<state>>

SettingState(state) == <<"unlessStopped", "unlessPaused", state>>

Advancing == <<"isRunning", "isPlaying", "lockClock", "sample", "move", "publish">>

Recording == <<"extendEnd", "startClock">>

Estimating == <<"readEnd", "readClock">>

Stalling == <<"isConsuming", "recover">>

OnMedia == <<"isConsuming", "isOpen", "startPlaying">>

\* publish_buffer_estimate; emit_segment behind the checks of the stream;
\* BufferFeedback::report.
Tick == <<Advancing, Estimating, Stalling>>

Emission == <<(<<"mayEmit">>), Recording, OnMedia, Estimating, Stalling>>

Report == <<(<<"resyncClock", "resyncEnd">>), Stalling>>

-----------------------------------------------------------------------------
(* Going through a call.                                                   *)

Busy(th) == call[th].todo # <<>>

Doing(th, step) == Busy(th) /\ Head(Head(call[th].todo)) = step

After(th) == <<Tail(Head(call[th].todo))>> \o Tail(call[th].todo)

\* The method returns; ends in another way; calls a method.
Returned(th) == Tail(call[th].todo)

Instead(th, steps) == <<steps>> \o Returned(th)

Calling(th, method) == <<method>> \o After(th)

NotEmpty(steps) == steps # <<>>

NoCall == [todo |-> <<>>, value |-> NoTime, buffer |-> 0]

\* The local variables go with the call.
Left(c, todo) ==
    LET left == SelectSeq(todo, NotEmpty)
    IN  IF left = <<>> THEN NoCall ELSE [c EXCEPT !.todo = left]

Goes(th, todo) == call' = [call EXCEPT ![th] = Left(@, todo)]

Free(lock) == locks[lock] = Nobody

\* A step that leaves the locks and what is observed alone.
Does(th, c, todo) ==
    /\ ctl' = c
    /\ Goes(th, todo)
    /\ UNCHANGED <<locks, stream, commands, observers>>

\* A step that goes on if the condition holds, or else in the other way.
Passes(th, condition, otherwise) ==
    Does(th, ctl, IF condition THEN After(th) ELSE otherwise)

Init ==
    /\ \E p \in Policies :
           ctl = [MarkStarted(NewController) EXCEPT !.policy = p, !.state = "Buffering"]
    /\ locks = [l \in Lock |-> Nobody]
    /\ call = [th \in Threads |-> NoCall]
    /\ stream = [gen |-> 0, next |-> 0]
    /\ commands = 0
    /\ overlap = FALSE /\ idle = FALSE /\ charged = FALSE

-----------------------------------------------------------------------------
(* Steps on one cell.                                                      *)

\* Every send of a lifecycle state.
Send(th) ==
    \E s \in PlaybackState : Doing(th, s) /\ Does(th, [ctl EXCEPT !.state = s], After(th))

\* require_active
RequireActive(th) == Doing(th, "active") /\ Passes(th, IsActive(ctl), <<>>)

Raise(th, c) ==
    /\ ctl' = c
    /\ overlap' = Busy(Engine)
    /\ Goes(th, After(th))
    /\ UNCHANGED <<locks, stream, commands, idle, charged>>

RaisePaused(th) == Doing(th, "raisePaused") /\ Raise(th, [ctl EXCEPT !.paused = TRUE])

RaiseStopped(th) == Doing(th, "raiseStopped") /\ Raise(th, [ctl EXCEPT !.stopped = TRUE])

LowerPaused(th) == Doing(th, "lowerPaused") /\ Does(th, [ctl EXCEPT !.paused = FALSE], After(th))

ClearWall(th) ==
    /\ Doing(th, "clearWall") /\ Free("wall")
    /\ Does(th, [ctl EXCEPT !.wall = FALSE], After(th))

CancelFetches(th) ==
    /\ Doing(th, "cancel")
    /\ LET cancels == ~ctl.policy.scheduleWhilePaused /\ ctl.policy.cancelInflight
       IN  Does(th, IF cancels THEN [ctl EXCEPT !.fetchCancel = @ + 1] ELSE ctl, After(th))

Select(th) ==
    /\ Doing(th, "select")
    /\ Does(th, [ctl EXCEPT !.newSelection = TRUE], After(th))

BumpSeekGen(th) ==
    /\ Doing(th, "bumpSeekGen")
    /\ Does(th, [ctl EXCEPT !.seekTarget = call[th].value, !.seekGen = @ + 1], After(th))

ClearEnds(th) ==
    /\ Doing(th, "clearEnds") /\ Free("ends")
    /\ Does(th, [ctl EXCEPT !.ends = NoEnds], After(th))

ResetFlags(th) ==
    /\ Doing(th, "resetFlags")
    /\ Does(th, [ctl EXCEPT !.healthy = FALSE, !.hasStarted = FALSE], After(th))

SetClock(th) ==
    /\ Doing(th, "setClock") /\ Free("clock")
    /\ Does(th, [ctl EXCEPT !.clock = call[th].value], After(th))

PublishPlayhead(th) ==
    /\ Doing(th, "publish")
    /\ Does(th, [ctl EXCEPT !.playhead = call[th].value], After(th))

UnlessStopped(th) == Doing(th, "unlessStopped") /\ Passes(th, ~ctl.stopped, Returned(th))

UnlessPaused(th) == Doing(th, "unlessPaused") /\ Passes(th, ~ctl.paused, Returned(th))

IsRunning(th) == Doing(th, "isRunning") /\ Passes(th, Consuming(ctl), Instead(th, <<"clearWall">>))

IsPlaying(th) ==
    Doing(th, "isPlaying") /\ Passes(th, ctl.state = "Playing", Instead(th, <<"clearWall">>))

IsConsuming(th) == Doing(th, "isConsuming") /\ Passes(th, Consuming(ctl), Returned(th))

\* The last checks of the stream.
MayEmit(th) ==
    /\ Doing(th, "mayEmit")
    /\ LET delivers == ~ctl.paused \/ ctl.policy.scheduleWhilePaused
       IN  Passes(th, ~ctl.stopped /\ ctl.seekGen = stream.gen /\ delivers, <<>>)

-----------------------------------------------------------------------------
(* Steps that leave something in a local variable.                         *)

Learns(th, local, c, todo) ==
    /\ ctl' = c
    /\ call' = [call EXCEPT ![th] = Left(local, todo)]
    /\ UNCHANGED <<locks, stream, commands, observers>>

IsOpen(th) ==
    /\ Doing(th, "isOpen")
    /\ Does(th, ctl, IF ctl.state \in {"Seeking", "Ended", "Error"} THEN Returned(th)
                     ELSE Calling(th, Estimating))

\* interrupt_streams_from_playhead
ResumeAt(th) ==
    /\ Doing(th, "resumeAt")
    /\ Learns(th, [call[th] EXCEPT !.value = IF ctl.playhead = NoTime THEN 0 ELSE ctl.playhead],
              ctl, After(th))

ReadEnd(th) ==
    /\ Doing(th, "readEnd") /\ Free("ends")
    /\ \E t \in Tracks :
           Learns(th, [call[th] EXCEPT !.value = ctl.ends[t], !.buffer = 0], ctl,
                  IF ctl.ends[t] = NoTime THEN Returned(th) ELSE After(th))

ReadClock(th) ==
    /\ Doing(th, "readClock") /\ Free("clock")
    /\ LET end == call[th].value
       IN  Learns(th, [call[th] EXCEPT !.buffer =
                          IF ctl.clock = NoTime \/ end < ctl.clock THEN 0 ELSE end - ctl.clock],
                  ctl, After(th))

\* The rest of on_media_delivered.
StartPlaying(th) ==
    /\ Doing(th, "startPlaying")
    /\ IF ctl.hasStarted \/ call[th].buffer = 0
       THEN Does(th, ctl, Instead(th, Stalling))
       ELSE Does(th, [ctl EXCEPT !.hasStarted = TRUE],
                 Instead(th, IF call[th].buffer < HealthyBuffer THEN <<"Playing">>
                             ELSE <<"Playing", "healthy">>))

MarkHealthy(th) == Doing(th, "healthy") /\ Does(th, [ctl EXCEPT !.healthy = TRUE], After(th))

\* The rest of update_stall_state.
Recover(th) ==
    /\ Doing(th, "recover")
    /\ LET buffer  == call[th].buffer
           healthy == ctl.healthy \/ buffer >= HealthyBuffer
       IN  IF ctl.state \notin {"Buffering", "Playing"} THEN Does(th, ctl, Returned(th))
           ELSE IF buffer = 0 /\ healthy
           THEN Does(th, [ctl EXCEPT !.healthy = FALSE], Instead(th, <<"clearWall", "Buffering">>))
           ELSE IF ctl.state = "Buffering" /\ buffer >= MinBuffer
           THEN Does(th, [ctl EXCEPT !.healthy = healthy, !.hasStarted = TRUE],
                     Instead(th, <<"Playing">>))
           ELSE Does(th, [ctl EXCEPT !.healthy = healthy], Returned(th))

-----------------------------------------------------------------------------
(* record_segment_delivery and resync_media_clock_from_buffer: each lock   *)
(* is released before the next is taken.                                   *)

\* A slip: the guard of the ends lives until the method returns.
ExtendEnd_KeepsGuard(th) ==
    /\ Doing(th, "extendEnd") /\ Free("ends")
    /\ \E t \in Tracks :
           ctl' = [ctl EXCEPT !.ends[t] = IF @ = NoTime THEN stream.next + 1
                                          ELSE Larger(@, stream.next + 1)]
    /\ stream' = [stream EXCEPT !.next = @ + 1]
    /\ locks' = [locks EXCEPT !["ends"] = th]
    /\ call' = [call EXCEPT ![th] = Left([@ EXCEPT !.value = stream.next], After(th))]
    /\ UNCHANGED <<commands, observers>>

ExtendEnd(th) ==
    /\ Doing(th, "extendEnd") /\ Free("ends")
    /\ \E t \in Tracks :
           ctl' = [ctl EXCEPT !.ends[t] = IF @ = NoTime THEN stream.next + 1
                                          ELSE Larger(@, stream.next + 1)]
    /\ stream' = [stream EXCEPT !.next = @ + 1]
    /\ call' = [call EXCEPT ![th] = Left([@ EXCEPT !.value = stream.next], After(th))]
    /\ UNCHANGED <<locks, commands, observers>>

StartClock(th) ==
    /\ Doing(th, "startClock") /\ Free("clock")
    /\ IF ctl.clock # NoTime THEN Does(th, ctl, Returned(th))
       ELSE Does(th, [ctl EXCEPT !.clock = call[th].value], Instead(th, <<"clearWall", "publish">>))

ResyncClock(th) ==
    /\ Doing(th, "resyncClock") /\ Free("clock")
    /\ LET steps == IF ctl.clock = NoTime THEN <<"clearWall", "publish">> ELSE <<"clearWall">>
           now   == IF ctl.clock = NoTime THEN 0 ELSE ctl.clock
       IN  Learns(th, [call[th] EXCEPT !.value = now], [ctl EXCEPT !.clock = now],
                  Calling(th, steps))

ResyncEnd(th) ==
    /\ Doing(th, "resyncEnd") /\ Free("ends")
    /\ \E t \in Tracks :
           Does(th, [ctl EXCEPT !.ends[t] = call[th].value + call[th].buffer], After(th))

-----------------------------------------------------------------------------
(* advance_media_clock: the guards of clock and wall sample are held to    *)
(* the end.                                                                *)

LockClock(th) ==
    /\ Doing(th, "lockClock") /\ Free("clock")
    /\ locks' = IF ctl.clock = NoTime THEN locks ELSE [locks EXCEPT !["clock"] = th]
    /\ Goes(th, IF ctl.clock = NoTime THEN Returned(th) ELSE After(th))
    /\ UNCHANGED <<ctl, stream, commands, observers>>

\* No sample to measure from, or no time since; else what has passed counts.
Sample(th) ==
    /\ Doing(th, "sample") /\ Free("wall")
    /\ ctl' = [ctl EXCEPT !.wall = TRUE]
    /\ idle' = FALSE
    /\ \/ /\ locks' = [locks EXCEPT !["clock"] = Nobody]
          /\ Goes(th, Returned(th))
          /\ UNCHANGED charged
       \/ /\ ctl.wall
          /\ locks' = [locks EXCEPT !["wall"] = th]
          /\ Goes(th, After(th))
          /\ charged' = (charged \/ (idle /\ \A c \in Callers : ~Doing(c, "clearWall")))
    /\ UNCHANGED <<stream, commands, overlap>>

Move(th) ==
    /\ Doing(th, "move") /\ Free("ends")
    /\ locks' = [locks EXCEPT !["clock"] = Nobody, !["wall"] = Nobody]
    /\ LET t == CappedTo(DeliveredEnds(ctl), ctl.clock + 1)
       IN  /\ ctl' = [ctl EXCEPT !.clock = t]
           /\ call' = [call EXCEPT ![th] =
                  Left([@ EXCEPT !.value = t],
                       IF t = ctl.clock THEN Returned(th) ELSE After(th))]
    /\ UNCHANGED <<stream, commands, observers>>

-----------------------------------------------------------------------------
(* Calls, and time.                                                        *)

Begin(th, local, methods) ==
    /\ ~Busy(th)
    /\ call' = [call EXCEPT ![th] = [local EXCEPT !.todo = methods]]
    /\ UNCHANGED <<ctl, locks, stream, observers>>

SetsState ==
    \E s \in {"LoadingManifest", "Buffering"} :
        Begin(Engine, NoCall, <<SettingState(s)>>) /\ UNCHANGED commands

\* Without delivered ends nothing caps the clock.
Ticks ==
    /\ ctl.clock \in {NoTime} \cup 0..MaxTime
    /\ Begin(Engine, NoCall, Tick)
    /\ UNCHANGED commands

Emits == stream.next < MaxTime /\ Begin(Engine, NoCall, Emission) /\ UNCHANGED commands

\* The tick after an interruption.
Restarts ==
    /\ ~Busy(Engine) /\ ~ctl.stopped
    /\ ctl.seekGen # stream.gen /\ ctl.seekTarget # NoTime
    /\ stream' = [gen |-> ctl.seekGen, next |-> ctl.seekTarget]
    /\ ctl' = TakePending(ctl)
    /\ UNCHANGED <<locks, call, commands, observers>>

Command(th, local, methods) ==
    /\ commands < MaxCommands
    /\ commands' = commands + 1
    /\ Begin(th, local, methods)

Pauses(th) == Command(th, NoCall, <<Pausing>>)

Resumes(th) == Command(th, NoCall, <<Resuming>>)

Seeks(th) == \E t \in SeekTimes : Command(th, [NoCall EXCEPT !.value = t], <<Seeking>>)

Selects(th) == Command(th, NoCall, <<Selecting>>)

Stops(th) == Command(th, NoCall, <<Stopping>>)

FeedsBack(th) == \E b \in Reports : Command(th, [NoCall EXCEPT !.buffer = b], Report)

\* The host has paused or stopped and waits, so long that the engine gets out
\* of the call which it was in.
TimePassesIdle ==
    /\ ctl.wall /\ ~idle /\ ~Consuming(ctl)
    /\ \A th \in Threads : ~Busy(th)
    /\ idle' = TRUE
    /\ UNCHANGED <<ctl, locks, call, stream, commands, overlap, charged>>

-----------------------------------------------------------------------------
Step(th) ==
    \/ Send(th) \/ RequireActive(th) \/ RaisePaused(th) \/ RaiseStopped(th) \/ LowerPaused(th)
    \/ ClearWall(th) \/ CancelFetches(th) \/ BumpSeekGen(th) \/ ClearEnds(th) \/ ResetFlags(th)
    \/ SetClock(th) \/ PublishPlayhead(th) \/ UnlessStopped(th) \/ UnlessPaused(th)
    \/ IsRunning(th) \/ IsPlaying(th) \/ IsConsuming(th) \/ MayEmit(th)
    \/ Select(th) \/ ResumeAt(th) \/ IsOpen(th) \/ ReadEnd(th) \/ ReadClock(th) \/ StartPlaying(th)
    \/ MarkHealthy(th) \/ Recover(th) \/ ExtendEnd(th) \/ StartClock(th) \/ ResyncClock(th)
    \/ ResyncEnd(th) \/ LockClock(th) \/ Sample(th) \/ Move(th)

EngineCalls == SetsState \/ Ticks \/ Emits \/ Restarts

HostCalls(th) ==
    Pauses(th) \/ Resumes(th) \/ Seeks(th) \/ Selects(th) \/ Stops(th) \/ FeedsBack(th)

Next ==
    \/ EngineCalls
    \/ TimePassesIdle
    \/ \E th \in Callers : HostCalls(th)
    \/ \E th \in Threads : Step(th)

Spec == Init /\ [][Next]_vars

-----------------------------------------------------------------------------
TypeOK ==
    /\ ctl \in Controller
    /\ locks \in [Lock -> Threads \cup {Nobody}]
    /\ \A th \in Threads :
           /\ call[th].value \in OptTime /\ call[th].buffer \in Nat
           /\ \A i \in DOMAIN call[th].todo : call[th].todo[i] # <<>>
    /\ stream \in [gen : Nat, next : Nat]
    /\ commands \in 0..MaxCommands
    /\ {overlap, idle, charged} \subseteq BOOLEAN

(* Time that the host spends paused or stopped is not added to the clock,  *)
(* though a tick that overlaps the pause may take a wall sample behind its *)
(* back (playback_control.rs:783): resume() clears it.  Only between its   *)
(* two steps may a tick slip in.                                           *)
IdleNotCharged == ~charged

HostWaits == \A th \in Callers : ~Busy(th)

(* A session that was paused or stopped looks so once the call returned,   *)
(* unless the engine was in a call of its own when it was: no call of the  *)
(* engine that begins later revives it, and none does so through the flags *)
(* it read in another order (playback_control.rs:1010).                    *)
RevivedOnlyByOverlap ==
    HostWaits /\ ~overlap =>
        /\ ctl.stopped => ctl.state \in {"Ended", "Error"}
        /\ ctl.paused => ctl.state \notin {"Playing", "LoadingManifest"}

(* Calls never all wait for mutexes, of one another or of their own: while *)
(* one is held some call goes on, and as no step leads back to an earlier  *)
(* one they all return (playback_control.rs:800).                          *)
SomeCallGoesOn == (\E l \in Lock : ~Free(l)) => ENABLED (\E th \in Threads : Step(th))

ThreadsInv == TypeOK /\ IdleNotCharged /\ RevivedOnlyByOverlap /\ SomeCallGoesOn

-----------------------------------------------------------------------------
(* What the source says and threads do not keep.                           *)

(* "Stop playback ... state becomes Ended" (playback_control.rs:522): a    *)
(* set_state that has read the flag sends behind it.                       *)
StopEnds == HostWaits /\ ctl.stopped => ctl.state \in {"Ended", "Error"}

(* "Advance the media clock while Playing using wall time"                 *)
(* (playback_control.rs:781): resume() lowers the flag before it clears    *)
(* the wall sample, and a tick in between counts the pause.                *)
IdleNeverCounts == [][ idle => locks'["wall"] = Nobody ]_vars

(* The published playhead is the clock: two writers of both may leave each *)
(* the one of the other.                                                   *)
PlayheadSettles == (\A th \in Threads : ~Busy(th)) => ctl.playhead = ctl.clock

(* Delivered ends are of the position sought: an emission that has read    *)
(* the generation extends the ends which the seek has cleared.             *)
EndsAreSought ==
    (\A th \in Threads : ~Busy(th)) /\ ctl.seekTarget # NoTime => DeliveredEnds(ctl) = {}
=============================================================================
