--------------------------- MODULE AdaptationStream ---------------------------
(***************************************************************************)
(* The fragment loop of one track (schedule/adaptation_stream.rs) under    *)
(* the run loop that restarts it at every manifest snapshot                *)
(* (stream_controller/mod.rs) and the host commands that land between any  *)
(* two of its awaits.  One period; a segment is delivered whole, or in     *)
(* CMAF chunks when the stream is low-latency.  Every value of stream.at   *)
(* names an await of the code, so that one step runs from one await to the *)
(* next.                                                                   *)
(***************************************************************************)
EXTENDS DeliveredSegments, FiniteSets

CONSTANTS
    Kinds,          \* a sequence of presentations, each with its host (see Kind)
    NoTime,         \* None of an Option<Duration>
    MaxParallel     \* MAX_PARALLEL_SEGMENT_FETCHES

\* What a presentation and its host are like.
Kind ==
    [ last: Nat \ {0},          \* segments of the presentation
      chunks: Nat \ {0},        \* chunks a segment is delivered in: 1 unless low-latency
      lowLatency: BOOLEAN,      \* segments are fetched chunked
      top: Nat,                 \* highest quality index of the ladder
      live: BOOLEAN,            \* dynamic presentation: segments appear one by one
      openEnded: BOOLEAN,       \* duration-template live: the window grows by itself
      delay: Nat,               \* of the live target behind the edge, in segments
      sharedFile: BOOLEAN,      \* the SegmentURLs are byte ranges of one file
      policies: SUBSET [scheduleWhilePaused: BOOLEAN, cancelInflight: BOOLEAN],
      seekTimes: SUBSET Nat,    \* positions the host may seek to
      failures: BOOLEAN,        \* requests may fail
      interrupts: Nat,          \* bound: seek generations
      cancels: Nat ]            \* bound: fetch cancel generations

ASSUME StreamAssumption ==
    /\ MaxParallel \in Nat \ {0} /\ NoTime \notin Nat
    /\ \A k \in DOMAIN Kinds : Kinds[k] \in Kind /\ (Kinds[k].lowLatency \/ Kinds[k].chunks = 1)

VARIABLES
    kind,     \* which presentation this is
    host,     \* the flags of the playback controller
    loop,     \* the run loop: where it is, and its current tick
    edge,     \* segments published so far
    session,  \* TrackSessionState: survives the ticks
    stream,   \* the locals of run_adaptation_stream
    out,      \* parts delivered since the session was last reset
    dropped   \* parts thrown away by a pause since then

vars == <<kind, host, loop, edge, session, stream, out, dropped>>

Last == Kinds[kind].last
Chunks == Kinds[kind].chunks
Live == Kinds[kind].live
OpenEnded == Kinds[kind].openEnded
Failures == Kinds[kind].failures

Segment(n) ==
    [ key |-> n, start |-> n - 1, dur |-> 1,
      url |-> IF Kinds[kind].sharedFile THEN "bundle" ELSE NoUrl ]

Timeline == [n \in 1 .. Last |-> Segment(n)]

PartOf(n, chunk) == (n - 1) * Chunks + chunk

Delivered(n) == IsDelivered(session.tracker, Segment(n), 0)

Qualities == 0 .. Kinds[kind].top

Idle ==
    [ at |-> "off", gen |-> 0, cursor |-> 1, last |-> 0, started |-> FALSE,
      inits |-> {}, quality |-> 0, guard |-> 0, batch |-> <<>>, item |-> 1,
      chunk |-> 1, ok |-> TRUE ]

Init ==
    /\ kind \in DOMAIN Kinds
    /\ \E p \in Kinds[kind].policies : host = [paused |-> FALSE, stopped |-> FALSE, policy |-> p,
                                                 seekTarget |-> NoTime, seekGen |-> 0, fetchCancel |-> 0]
    /\ loop = [at |-> "top", gen |-> 0, target |-> NoTime]
    /\ edge = IF Live THEN 1 ELSE Last
    /\ session = [haveInit |-> FALSE, tracker |-> NewTracker]
    /\ stream = Idle
    /\ out = <<>>
    /\ dropped = {}

-----------------------------------------------------------------------------
(* The host and the world.                                                 *)

Over == loop.at \in {"done", "failed"}

Command(h) ==
    /\ ~Over /\ ~host.stopped
    /\ h.seekGen <= Kinds[kind].interrupts /\ h.fetchCancel <= Kinds[kind].cancels
    /\ host' = h
    /\ UNCHANGED <<kind, loop, edge, session, stream, out, dropped>>

Pause ==
    /\ ~host.paused
    /\ Command([host EXCEPT
           !.paused = TRUE,
           !.fetchCancel = IF ~host.policy.scheduleWhilePaused /\ host.policy.cancelInflight
                           THEN @ + 1 ELSE @])

Resume == host.paused /\ Command([host EXCEPT !.paused = FALSE])

Seek ==
    \E t \in Kinds[kind].seekTimes :
        Command([host EXCEPT !.seekTarget = t, !.seekGen = @ + 1])

Stop == Command([host EXCEPT !.stopped = TRUE, !.paused = FALSE])

\* Wall time publishes the next live segment.
Publish ==
    /\ edge < Last
    /\ edge' = edge + 1
    /\ UNCHANGED <<kind, host, loop, session, stream, out, dropped>>

-----------------------------------------------------------------------------
(* The run loop.                                                           *)

\* wait_while_paused returns.
MayRun == host.policy.scheduleWhilePaused \/ ~host.paused \/ host.stopped

Goto(at) == loop' = [loop EXCEPT !.at = at]

BeginTick ==
    /\ loop.at = "top"
    /\ Goto(IF host.stopped THEN "done" ELSE "refreshing")
    /\ UNCHANGED <<kind, host, edge, session, stream, out, dropped>>

\* After refresh_manifest, up to the awaits on DRM.
TakeSeek ==
    /\ loop.at = "refreshing"
    /\ loop' = [at |-> IF host.stopped THEN "join" ELSE "setup",
                gen |-> host.seekGen,
                target |-> IF host.seekTarget = NoTime THEN loop.target ELSE host.seekTarget]
    /\ host' = [host EXCEPT !.seekTarget = NoTime]
    /\ stream' = [stream EXCEPT !.at = "returned", !.ok = TRUE]
    /\ UNCHANGED <<kind, edge, session, out, dropped>>

\* should_end_after_tick, on the snapshot this tick played.
MayEnd == ~Live \/ (~OpenEnded /\ stream.last = Last)

\* A slip: the sessions survive a seek.
Join_KeepsSession ==
    /\ loop.at = "join" /\ stream.at = "returned"
    /\ \/ ~stream.ok /\ Goto("failed")
       \/ stream.ok /\ host.stopped /\ Goto("done")
       \/ stream.ok /\ ~host.stopped /\ host.seekGen # loop.gen /\ Goto("top")
       \/ /\ stream.ok /\ ~host.stopped /\ host.seekGen = loop.gen
          /\ \/ MayEnd /\ Goto("done")
             \/ Live /\ loop' = [loop EXCEPT !.at = "sleeping", !.target = NoTime]
    /\ out' = IF host.seekGen # loop.gen THEN <<>> ELSE out
    /\ UNCHANGED <<kind, host, edge, session, stream, dropped>>

\* The streams are joined; a seek in between resets the session.
Join ==
    /\ loop.at = "join" /\ stream.at = "returned"
    /\ \/ ~stream.ok /\ Goto("failed")
       \/ stream.ok /\ host.stopped /\ Goto("done")
       \/ stream.ok /\ ~host.stopped /\ host.seekGen # loop.gen /\ Goto("top")
       \/ /\ stream.ok /\ ~host.stopped /\ host.seekGen = loop.gen
          /\ \/ MayEnd /\ Goto("done")
             \/ Live /\ loop' = [loop EXCEPT !.at = "sleeping", !.target = NoTime]
    /\ IF stream.ok /\ host.seekGen # loop.gen
       THEN /\ session' = [haveInit |-> FALSE, tracker |-> NewTracker]
            /\ out' = <<>>
            /\ dropped' = {}
       ELSE UNCHANGED <<kind, session, out, dropped>>
    /\ UNCHANGED <<kind, host, edge, stream>>

Wake ==
    /\ loop.at = "sleeping"
    /\ MayRun
    /\ Goto("top") \/ (host.stopped /\ Goto("done"))
    /\ UNCHANGED <<kind, host, edge, session, stream, out, dropped>>

RunLoop == BeginTick \/ TakeSeek \/ Join \/ Wake

-----------------------------------------------------------------------------
(* The stream.                                                             *)

\* Where this tick starts: the seek target, else the live target, else 0.
FirstWanted ==
    LET target == IF loop.target # NoTime THEN loop.target
                  ELSE IF Live /\ edge > Kinds[kind].delay THEN edge - Kinds[kind].delay ELSE 0
        after  == {n \in 1 .. edge : SegEnd(Segment(n)) > target}
    IN  IF after = {} THEN 1 ELSE CHOOSE n \in after : \A m \in after : n <= m

BeginStream ==
    /\ loop.at = "setup"
    /\ Goto("join")
    /\ session' = [session EXCEPT !.haveInit = TRUE]
    /\ \E q \in Qualities :
           stream' = [Idle EXCEPT
               !.at = IF session.haveInit THEN "head" ELSE "init",
               !.gen = host.seekGen,
               !.cursor = AdvanceStartIndex(session.tracker, SubSeq(Timeline, 1, edge),
                                            FirstWanted, 0),
               !.last = edge, !.quality = q, !.guard = host.fetchCancel]
    /\ UNCHANGED <<kind, host, edge, out, dropped>>

\* A step of the stream that changes its locals only.
Step(s) ==
    /\ stream' = s
    /\ UNCHANGED <<kind, host, loop, edge, session, out, dropped>>

Interrupted == host.stopped \/ host.seekGen # stream.gen

Return == Step([stream EXCEPT !.at = "returned"])

Raise == Step([stream EXCEPT !.at = "returned", !.ok = FALSE])

\* pause() cancelled requests since the current one was started.
Cancelled == stream.guard # host.fetchCancel

\* A request for an Init segment ends without one: cancellation is an error
\* like any other there, and the next lower quality is tried.
InitLost == Failures \/ Cancelled

InitFetched ==
    /\ stream.at = "init"
    /\ Step([stream EXCEPT !.at = "head", !.inits = {stream.quality}])

InitFails ==
    /\ stream.at = "init"
    /\ InitLost
    /\ IF stream.quality > 0
       THEN Step([stream EXCEPT !.quality = @ - 1, !.guard = host.fetchCancel])
       ELSE /\ stream' = [stream EXCEPT !.at = "returned", !.ok = FALSE]
            /\ session' = [session EXCEPT !.haveInit = FALSE]
            /\ UNCHANGED <<kind, host, loop, edge, out, dropped>>

\* A slip: a delivered segment is skipped without moving on.
LoopHead_NoProgress ==
    /\ stream.at = "head"
    /\ stream.cursor <= stream.last
    /\ MayRun
    /\ IF Interrupted THEN Return
       ELSE IF Delivered(stream.cursor) THEN Step(stream)
       ELSE Step([stream EXCEPT !.at = "capacity"])

\* The loop's head, past wait_while_paused; prefetching the next period and
\* the wait for fetch capacity come next.
LoopHead ==
    /\ stream.at = "head"
    /\ stream.cursor <= stream.last
    /\ MayRun
    /\ IF Interrupted THEN Return
       ELSE IF Delivered(stream.cursor)
       THEN Step([stream EXCEPT !.cursor = @ + 1])
       ELSE Step([stream EXCEPT !.at = "capacity"])

WindowEnds ==
    /\ stream.at = "head"
    /\ stream.cursor > stream.last
    /\ IF Live /\ OpenEnded THEN Step([stream EXCEPT !.at = "edge"]) ELSE Return

\* extend_duration_template_live_edge
AwaitEdge ==
    /\ stream.at = "edge"
    /\ MayRun
    /\ \/ Interrupted /\ Return
       \/ /\ ~Interrupted
          /\ edge > stream.last
          /\ Step([stream EXCEPT !.at = "head", !.last = @ + 1])

\* The indices the lookahead may plan, in order: what is delivered is skipped.
Plannable == {n \in stream.cursor .. stream.last : Delivered(n) => n = stream.cursor}

\* The n-th of them.
Planned(n) == CHOOSE k \in Plannable : Cardinality({j \in Plannable : j <= k}) = n

MaxBatch == IF stream.started THEN MaxParallel ELSE 1

Item == stream.batch[stream.item]

\* From item k on, the first whose Init is not cached is fetched; with none
\* left the downloads start together.
Preparing(s, k) ==
    LET missing == {j \in k .. Len(s.batch) : s.batch[j].quality \notin s.inits}
    IN  [s EXCEPT !.guard = host.fetchCancel,
                  !.at = IF missing = {} THEN "download" ELSE "prepare",
                  !.item = IF missing = {} THEN 1 ELSE CHOOSE j \in missing : \A m \in missing : j <= m]

\* The buffer has room: a chunked fetch, or a batch with a quality for each
\* segment of it.
PlanSegments ==
    /\ stream.at = "capacity"
    /\ IF Interrupted THEN Return
       ELSE /\ MayRun
            /\ IF Kinds[kind].lowLatency
               THEN \E q \in Qualities :
                        Step([stream EXCEPT !.at = "fetchChunks", !.quality = q,
                                            !.chunk = 1, !.guard = host.fetchCancel])
               ELSE \E n \in 1 .. MaxBatch :
                        /\ n <= Cardinality(Plannable)
                        /\ \E qs \in [1 .. n -> Qualities] :
                               LET batch == [k \in 1 .. n |->
                                       [seg |-> Planned(k), quality |-> qs[k], got |-> "ok"]]
                               IN  Step(Preparing([stream EXCEPT !.batch = batch], 1))

\* The stream after falling back to the next lower quality.
LowerQuality(at) ==
    [stream EXCEPT !.at = at, !.batch[stream.item].quality = @ - 1, !.guard = host.fetchCancel]

Prepare ==
    /\ stream.at = "prepare"
    /\ IF Interrupted /\ stream.item < Len(stream.batch) THEN Return
       ELSE Step(Preparing([stream EXCEPT !.inits = @ \cup {Item.quality}], stream.item + 1))

PrepareFails ==
    /\ stream.at = "prepare"
    /\ InitLost
    /\ IF Item.quality = 0 THEN Raise
       ELSE IF Item.quality - 1 \notin stream.inits THEN Step(LowerQuality("prepare"))
       ELSE IF Interrupted /\ stream.item < Len(stream.batch) THEN Return
       ELSE Step(Preparing(LowerQuality("prepare"), stream.item + 1))

Outcomes ==
    {"ok"} \cup (IF Failures THEN {"failed"} ELSE {}) \cup (IF Cancelled THEN {"cancelled"} ELSE {})

\* The parallel downloads of the batch are joined.
Downloaded ==
    /\ stream.at = "download"
    /\ IF Interrupted THEN Return
       ELSE \E got \in [DOMAIN stream.batch -> Outcomes] :
                Step([stream EXCEPT !.at = "result", !.item = 1,
                          !.batch = [k \in DOMAIN @ |-> [@[k] EXCEPT !.got = got[k]]]])

\* A slip: the batch goes on after a cancelled download.
UseResult_SkipsCancelled ==
    /\ stream.at = "result"
    /\ MayRun
    /\ IF Item.got = "cancelled" /\ stream.item < Len(stream.batch)
       THEN Step([stream EXCEPT !.at = "result", !.item = @ + 1])
       ELSE Step([stream EXCEPT !.at = IF Item.got = "ok" THEN "decrypt" ELSE "head"])

\* Past wait_while_paused.  A cancelled download leaves the cursor where it
\* is, and the loop's head finds out what of the batch is still missing.
UseResult ==
    /\ stream.at = "result"
    /\ MayRun
    /\ IF Item.got = "ok" THEN Step([stream EXCEPT !.at = "decrypt"])
       ELSE IF Item.got = "cancelled" THEN Step([stream EXCEPT !.at = "head"])
       ELSE IF Item.quality = 0 THEN Raise
       ELSE Step(LowerQuality("fallback"))

\* fetch_media_with_rep_fallback below the prepared quality.
FallbackFetched ==
    /\ stream.at = "fallback"
    /\ Step([stream EXCEPT !.at = "decrypt", !.inits = @ \cup {Item.quality}])

FallbackFails ==
    /\ stream.at = "fallback"
    /\ \/ Cancelled /\ Step([stream EXCEPT !.at = "head", !.inits = @ \cup {Item.quality}])
       \/ /\ Failures \/ (Cancelled /\ Item.quality \notin stream.inits)
          /\ IF Item.quality > 0 THEN Step(LowerQuality("fallback")) ELSE Raise

-----------------------------------------------------------------------------
(* Delivery.                                                               *)

\* A pause under stop_while_paused that lands after the gate.
Discards == host.paused /\ ~host.policy.scheduleWhilePaused

\* A slip: what is delivered is not recorded.
Mark_Nothing(n) == UNCHANGED session

Mark(n) == session' = [session EXCEPT !.tracker = MarkDelivered(@, Segment(n), 0)]

\* A slip: the cursor moves one segment too far.
AfterItem_TooFar(s) ==
    IF s.item < Len(s.batch) THEN [s EXCEPT !.item = @ + 1, !.at = "result"]
    ELSE [s EXCEPT !.at = "head", !.cursor = @ + Len(s.batch) + 1]

\* The loop over the batch goes on, or ends and moves the cursor.
AfterItem(s) ==
    IF s.item < Len(s.batch) THEN [s EXCEPT !.item = @ + 1, !.at = "result"]
    ELSE [s EXCEPT !.at = "head", !.cursor = @ + Len(s.batch)]

\* A slip: neither stop() nor a seek is looked for once the media is decrypted.
EmitSegment_Unchecked ==
    /\ stream.at = "decrypt"
    /\ out' = Append(out, PartOf(Item.seg, 1))
    /\ Mark(Item.seg)
    /\ stream' = AfterItem([stream EXCEPT !.started = TRUE])
    /\ UNCHANGED <<kind, host, loop, edge, dropped>>

\* Past the awaits on DRM.
EmitSegment ==
    /\ stream.at = "decrypt"
    /\ IF Interrupted THEN Return
       ELSE IF Discards
       THEN /\ stream' = AfterItem(stream)
            /\ dropped' = dropped \cup {PartOf(Item.seg, 1)}
            /\ UNCHANGED <<kind, host, loop, edge, session, out>>
       ELSE /\ out' = Append(out, PartOf(Item.seg, 1))
            /\ Mark(Item.seg)
            /\ stream' = AfterItem([stream EXCEPT !.started = TRUE])
            /\ UNCHANGED <<kind, host, loop, edge, dropped>>

DecryptFails == stream.at \in {"decrypt", "decryptChunk"} /\ Failures /\ Raise

ChunksFetched ==
    /\ stream.at = "fetchChunks"
    /\ Step([stream EXCEPT !.at = "chunk", !.inits = @ \cup {stream.quality}])

ChunksFail ==
    /\ stream.at = "fetchChunks"
    /\ \/ Cancelled /\ Step([stream EXCEPT !.at = "head", !.inits = @ \cup {stream.quality}])
       \/ /\ Failures \/ (Cancelled /\ stream.quality \notin stream.inits)
          /\ IF stream.quality > 0
             THEN Step([stream EXCEPT !.quality = @ - 1, !.guard = host.fetchCancel])
             ELSE Raise

\* After the fetch, and after the yield that follows every chunk.
TakeChunk ==
    /\ stream.at = "chunk"
    /\ stream.chunk <= Chunks
    /\ IF Interrupted THEN Return ELSE Step([stream EXCEPT !.at = "chunkGate"])

PassChunk ==
    /\ stream.at = "chunkGate"
    /\ MayRun
    /\ Step([stream EXCEPT !.at = "decryptChunk"])

\* Only a pause is looked at once the chunk is decrypted.
EmitChunk ==
    /\ stream.at = "decryptChunk"
    /\ IF Discards
       THEN dropped' = dropped \cup {PartOf(stream.cursor, stream.chunk)} /\ UNCHANGED out
       ELSE out' = Append(out, PartOf(stream.cursor, stream.chunk)) /\ UNCHANGED dropped
    /\ stream' = [stream EXCEPT !.at = "chunk", !.chunk = @ + 1]
    /\ UNCHANGED <<kind, host, loop, edge, session>>

ChunksEnd ==
    /\ stream.at = "chunk"
    /\ stream.chunk > Chunks
    /\ Mark(stream.cursor)
    /\ stream' = [stream EXCEPT !.at = "head", !.cursor = @ + 1, !.started = TRUE]
    /\ UNCHANGED <<kind, host, loop, edge, out, dropped>>

StreamStep ==
    \/ BeginStream \/ InitFetched \/ InitFails \/ LoopHead \/ WindowEnds \/ AwaitEdge
    \/ PlanSegments \/ Prepare \/ PrepareFails \/ Downloaded \/ UseResult
    \/ FallbackFetched \/ FallbackFails \/ EmitSegment \/ DecryptFails
    \/ ChunksFetched \/ ChunksFail \/ TakeChunk \/ PassChunk \/ EmitChunk \/ ChunksEnd

Next == Pause \/ Resume \/ Seek \/ Stop \/ Publish \/ RunLoop \/ StreamStep

\* The task is polled, requests end, wall time passes; the host need not act.
Fairness == WF_vars(RunLoop) /\ WF_vars(StreamStep) /\ WF_vars(Publish)

Spec == Init /\ [][Next]_vars

FairSpec == Spec /\ Fairness

-----------------------------------------------------------------------------
Places == {"off", "init", "head", "edge", "capacity", "prepare", "download", "result",
           "fallback", "decrypt", "fetchChunks", "chunk", "chunkGate", "decryptChunk",
           "returned"}

TypeOK ==
    /\ host.policy \in Kinds[kind].policies
    /\ host.seekTarget \in Kinds[kind].seekTimes \cup {NoTime}
    /\ {host.seekGen, host.fetchCancel, loop.gen, stream.gen, stream.guard} \subseteq Nat
    /\ loop.at \in {"top", "refreshing", "setup", "join", "sleeping", "done", "failed"}
    /\ loop.target \in Kinds[kind].seekTimes \cup {NoTime}
    /\ edge \in 0 .. Last
    /\ session.tracker.keys \subseteq 1 .. Last
    /\ stream.at \in Places
    /\ stream.cursor \in 1 .. Last + 1 /\ stream.last \in 0 .. Last
    /\ stream.inits \subseteq Qualities
    /\ stream.at \in {"prepare", "download", "result", "fallback", "decrypt"}
           => stream.item \in DOMAIN stream.batch
    /\ \A k \in DOMAIN stream.batch : stream.batch[k].quality \in Qualities
    /\ out \in Seq(1 .. Last * Chunks)

\* The parts of the longest presentation.
Parts == UNION {1 .. Kinds[k].last * Kinds[k].chunks : k \in DOMAIN Kinds}

(* Whatever is cancelled, retried, fetched at another quality or refreshed *)
(* in between, parts arrive in presentation order and none arrives twice.  *)
OutOrdered == \A i, j \in DOMAIN out : i < j => out[i] < out[j]

SegmentOf(part) == (part - 1) \div Chunks + 1

\* Nothing may be lost: no part expires, no pause throws one away, and the
\* tracker tells the segments apart.
Lossless ==
    /\ ~Live /\ ~Kinds[kind].sharedFile
    /\ \A p \in Kinds[kind].policies : p.scheduleWhilePaused

(* Where nothing may be lost the tracker is exact at the loop's head: up   *)
(* to the last delivered part every segment counts as delivered, beyond it *)
(* none does.                                                              *)
TrackerIsFrontier ==
    Lossless /\ stream.at = "head" /\ out # <<>> =>
        \A n \in 1 .. Last : Delivered(n) <=> n <= SegmentOf(out[Len(out)])

(* The tracker, the log and the cursor agree.                              *)
DeliveryInv == TypeOK /\ OutOrdered /\ TrackerIsFrontier

(* From the first part delivered to the last, nothing is missing but what  *)
(* a pause threw away: a cancelled or failed download loses nothing.  (A   *)
(* refresh of a live window may begin further on, at its new target.)      *)
OnlyPauseLoses ==
    (Live => OpenEnded) => \A i, j \in DOMAIN out :
        i < j => (out[i] .. out[j]) \subseteq {out[k] : k \in i .. j} \cup dropped

(* In a static presentation that was sought, delivery begins in the        *)
(* segment the target lies in, and with its first part unless a pause      *)
(* threw that away.                                                        *)
RestartsAtTarget ==
    ~Live /\ out # <<>> /\ loop.target # NoTime /\ loop.target < edge =>
        /\ SegmentOf(out[1]) > loop.target
        /\ loop.target * Chunks + 1 \in {out[1]} \cup dropped

(* Whole segments that nothing throws away are delivered without a gap and *)
(* none twice, until stop().  (A chunk may follow it: StopHalts.)          *)
Delivery == INSTANCE SegmentDelivery
            WITH log <- IF Lossless /\ ~Kinds[kind].lowLatency THEN out ELSE <<>>,
                 open <- ~Over /\ ~host.stopped

DeliverySpec == Delivery!Spec

Blocked == host.paused /\ ~host.policy.scheduleWhilePaused

(* A static session ends unless the host keeps pausing it: no retry, no         *)
(* cancellation and no gate holds it for ever.                             *)
Completes == ~Live => <>Over \/ []<>Blocked

(* The last segment of a live presentation is delivered, thrown away by a  *)
(* pause, or the session is over: no refresh, cancellation or gate leaves  *)
(* the stream behind the edge for ever.                                    *)
EdgeReached ==
    \/ ~Live \/ OpenEnded
    \/ <>(\/ Over
          \/ out # <<>> /\ out[Len(out)] = Last * Chunks
          \/ Last * Chunks \in dropped)
    \/ []<>Blocked

(* Either way a session gets to its end unless the host keeps it paused.    *)
GetsToItsEnd == Completes /\ EdgeReached

-----------------------------------------------------------------------------
(* What the source says and the program does not do.                       *)

(* "live manifest refreshes cannot re-deliver or skip fragments"           *)
(* (delivered_segments.rs): what is not delivered is not taken for it.     *)
NothingSkipped ==
    stream.at = "head" /\ out # <<>> =>
        \A n \in 1 .. Last : Delivered(n) => n <= SegmentOf(out[Len(out)])

(* "Consumption is suspended until resume" (PlaybackState::Paused): what a *)
(* pause holds back is delivered after it.                                 *)
PauseLosesNothing == dropped = {}

(* "Suspend consumption until resume"; "in-flight segment requests and     *)
(* pending retries are aborted" (pause) is all that cancelling adds: it    *)
(* does not fail a session of which every request succeeds.                *)
PauseNeverFails == loop.at # "failed"

(* "No further segments are delivered" (stop).                             *)
StopHalts == [][ host.stopped => out' \in {out, <<>>} ]_vars

(* "seek to 5s should deliver only the second segment"                     *)
(* (tests/playback_control.rs): what arrives after a seek belongs to it.   *)
SeekInterruptsStream ==
    [][ Len(out') > Len(out) => loop.gen = host.seekGen ]_vars

(* "the scheduler blocks on pause (no new downloads or delivery)"          *)
(* (PausePolicy::schedule_while_paused).                                   *)
NoDownloadWhilePaused ==
    [][ stream.at # "download" /\ stream'.at = "download" => ~Blocked ]_vars
=============================================================================
