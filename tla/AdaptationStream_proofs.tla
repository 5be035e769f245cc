------------------------ MODULE AdaptationStream_proofs ------------------------
(***************************************************************************)
(* The delivery of a track for every presentation, every number of         *)
(* segments, chunks and qualities, every batch length and every bound on   *)
(* commands: parts arrive in order and none twice, none is missing that no *)
(* pause threw away, delivery restarts at a seek's target, and where       *)
(* nothing may be lost the stream implements gapless delivery.             *)
(***************************************************************************)
EXTENDS AdaptationStream, SequenceTheorems, FiniteSetTheorems, WellFoundedInduction,
        NaturalsInduction, TLAPS

LoopPlaces == {"top", "refreshing", "setup", "join", "sleeping", "done", "failed"}

Items == [seg : Nat, quality : Qualities, got : {"ok", "failed", "cancelled"}]

Streams ==
    [ at : Places, gen : Nat, cursor : 1 .. Last + 1, last : 0 .. Last, started : BOOLEAN,
      inits : SUBSET Qualities, quality : Qualities, guard : Nat, batch : Seq(Items),
      item : Nat, chunk : Nat, ok : BOOLEAN ]

Targets == Kinds[kind].seekTimes \cup {NoTime}

Hosts ==
    [ paused : BOOLEAN, stopped : BOOLEAN, policy : Kinds[kind].policies,
      seekTarget : Targets, seekGen : Nat, fetchCancel : Nat ]

Trackers ==
    [ keys : SUBSET Nat, urls : SUBSET {"bundle"}, lastEnd : 0 .. Last, lastAbsEnd : 0 .. Last,
      periodStart : {0} ]

Typed ==
    /\ kind \in DOMAIN Kinds
    /\ host \in Hosts
    /\ loop \in [at : LoopPlaces, gen : Nat, target : Targets]
    /\ edge \in 0 .. Last
    /\ ~Live => edge = Last
    /\ session \in [haveInit : BOOLEAN, tracker : Trackers]
    /\ stream \in Streams
    /\ out \in Seq(1 .. Last * Chunks)
    /\ dropped \in SUBSET (1 .. Last * Chunks)

\* The last segment the tracker has.
Frontier == session.tracker.lastEnd

\* The segments are ranges of one file, of which the tracker has seen one.
AllSeen == Segment(1).url # NoUrl /\ Segment(1).url \in session.tracker.urls

TrackerExact ==
    /\ session.tracker.lastAbsEnd = Frontier
    /\ session.tracker.keys \subseteq 1 .. Frontier

Running == stream.at \notin {"off", "returned"}

\* The run loop takes the generation of its tick before the stream does.
GensInOrder ==
    /\ loop.gen <= host.seekGen
    /\ Running => /\ loop.at = "join" /\ stream.ok
                  /\ loop.gen <= stream.gen /\ stream.gen <= host.seekGen

-----------------------------------------------------------------------------
(* Where the stream is among the parts.                                    *)

InChunks(s) == s.at \in {"chunk", "chunkGate", "decryptChunk"}

Batched(s) == s.at \in {"prepare", "download", "result", "fallback", "decrypt"}

Using(s) == s.at \in {"result", "fallback", "decrypt"}

Offset(s) == IF InChunks(s) THEN s.chunk - 1 ELSE IF Using(s) THEN s.item - 1 ELSE 0

\* The last part the stream has gone past, delivered or not.
Passed(s) == (s.cursor - 1) * Chunks + Offset(s)

\* No part after this one is out.
Reached(s) == IF InChunks(s) THEN Passed(s) ELSE Frontier * Chunks

Placed(s) ==
    /\ s.last <= edge
    /\ s.at = "capacity" => ~AllSeen /\ Frontier < s.cursor /\ s.cursor <= s.last
    /\ s.at = "fetchChunks" \/ InChunks(s) =>
           /\ Kinds[kind].lowLatency /\ Frontier < s.cursor /\ s.cursor <= s.last
           /\ s.chunk \in 1 .. Chunks + 1
    /\ s.at = "fetchChunks" => s.chunk = 1
    /\ s.at \in {"chunkGate", "decryptChunk"} => s.chunk <= Chunks
    /\ Batched(s) =>
           /\ ~Kinds[kind].lowLatency
           /\ s.item \in 1 .. Len(s.batch) /\ s.cursor + Len(s.batch) <= s.last + 1
           /\ \A k \in 1 .. Len(s.batch) : s.batch[k].seg = s.cursor + k - 1
    /\ s.at \in {"prepare", "download"} => Frontier < s.cursor
    /\ Using(s) => Frontier < s.cursor + s.item - 1

-----------------------------------------------------------------------------
(* What has been delivered.                                                *)

\* What was delivered or thrown away.
Given == {out[i] : i \in DOMAIN out} \cup dropped

\* The session holds nothing yet.
Fresh == out = <<>> /\ dropped = {} /\ session.tracker = NewTracker

\* What is out does not matter any more: the session is over, or is reset.
Settled ==
    \/ loop.at \in {"done", "failed"}
    \/ /\ loop.at = "join" /\ ~Running
       /\ ~stream.ok \/ host.stopped \/ host.seekGen # loop.gen

\* Between two resets one stream runs, except over a live window of segments.
OneRun == Live => OpenEnded

Alone ==
    OneRun =>
        /\ loop.at # "sleeping"
        /\ loop.at \in {"top", "refreshing", "setup"} => Fresh
        /\ Live /\ loop.at = "join" /\ ~Running => Settled

Ordered ==
    /\ OutOrdered
    /\ ~Settled => \A i \in DOMAIN out : out[i] <= Reached(stream)

\* Nothing is missing from the first part delivered to this one.
Covers(part) == out # <<>> => out[1] .. part \subseteq Given

Complete ==
    OneRun =>
        /\ \A i \in DOMAIN out : Covers(out[i])
        /\ Running => /\ Covers(Frontier * Chunks)
                      /\ \/ Covers(Passed(stream))
                         \/ AllSeen /\ stream.at \in {"init", "head", "edge"}

Kept == Lossless => dropped = {}

SoughtInside ==
    /\ ~Live /\ loop.at \in {"join", "done", "failed"}
    /\ loop.target # NoTime /\ loop.target < edge

\* After a seek: nothing before the target, and nothing without its first part.
Sought ==
    SoughtInside =>
        /\ \A p \in Given : p > loop.target * Chunks
        /\ Given # {} => loop.target * Chunks + 1 \in Given
        /\ Given = {} => session.tracker = NewTracker
        /\ Running => stream.cursor > loop.target
        /\ Running /\ Given = {} => Passed(stream) = loop.target * Chunks

\* The inductive invariant.
StreamInv ==
    /\ Typed /\ TrackerExact /\ GensInOrder
    /\ Placed(stream)
    /\ Alone /\ Ordered /\ Complete /\ Kept /\ Sought

-----------------------------------------------------------------------------
(* The constants of a kind, and what does not change with the variables.   *)

LEMMA KindFacts ==
    ASSUME kind \in DOMAIN Kinds
    PROVE  /\ Last \in Nat \ {0} /\ Chunks \in Nat \ {0}
           /\ Live \in BOOLEAN /\ OpenEnded \in BOOLEAN /\ Failures \in BOOLEAN
           /\ Kinds[kind].lowLatency \in BOOLEAN /\ Kinds[kind].sharedFile \in BOOLEAN
           /\ ~Kinds[kind].lowLatency => Chunks = 1
           /\ Qualities \subseteq Nat /\ Kinds[kind].delay \in Nat
           /\ Kinds[kind].seekTimes \subseteq Nat
           /\ Kinds[kind].policies \subseteq
                  [scheduleWhilePaused : BOOLEAN, cancelInflight : BOOLEAN]
BY StreamAssumption DEF Kind, Last, Chunks, Live, OpenEnded, Failures, Qualities

LEMMA SameKind ==
    ASSUME kind' = kind
    PROVE  /\ Last' = Last /\ Chunks' = Chunks /\ Live' = Live /\ OpenEnded' = OpenEnded
           /\ Qualities' = Qualities /\ Targets' = Targets /\ Items' = Items
           /\ Streams' = Streams /\ Hosts' = Hosts /\ Trackers' = Trackers
           /\ OneRun' = OneRun /\ Lossless' = Lossless
BY DEF Last, Chunks, Live, OpenEnded, Qualities, Targets, Items, Streams, Hosts, Trackers,
       OneRun, Lossless

(* Multiplication is monotone.                                             *)
LEMMA Monotone ==
    ASSUME NEW a \in Int, NEW b \in Int, NEW c \in Nat, a <= b
    PROVE  a * c <= b * c
OBVIOUS

(* The parts of segment n are those from (n - 1) * c + 1 to n * c.         *)
LEMMA Product ==
    ASSUME NEW n \in Int, NEW c \in Nat
    PROVE  /\ (n - 1) * c \in Int /\ n * c \in Int
           /\ n * c = (n - 1) * c + c /\ (n + 1 - 1) * c = n * c
OBVIOUS

(* A non-empty set of naturals has a least element.                        *)
LEMMA LeastExists ==
    ASSUME NEW T \in SUBSET Nat, T # {}
    PROVE  \E x \in T : \A y \in T : x <= y
<1> DEFINE R == {ss \in Nat \X Nat : ss[1] < ss[2]}
<1>1. IsWellFoundedOn(R, Nat)
  <2> HIDE DEF R
  <2>1. R = OpToRel(<, Nat)
    BY Zenon DEF OpToRel, R
  <2> QED BY <2>1, NatLessThanWellFounded, Zenon
<1> HIDE DEF R
<1>2. PICK x \in T : \A y \in T : ~ (<<y, x>> \in R)
  BY <1>1, WFMin
<1>3. \A y \in T : ~(y < x)
  BY <1>2 DEF R
<1> QED BY <1>3

(* What the tracker tells of a segment.                                    *)
LEMMA DeliveredIs ==
    ASSUME Typed, TrackerExact, NEW n \in 1 .. Last
    PROVE  Delivered(n) <=> AllSeen \/ n <= Frontier
<1>1. Segment(n).key = n /\ Segment(n).start = n - 1 /\ Segment(n).dur = 1
  BY DEF Segment
<1>2. Segment(n).url = Segment(1).url
  BY DEF Segment
<1>3. /\ session.tracker.periodStart = 0
      /\ session.tracker.lastEnd \in Nat /\ session.tracker.lastAbsEnd \in Nat
  BY KindFacts DEF Typed, Trackers
<1>4. n \in Nat
  BY KindFacts DEF Typed
<1> QED
  BY <1>1, <1>2, <1>3, <1>4
  DEF Delivered, IsDelivered, SegEnd, AllSeen, Frontier, TrackerExact

-----------------------------------------------------------------------------
(* Steps of the host, of the world and of the run loop.                    *)

LEMMA StateSame ==
    ASSUME UNCHANGED <<kind, session, stream, out, dropped>>
    PROVE  /\ Frontier' = Frontier /\ AllSeen' = AllSeen /\ Running' = Running
           /\ Given' = Given /\ Fresh' = Fresh /\ OutOrdered' = OutOrdered
           /\ Reached(stream)' = Reached(stream) /\ Passed(stream)' = Passed(stream)
           /\ \A p : Covers(p)' = Covers(p)
<1>1. Chunks' = Chunks
  BY SameKind
<1>2. Passed(stream)' = Passed(stream)
  BY <1>1 DEF Passed, Offset, InChunks, Using
<1> QED
  BY <1>1, <1>2 DEF Frontier, AllSeen, Segment, Running, Given, Fresh, OutOrdered, Reached,
     InChunks, Covers

LEMMA PlacedSame ==
    ASSUME UNCHANGED <<kind, session>>, edge <= edge', Typed, edge' \in Int,
           Placed(stream), stream' = stream
    PROVE  Placed(stream)'
<1>1. Chunks' = Chunks /\ Frontier' = Frontier /\ AllSeen' = AllSeen
  BY SameKind DEF Frontier, AllSeen, Segment
<1>2. stream.last \in Int /\ edge \in Int
  BY KindFacts DEF Typed, Streams
<1> QED
  BY <1>1, <1>2 DEF Placed, InChunks, Batched, Using

(* Commands move the generations on, and never take a stop back.           *)
LEMMA HostKeepsInv ==
    ASSUME StreamInv, UNCHANGED <<kind, loop, edge, session, stream, out, dropped>>,
           host' \in Hosts, host.seekGen <= host'.seekGen, host.stopped => host'.stopped
    PROVE  StreamInv'
<1> USE DEF StreamInv
<1>1. Typed'
  BY SameKind DEF Typed
<1>2. TrackerExact' /\ Placed(stream)'
  BY StateSame, PlacedSame, KindFacts DEF TrackerExact, Typed
<1>3. /\ loop.gen \in Nat /\ stream.gen \in Nat /\ host.seekGen \in Nat /\ host'.seekGen \in Nat
  BY <1>1, SameKind DEF Typed, Hosts, Streams
<1>4. GensInOrder'
  BY <1>3, StateSame DEF GensInOrder
<1>5. Settled => Settled'
  BY <1>3, StateSame DEF Settled, GensInOrder
<1>6. Alone' /\ Ordered'
  BY <1>5, StateSame, SameKind DEF Alone, Ordered
<1>7. Complete' /\ Kept'
  BY StateSame, SameKind DEF Complete, Kept
<1>8. SoughtInside' = SoughtInside
  BY SameKind DEF SoughtInside
<1>9. Sought'
  BY <1>8, StateSame, SameKind DEF Sought
<1> QED BY <1>1, <1>2, <1>4, <1>6, <1>7, <1>9

LEMMA CommandsKeepInv ==
    ASSUME StreamInv, Pause \/ Resume \/ Seek \/ Stop
    PROVE  StreamInv'
<1>1. host \in Hosts /\ kind \in DOMAIN Kinds
  BY DEF StreamInv, Typed
<1>2. ASSUME NEW h \in Hosts, Command(h), host.seekGen <= h.seekGen, host.stopped => h.stopped
      PROVE  StreamInv'
  BY <1>2, HostKeepsInv, SameKind DEF Command
<1>3. CASE Pause
  <2> DEFINE h == [host EXCEPT !.paused = TRUE,
                       !.fetchCancel = IF ~host.policy.scheduleWhilePaused /\ host.policy.cancelInflight
                                       THEN @ + 1 ELSE @]
  <2>1. h \in Hosts /\ h.seekGen = host.seekGen /\ h.stopped = host.stopped
    <3> DEFINE n == IF ~host.policy.scheduleWhilePaused /\ host.policy.cancelInflight
                    THEN host.fetchCancel + 1 ELSE host.fetchCancel
    <3>1. n \in Nat
      BY <1>1 DEF Hosts
    <3> HIDE DEF n
    <3>2. h = [host EXCEPT !.paused = TRUE, !.fetchCancel = n]
      BY DEF n
    <3> QED BY <1>1, <3>1, <3>2 DEF Hosts
  <2>2. Command(h)
    BY <1>3 DEF Pause
  <2>3. host.seekGen <= h.seekGen
    BY <1>1, <2>1 DEF Hosts
  <2> HIDE DEF h
  <2> QED BY <1>2, <2>1, <2>2, <2>3
<1>4. CASE Resume
  <2> DEFINE h == [host EXCEPT !.paused = FALSE]
  <2>1. h \in Hosts /\ h.seekGen = host.seekGen /\ h.stopped = host.stopped
    BY <1>1 DEF Hosts
  <2>2. Command(h)
    BY <1>4 DEF Resume
  <2>3. host.seekGen <= h.seekGen
    BY <1>1, <2>1 DEF Hosts
  <2> HIDE DEF h
  <2> QED BY <1>2, <2>1, <2>2, <2>3
<1>5. CASE Seek
  <2>0. PICK t \in Kinds[kind].seekTimes :
            Command([host EXCEPT !.seekTarget = t, !.seekGen = @ + 1])
    BY <1>5 DEF Seek
  <2> DEFINE h == [host EXCEPT !.seekTarget = t, !.seekGen = @ + 1]
  <2>1. h \in Hosts /\ h.stopped = host.stopped /\ host.seekGen <= h.seekGen
    <3> DEFINE n == host.seekGen + 1
    <3>1. t \in Targets /\ n \in Nat /\ host.seekGen <= n
      BY <1>1 DEF Hosts, Targets
    <3>2. h = [host EXCEPT !.seekTarget = t, !.seekGen = n]
      OBVIOUS
    <3> HIDE DEF n
    <3> SUFFICES /\ [host EXCEPT !.seekTarget = t, !.seekGen = n] \in Hosts
                 /\ h.stopped = host.stopped /\ h.seekGen = n
      BY <3>1, <3>2
    <3> QED BY <1>1, <3>1, <3>2 DEF Hosts
  <2>2. Command(h)
    BY <2>0
  <2> HIDE DEF h
  <2> QED BY <1>2, <2>1, <2>2
<1>6. CASE Stop
  <2> DEFINE h == [host EXCEPT !.stopped = TRUE, !.paused = FALSE]
  <2>1. h \in Hosts /\ h.seekGen = host.seekGen /\ h.stopped
    BY <1>1 DEF Hosts
  <2>2. Command(h)
    BY <1>6 DEF Stop
  <2>3. host.seekGen <= h.seekGen
    BY <1>1, <2>1 DEF Hosts
  <2> HIDE DEF h
  <2> QED BY <1>2, <2>1, <2>2, <2>3
<1> QED BY <1>3, <1>4, <1>5, <1>6

(* A segment is published in live presentations only.                      *)
LEMMA PublishKeepsInv ==
    ASSUME StreamInv, Publish
    PROVE  StreamInv'
<1> USE DEF StreamInv, Publish
<1>1. edge \in Nat /\ Last \in Nat /\ Live
  BY KindFacts DEF Typed
<1>2. Typed'
  BY <1>1, SameKind DEF Typed
<1>3. TrackerExact' /\ Placed(stream)'
  BY <1>1, StateSame, PlacedSame DEF TrackerExact
<1>4. GensInOrder' /\ Settled' = Settled
  BY StateSame DEF GensInOrder, Settled
<1>5. Alone' /\ Ordered' /\ Complete' /\ Kept'
  BY <1>4, StateSame, SameKind DEF Alone, Ordered, Complete, Kept
<1>6. Sought'
  BY <1>1, SameKind DEF Sought, SoughtInside
<1> QED BY <1>2, <1>3, <1>4, <1>5, <1>6

LEMMA BeginTickKeepsInv ==
    ASSUME StreamInv, BeginTick
    PROVE  StreamInv'
<1> USE DEF StreamInv, BeginTick, Goto
<1>1. loop' = [loop EXCEPT !.at = loop'.at] /\ loop'.at \in {"done", "refreshing"}
      /\ loop.at = "top" /\ loop \in [at : LoopPlaces, gen : Nat, target : Targets]
  BY DEF Typed
<1>2. loop'.gen = loop.gen /\ loop'.target = loop.target
      /\ loop' \in [at : LoopPlaces, gen : Nat, target : Targets]
  BY <1>1 DEF LoopPlaces
<1>3. Typed'
  BY <1>2, SameKind DEF Typed
<1>4. TrackerExact' /\ Placed(stream)'
  BY StateSame, PlacedSame, KindFacts DEF TrackerExact, Typed
<1>5. ~Running
  BY DEF GensInOrder
<1>6. GensInOrder'
  BY <1>2, <1>5, StateSame DEF GensInOrder
<1>7. ~Settled
  BY DEF Settled
<1>8. Alone' /\ Ordered' /\ Complete' /\ Kept'
  BY <1>1, <1>5, <1>7, StateSame, SameKind DEF Alone, Ordered, Complete, Kept
<1>9. Sought'
  <2>1. ~Live => Fresh
    BY DEF Alone, OneRun
  <2>2. Fresh => Given = {} /\ session.tracker = NewTracker
    BY DEF Fresh, Given
  <2> QED BY <1>5, <2>1, <2>2, StateSame, SameKind DEF Sought, SoughtInside
<1> QED BY <1>3, <1>4, <1>6, <1>8, <1>9

LEMMA TakeSeekKeepsInv ==
    ASSUME StreamInv, TakeSeek
    PROVE  StreamInv'
<1> USE DEF StreamInv, TakeSeek
<1>1. /\ loop \in [at : LoopPlaces, gen : Nat, target : Targets] /\ host \in Hosts
      /\ stream \in Streams /\ loop.at = "refreshing" /\ NoTime \in Targets
  BY DEF Typed, Targets
<1>2. /\ loop' \in [at : LoopPlaces, gen : Nat, target : Targets]
      /\ loop'.gen = host.seekGen /\ loop'.at = IF host.stopped THEN "join" ELSE "setup"
  BY <1>1 DEF Hosts, LoopPlaces
<1>3. host' \in Hosts /\ host'.seekGen = host.seekGen /\ host'.stopped = host.stopped
  BY <1>1 DEF Hosts
<1>4. /\ stream' \in Streams /\ stream'.at = "returned" /\ stream'.ok /\ stream'.last = stream.last
      /\ ~Running'
  BY <1>1 DEF Streams, Places, Running
<1>5. Typed'
  BY <1>2, <1>3, <1>4, SameKind DEF Typed
<1>6. /\ Frontier' = Frontier /\ Given' = Given /\ Fresh' = Fresh /\ OutOrdered' = OutOrdered
      /\ TrackerExact' /\ \A p : Covers(p)' = Covers(p)
  BY DEF Frontier, Given, Fresh, OutOrdered, TrackerExact, Covers
<1>7. GensInOrder'
  BY <1>1, <1>2, <1>3, <1>4 DEF GensInOrder, Hosts
<1>8. Placed(stream)'
  BY <1>4 DEF Placed, Batched, Using, InChunks
<1>9. Alone'
  BY <1>1, <1>2, <1>3, <1>4, <1>6, SameKind DEF Alone, Settled
<1>10. Ordered'
  <2>1. ~Settled /\ ~Running
    BY <1>1 DEF Settled, GensInOrder
  <2>2. ~InChunks(stream) /\ ~InChunks(stream)'
    BY <1>4, <2>1 DEF InChunks, Running
  <2> QED BY <1>6, <2>1, <2>2, SameKind DEF Ordered, Reached
<1>11. Complete' /\ Kept'
  BY <1>4, <1>6, SameKind DEF Complete, Kept
<1>12. Sought'
  <2>1. ~Live => Fresh
    BY <1>1 DEF Alone, OneRun
  <2>2. Fresh => Given = {} /\ session.tracker = NewTracker
    BY DEF Fresh, Given
  <2> QED BY <1>4, <1>6, <2>1, <2>2, SameKind DEF Sought, SoughtInside
<1> QED BY <1>5, <1>6, <1>7, <1>8, <1>9, <1>10, <1>11, <1>12

(* The next tick goes on with the session unless a seek came in between.   *)
LEMMA JoinKeepsInv ==
    ASSUME StreamInv, Join
    PROVE  StreamInv'
<1> USE DEF StreamInv, Goto
<1>1. /\ loop \in [at : LoopPlaces, gen : Nat, target : Targets] /\ host \in Hosts
      /\ loop.at = "join" /\ NoTime \in Targets /\ UNCHANGED <<host, edge, stream>>
      /\ stream.at = "returned" /\ UNCHANGED kind
  <2>1. UNCHANGED kind
    BY DEF Join
  <2> QED BY <2>1 DEF Typed, Targets, Join
<1>2. /\ loop' \in [at : LoopPlaces, gen : Nat, target : Targets] /\ loop'.gen = loop.gen
      /\ loop'.at \in {"top", "sleeping", "done", "failed"}
      /\ loop'.at = "top" => host.seekGen # loop.gen /\ stream.ok
      /\ loop'.at = "sleeping" => Live /\ stream.ok /\ ~host.stopped /\ host.seekGen = loop.gen
      /\ loop'.at # "sleeping" => loop'.target = loop.target
  BY <1>1 DEF Join, LoopPlaces
<1>3. ~Running /\ ~Running'
  BY <1>1 DEF Running
<1>4. GensInOrder'
  BY <1>1, <1>2, <1>3 DEF GensInOrder
<1>5. CASE stream.ok /\ host.seekGen # loop.gen
  <2>1. /\ session' = [haveInit |-> FALSE, tracker |-> NewTracker] /\ out' = <<>> /\ dropped' = {}
        /\ loop'.at \in {"top", "done", "failed"}
    BY <1>2, <1>5 DEF Join
  <2>2. NewTracker \in Trackers'
    BY <1>1, SameKind, KindFacts DEF NewTracker, Trackers, Typed
  <2>3. Typed'
    BY <1>1, <1>2, <2>1, <2>2, SameKind DEF Typed
  <2>4. TrackerExact' /\ Placed(stream)' /\ Fresh' /\ Given' = {}
    BY <1>1, <2>1 DEF TrackerExact, Frontier, NewTracker, Placed, Batched, Using, InChunks,
       Fresh, Given
  <2>5. Alone'
    BY <1>1, <1>2, <1>3, <2>1, <2>4 DEF Alone, Settled
  <2>6. Ordered' /\ Complete' /\ Kept'
    BY <1>3, <2>1 DEF Ordered, OutOrdered, Complete, Kept
  <2>7. Sought'
    BY <1>3, <2>1, <2>4 DEF Sought
  <2> QED BY <1>4, <2>3, <2>4, <2>5, <2>6, <2>7
<1>6. CASE ~(stream.ok /\ host.seekGen # loop.gen)
  <2>1. UNCHANGED <<kind, session, out, dropped, stream, edge, host>>
        /\ loop'.at \in {"sleeping", "done", "failed"}
    BY <1>1, <1>2, <1>6 DEF Join
  <2>2. Typed'
    BY <1>2, <2>1, SameKind DEF Typed
  <2>3. TrackerExact' /\ Placed(stream)'
    BY <2>1, StateSame, PlacedSame, KindFacts DEF TrackerExact, Typed
  <2>4. loop'.at = "sleeping" => ~OneRun /\ ~Settled /\ Live
    BY <1>1, <1>2, <1>3 DEF Alone, OneRun, Settled
  <2>5. loop'.at # "sleeping" => Settled'
    BY <2>1 DEF Settled
  <2>6. Alone'
    BY <1>3, <2>1, <2>4, <2>5, SameKind DEF Alone
  <2>7. Ordered' /\ Complete' /\ Kept'
    BY <1>3, <2>1, <2>4, <2>5, StateSame, SameKind DEF Ordered, Complete, Kept
  <2>8. Sought'
    BY <1>1, <1>2, <1>3, <2>1, <2>4, StateSame, SameKind DEF Sought, SoughtInside
  <2> QED BY <1>4, <2>2, <2>3, <2>6, <2>7, <2>8
<1> QED BY <1>5, <1>6

(* A tick follows a sleep only over a live window of segments.             *)
LEMMA WakeKeepsInv ==
    ASSUME StreamInv, Wake
    PROVE  StreamInv'
<1> USE DEF StreamInv, Wake, Goto
<1>1. /\ loop \in [at : LoopPlaces, gen : Nat, target : Targets] /\ loop.at = "sleeping"
      /\ UNCHANGED <<kind, host, edge, session, stream, out, dropped>>
  BY DEF Typed
<1>2. /\ loop' \in [at : LoopPlaces, gen : Nat, target : Targets] /\ loop'.gen = loop.gen
      /\ loop'.at \in {"top", "done"}
  BY <1>1 DEF LoopPlaces
<1>3. Typed'
  BY <1>1, <1>2, SameKind DEF Typed
<1>4. TrackerExact' /\ Placed(stream)'
  BY <1>1, StateSame, PlacedSame, KindFacts DEF TrackerExact, Typed
<1>5. ~Running /\ ~OneRun /\ ~Settled
  BY <1>1 DEF GensInOrder, Alone, Settled
<1>6. GensInOrder' /\ Alone' /\ Ordered' /\ Complete' /\ Kept'
  BY <1>1, <1>2, <1>5, StateSame, SameKind DEF GensInOrder, Alone, Ordered, Complete, Kept
<1>7. Sought'
  BY <1>1, <1>5, SameKind DEF Sought, SoughtInside, OneRun
<1> QED BY <1>3, <1>4, <1>6, <1>7

-----------------------------------------------------------------------------
(* Steps of the stream that deliver nothing.                               *)

Heads == {"init", "head", "edge"}

\* The parts before the one that comes next are known to be given.
Accounted(s) == Covers(Passed(s)) \/ (AllSeen /\ s.at \in Heads)

(* What is a function of the kind, the tracker and what was given.         *)
LEMMA TrackerSame ==
    ASSUME UNCHANGED <<kind, out, dropped>>, session'.tracker = session.tracker
    PROVE  /\ Frontier' = Frontier /\ AllSeen' = AllSeen /\ Given' = Given /\ Fresh' = Fresh
           /\ OutOrdered' = OutOrdered /\ Chunks' = Chunks
           /\ \A p : Covers(p)' = Covers(p)
BY SameKind DEF Frontier, AllSeen, Segment, Given, Fresh, OutOrdered, Covers

(* The place of a stream in numbers.                                       *)
LEMMA PlaceTyped ==
    ASSUME Typed, NEW s \in Streams, Placed(s)
    PROVE  /\ (s.cursor - 1) * Chunks \in Nat /\ Offset(s) \in Nat /\ Passed(s) \in Nat
           /\ Frontier \in Nat /\ Frontier * Chunks \in Nat /\ Reached(s) \in Nat
           /\ s.cursor \in Nat \ {0} /\ s.last \in Nat /\ Chunks \in Nat \ {0}
           /\ Frontier * Chunks <= Last * Chunks
<1>1. /\ s.cursor \in Nat \ {0} /\ s.last \in Nat /\ s.item \in Nat /\ s.chunk \in Nat
      /\ Frontier \in 0 .. Last /\ Chunks \in Nat \ {0} /\ Last \in Nat
  <2>1. kind \in DOMAIN Kinds /\ session.tracker.lastEnd \in 0 .. Last
    BY DEF Typed, Trackers
  <2>2. Last \in Nat /\ Chunks \in Nat \ {0}
    BY <2>1, KindFacts
  <2>3. s.cursor \in 1 .. Last + 1 /\ s.last \in 0 .. Last /\ s.item \in Nat /\ s.chunk \in Nat
    BY DEF Streams
  <2> QED BY <2>1, <2>2, <2>3 DEF Frontier
<1>2. Offset(s) \in Nat
  <2>1. Using(s) => s.item \in Nat \ {0}
    <3>1. Using(s) => s.item \in 1 .. Len(s.batch) /\ s.batch \in Seq(Items)
      BY DEF Placed, Batched, Using, Streams
    <3> QED BY <3>1
  <2>2. InChunks(s) => s.chunk \in Nat \ {0}
    BY <1>1 DEF Placed
  <2> QED BY <1>1, <2>1, <2>2 DEF Offset
<1>3. (s.cursor - 1) * Chunks \in Nat /\ Frontier * Chunks \in Nat
  <2>1. s.cursor - 1 \in Nat /\ Frontier \in Nat /\ Chunks \in Nat
    BY <1>1
  <2> QED BY <2>1
<1>4. Passed(s) \in Nat
  BY <1>2, <1>3 DEF Passed
<1>5. Frontier * Chunks <= Last * Chunks
  BY <1>1, Monotone
<1> QED BY <1>1, <1>2, <1>3, <1>4, <1>5 DEF Reached

(* While a stream runs the session is neither over nor about to be reset.  *)
LEMMA RunningFacts ==
    ASSUME StreamInv, Running
    PROVE  /\ ~Settled /\ loop.at = "join" /\ stream.ok
           /\ stream \in Streams /\ Placed(stream)
           /\ \A i \in DOMAIN out : out[i] <= Reached(stream)
           /\ Accounted(stream) \/ ~OneRun
BY DEF StreamInv, GensInOrder, Settled, Typed, Ordered, Complete, Accounted, Heads

(* The stream moves on, or back over parts it has gone past.               *)
LEMMA MoveKeepsInv ==
    ASSUME StreamInv, Running, NEW s \in Streams, Step(s),
           s.at \notin {"off", "returned"}, s.gen = stream.gen, s.ok, Placed(s),
           s.cursor >= stream.cursor, Reached(stream) <= Reached(s),
           \/ Passed(s) <= Passed(stream) /\ (stream.at \in Heads /\ AllSeen => s.at \in Heads)
           \/ session.tracker # NewTracker /\ (OneRun => Accounted(s))
    PROVE  StreamInv'
<1> USE DEF StreamInv
<1>1. /\ stream' = s /\ UNCHANGED <<kind, host, loop, edge, session, out, dropped>>
      /\ loop.at = "join" /\ Typed
  BY RunningFacts DEF Step
<1>2. Typed'
  BY <1>1, SameKind DEF Typed
<1>3. /\ Passed(stream)' = Passed(s) /\ Reached(stream)' = Reached(s) /\ Running'
      /\ TrackerExact'
  BY <1>1, TrackerSame DEF Passed, Offset, InChunks, Using, Reached, Running, TrackerExact
<1>4. Placed(stream)'
  BY <1>1, TrackerSame DEF Placed, InChunks, Batched, Using
<1>5. GensInOrder'
  BY <1>1, <1>3 DEF GensInOrder
<1>6. ~Settled'
  BY <1>1, <1>3 DEF Settled
<1>7. Alone'
  BY <1>1, <1>3, <1>6 DEF Alone
<1>8. Passed(s) \in Nat /\ Passed(stream) \in Nat /\ Reached(s) \in Nat /\ Reached(stream) \in Nat
      /\ s.cursor \in Nat /\ stream.cursor \in Nat /\ Chunks \in Nat
      /\ \A i \in DOMAIN out : out[i] \in Nat
  <2>1. stream \in Streams /\ Placed(stream) /\ Typed
    BY <1>1, RunningFacts
  <2>2. out \in Seq(1 .. Last * Chunks) /\ Last * Chunks \in Int
    BY <1>1, KindFacts, Product DEF Typed
  <2>3. \A i \in DOMAIN out : out[i] \in Nat
    BY <2>2
  <2> QED BY <1>1, <2>1, <2>3, PlaceTyped
<1>9. Ordered'
  <2>1. \A i \in DOMAIN out : out[i] <= Reached(s)
    BY <1>8, RunningFacts
  <2> QED BY <1>1, <1>3, <2>1, TrackerSame DEF Ordered
<1>10. Complete'
  <2> SUFFICES ASSUME OneRun PROVE Accounted(s)
    BY <1>1, <1>3, TrackerSame, SameKind DEF Complete, Accounted, Heads
  <2>1. CASE Passed(s) <= Passed(stream) /\ Covers(Passed(stream))
    BY <1>8, <2>1 DEF Accounted, Covers, Typed
  <2> QED BY <2>1, RunningFacts DEF Accounted
<1>11. Kept'
  BY <1>1, SameKind DEF Kept
<1>12. Sought'
  <2> SUFFICES ASSUME SoughtInside
               PROVE  /\ s.cursor > loop.target
                      /\ Given = {} => Passed(s) = loop.target * Chunks
    BY <1>1, <1>3, TrackerSame, SameKind DEF Sought, SoughtInside
  <2>1. loop.target \in Nat
    BY <1>1, KindFacts DEF Typed, Targets, SoughtInside
  <2>2. s.cursor > loop.target
    BY <1>8, <2>1 DEF Sought
  <2>3. ASSUME Given = {} PROVE Passed(s) = loop.target * Chunks
    <3>1. session.tracker = NewTracker /\ Passed(stream) = loop.target * Chunks
      BY <2>3 DEF Sought
    <3>2. loop.target * Chunks <= (s.cursor - 1) * Chunks
      BY <1>8, <2>1, <2>2, Monotone
    <3>3. Offset(s) \in Nat /\ (s.cursor - 1) * Chunks \in Nat
      BY <1>1, PlaceTyped
    <3>4. (s.cursor - 1) * Chunks <= Passed(s)
      BY <3>3 DEF Passed
    <3> DEFINE t == loop.target * Chunks
               c == (s.cursor - 1) * Chunks
    <3>5. t \in Int /\ c \in Nat /\ Passed(s) <= t /\ t <= c /\ c <= Passed(s)
      BY <1>8, <2>1, <3>1, <3>2, <3>3, <3>4
    <3> HIDE DEF t, c
    <3>6. Passed(s) = t
      BY <1>8, <3>5
    <3> QED BY <3>6 DEF t
  <2> QED BY <2>2, <2>3
<1> QED BY <1>2, <1>3, <1>4, <1>5, <1>7, <1>9, <1>10, <1>11, <1>12

(* The stream returns: it failed, it was interrupted, or its window is at  *)
(* an end.                                                                 *)
LEMMA LeaveKeepsInv ==
    ASSUME StreamInv, Running, NEW ok \in BOOLEAN,
           stream' = [stream EXCEPT !.at = "returned", !.ok = ok],
           UNCHANGED <<kind, host, loop, edge, out, dropped>>,
           session' \in [haveInit : BOOLEAN, tracker : {session.tracker}],
           ~ok \/ Interrupted \/ (~(Live /\ OpenEnded) /\ ~InChunks(stream))
    PROVE  StreamInv'
<1> USE DEF StreamInv
<1>1. /\ stream \in Streams /\ loop.at = "join" /\ session'.tracker = session.tracker /\ Typed
  BY RunningFacts
<1>2. /\ stream' \in Streams /\ stream'.at = "returned" /\ stream'.ok = ok
      /\ stream'.last = stream.last /\ ~Running'
  BY <1>1 DEF Streams, Places, Running
<1>3. Typed'
  BY <1>1, <1>2, SameKind DEF Typed
<1>4. TrackerExact' /\ Placed(stream)'
  BY <1>1, <1>2, TrackerSame DEF TrackerExact, Placed, Batched, Using, InChunks
<1>5. GensInOrder'
  BY <1>2 DEF GensInOrder
<1>6. Settled' \/ (~(Live /\ OpenEnded) /\ ~InChunks(stream))
  <2>1. /\ loop.gen \in Nat /\ stream.gen \in Nat /\ host.seekGen \in Nat
        /\ loop.gen <= stream.gen /\ stream.gen <= host.seekGen
    BY <1>1 DEF Typed, Hosts, Streams, GensInOrder
  <2> QED BY <1>1, <1>2, <2>1 DEF Settled, Interrupted
<1>7. Alone'
  BY <1>1, <1>2, <1>6, SameKind DEF Alone, OneRun
<1>8. Ordered'
  <2>1. ~InChunks(stream) => Reached(stream)' = Reached(stream)
    BY <1>2, TrackerSame, <1>1 DEF Reached, InChunks
  <2> QED BY <1>1, <1>6, <2>1, RunningFacts, TrackerSame DEF Ordered
<1>9. Complete' /\ Kept'
  BY <1>1, <1>2, TrackerSame, SameKind DEF Complete, Kept
<1>10. Sought'
  BY <1>1, <1>2, TrackerSame, SameKind DEF Sought, SoughtInside
<1> QED BY <1>3, <1>4, <1>5, <1>7, <1>8, <1>9, <1>10

\* The stream may return where it is.
MayLeave == Interrupted \/ (~(Live /\ OpenEnded) /\ ~InChunks(stream))

LEMMA ReturnKeepsInv ==
    ASSUME StreamInv, Running, \/ Raise
                               \/ Return /\ MayLeave
    PROVE  StreamInv'
<1>1. stream \in Streams /\ stream.ok /\ session \in [haveInit : BOOLEAN, tracker : Trackers]
  BY RunningFacts DEF StreamInv, Typed
<1>2. PICK ok \in BOOLEAN : /\ stream' = [stream EXCEPT !.at = "returned", !.ok = ok]
                            /\ UNCHANGED <<kind, host, loop, edge, session, out, dropped>>
                            /\ ~ok \/ MayLeave
  <2>1. CASE Raise
    BY <2>1 DEF Raise, Step
  <2>2. CASE Return /\ MayLeave
    <3>1. [stream EXCEPT !.at = "returned"] = [stream EXCEPT !.at = "returned", !.ok = TRUE]
      BY <1>1 DEF Streams
    <3> QED BY <2>2, <3>1 DEF Return, Step
  <2> QED BY <2>1, <2>2
<1>3. session' \in [haveInit : BOOLEAN, tracker : {session.tracker}]
  BY <1>1, <1>2
<1> QED BY <1>2, <1>3, LeaveKeepsInv DEF MayLeave

(* Steps within the current batch or chunk, and back to the loop's head.   *)
LEMMA StayKeepsInv ==
    ASSUME StreamInv, Running, NEW s \in Streams, Step(s),
           s.at \notin {"off", "returned"}, s.gen = stream.gen, s.ok, Placed(s),
           s.cursor = stream.cursor, Offset(s) <= Offset(stream),
           InChunks(stream) => InChunks(s) /\ s.chunk = stream.chunk,
           stream.at \in Heads => s.at \in Heads \/ ~AllSeen
    PROVE  StreamInv'
<1>1. stream \in Streams /\ Placed(stream) /\ Typed
  BY RunningFacts DEF StreamInv
<1>2. /\ (s.cursor - 1) * Chunks \in Nat /\ Offset(s) \in Nat /\ Offset(stream) \in Nat
      /\ s.cursor \in Nat /\ Frontier \in Nat /\ Chunks \in Nat /\ Frontier * Chunks \in Nat
  BY <1>1, PlaceTyped
<1>3. Passed(s) <= Passed(stream)
  <2> DEFINE c == (s.cursor - 1) * Chunks
  <2>1. c \in Nat /\ Passed(s) = c + Offset(s) /\ Passed(stream) = c + Offset(stream)
    BY <1>2 DEF Passed
  <2> HIDE DEF c
  <2> QED BY <1>2, <2>1
<1>4. Reached(stream) <= Reached(s)
  <2>1. CASE InChunks(stream)
    <3>1. Passed(stream) = Passed(s)
      BY <2>1 DEF Passed, Offset
    <3> QED BY <1>1, <2>1, <3>1, PlaceTyped DEF Reached
  <2>2. CASE InChunks(s) /\ ~InChunks(stream)
    <3>1. Frontier <= s.cursor - 1
      BY <1>2, <2>2 DEF Placed
    <3>2. Frontier * Chunks <= (s.cursor - 1) * Chunks
      BY <1>2, <3>1, Monotone
    <3> DEFINE c == (s.cursor - 1) * Chunks
               f == Frontier * Chunks
    <3>3. /\ c \in Nat /\ f \in Nat /\ f <= c
          /\ Reached(s) = c + Offset(s) /\ Reached(stream) = f
      BY <1>2, <2>2, <3>2 DEF Reached, Passed
    <3> HIDE DEF c, f
    <3> QED BY <1>2, <3>3
  <2>3. CASE ~InChunks(s) /\ ~InChunks(stream)
    BY <1>2, <2>3 DEF Reached
  <2> QED BY <2>1, <2>2, <2>3
<1> QED BY <1>1, <1>2, <1>3, <1>4, MoveKeepsInv

LEMMA QualityBelow ==
    ASSUME kind \in DOMAIN Kinds, NEW q \in Qualities, q > 0
    PROVE  q - 1 \in Qualities
<1>1. Kinds[kind].top \in Nat
  BY StreamAssumption DEF Kind
<1> QED BY <1>1 DEF Qualities

LEMMA InitFetchedKeepsInv ==
    ASSUME StreamInv, InitFetched
    PROVE  StreamInv'
<1> DEFINE s == [stream EXCEPT !.at = "head", !.inits = {stream.quality}]
<1>1. Running /\ stream.at = "init" /\ Step(s)
  BY DEF InitFetched, Running
<1>2. stream \in Streams /\ Placed(stream) /\ stream.ok
  BY <1>1, RunningFacts
<1>3. /\ s \in Streams /\ s.at = "head" /\ s.gen = stream.gen /\ s.ok
      /\ s.cursor = stream.cursor /\ s.last = stream.last
  BY <1>2 DEF Streams, Places
<1> HIDE DEF s
<1>4. Placed(s)
  BY <1>1, <1>2, <1>3 DEF Placed, InChunks, Batched, Using
<1>5. Offset(s) = 0 /\ Offset(stream) = 0 /\ ~InChunks(stream)
  BY <1>1, <1>3 DEF Offset, InChunks, Using
<1> QED BY <1>1, <1>3, <1>4, <1>5, StayKeepsInv DEF Heads

(* With no quality below, the track fails and asks for its Init again.     *)
LEMMA InitFailsKeepsInv ==
    ASSUME StreamInv, InitFails
    PROVE  StreamInv'
<1>1. Running /\ stream.at = "init"
  BY DEF InitFails, Running
<1>2. /\ stream \in Streams /\ Placed(stream) /\ stream.ok /\ Typed /\ host.fetchCancel \in Nat
  BY <1>1, RunningFacts DEF StreamInv, Typed, Hosts
<1>3. CASE stream.quality > 0
  <2> DEFINE q == stream.quality - 1
             s == [stream EXCEPT !.quality = q, !.guard = host.fetchCancel]
  <2>1. q \in Qualities
    BY <1>2, <1>3, QualityBelow DEF Streams, Typed
  <2>2. Step(s)
    BY <1>3 DEF InitFails
  <2> HIDE DEF q
  <2>3. /\ s \in Streams /\ s.at = "init" /\ s.gen = stream.gen /\ s.ok
        /\ s.cursor = stream.cursor /\ s.last = stream.last
    BY <1>1, <1>2, <2>1 DEF Streams, Places
  <2> HIDE DEF s
  <2>4. Placed(s)
    BY <1>1, <1>2, <2>3 DEF Placed, InChunks, Batched, Using
  <2>5. Offset(s) = 0 /\ Offset(stream) = 0 /\ ~InChunks(stream)
    BY <1>1, <2>3 DEF Offset, InChunks, Using
  <2> QED BY <1>1, <2>2, <2>3, <2>4, <2>5, StayKeepsInv DEF Heads
<1>4. CASE ~(stream.quality > 0)
  <2>1. /\ stream' = [stream EXCEPT !.at = "returned", !.ok = FALSE]
        /\ session' = [session EXCEPT !.haveInit = FALSE]
        /\ UNCHANGED <<kind, host, loop, edge, out, dropped>>
    BY <1>4 DEF InitFails
  <2>2. session' \in [haveInit : BOOLEAN, tracker : {session.tracker}]
    BY <1>2, <2>1 DEF Typed
  <2> QED BY <1>1, <2>1, <2>2, LeaveKeepsInv
<1> QED BY <1>3, <1>4

(* A segment the tracker has is passed over; the first it has not is next. *)
LEMMA LoopHeadKeepsInv ==
    ASSUME StreamInv, LoopHead
    PROVE  StreamInv'
<1>1. Running /\ stream.at = "head"
  BY DEF LoopHead, Running
<1>2. /\ stream \in Streams /\ Placed(stream) /\ stream.ok /\ Typed /\ TrackerExact
      /\ stream.cursor <= stream.last
  BY <1>1, RunningFacts DEF StreamInv, LoopHead
<1>3. /\ stream.cursor \in Nat \ {0} /\ stream.last \in Nat /\ Frontier \in Nat /\ Last \in Nat
      /\ Chunks \in Nat /\ stream.last <= Last
  BY SMTT(30), <1>2, PlaceTyped, KindFacts DEF Typed, Streams
<1>4. Delivered(stream.cursor) <=> AllSeen \/ stream.cursor <= Frontier
  BY <1>2, <1>3, DeliveredIs
<1>5. CASE Interrupted
  BY <1>1, <1>5, ReturnKeepsInv DEF LoopHead, MayLeave
<1>6. CASE ~Interrupted /\ Delivered(stream.cursor)
  <2> DEFINE c == stream.cursor + 1
             s == [stream EXCEPT !.cursor = c]
  <2>1. Step(s) /\ c \in 1 .. Last + 1 /\ c > stream.cursor
    BY <1>1, <1>2, <1>3, <1>6 DEF LoopHead
  <2>2. c - 1 = stream.cursor
    BY <1>3
  <2> HIDE DEF c
  <2>3. /\ s \in Streams /\ s.at = "head" /\ s.gen = stream.gen /\ s.ok
        /\ s.cursor = c /\ s.last = stream.last
    BY <1>1, <1>2, <2>1 DEF Streams, Places
  <2> HIDE DEF s
  <2>4. Placed(s)
    BY <1>1, <1>2, <2>3 DEF Placed, InChunks, Batched, Using
  <2>5. Reached(s) = Reached(stream)
    BY <1>1, <2>3 DEF Reached, InChunks
  <2>6. session.tracker # NewTracker
    BY <1>3, <1>4, <1>6 DEF NewTracker, Frontier, AllSeen
  <2>7. OneRun => Accounted(s)
    <3> SUFFICES ASSUME OneRun, ~AllSeen PROVE Covers(Passed(s))
      BY <2>3 DEF Accounted, Heads
    <3>1. Passed(s) = stream.cursor * Chunks
      BY <2>2, <2>3, <1>3 DEF Passed, Offset, InChunks, Using
    <3>2. stream.cursor * Chunks <= Frontier * Chunks
      BY <1>3, <1>4, <1>6, Monotone
    <3>3. Covers(Frontier * Chunks)
      BY <1>1 DEF StreamInv, Complete
    <3> DEFINE p == stream.cursor * Chunks
               f == Frontier * Chunks
    <3>4. p \in Int /\ f \in Int /\ p <= f /\ Passed(s) = p /\ Covers(f)
      BY <1>3, <3>1, <3>2, <3>3
    <3>5. out # <<>> => out[1] \in Int
      <4>1. Last * Chunks \in Int /\ out \in Seq(1 .. Last * Chunks)
        BY <1>2, <1>3 DEF Typed
      <4> QED BY <4>1
    <3> HIDE DEF p, f
    <3> QED BY <3>4, <3>5 DEF Covers
  <2>8. Reached(stream) <= Reached(s) /\ s.cursor >= stream.cursor
    BY <1>2, <1>3, <2>1, <2>3, <2>5, PlaceTyped
  <2> QED BY <1>1, <2>1, <2>3, <2>4, <2>6, <2>7, <2>8, MoveKeepsInv
<1>7. CASE ~Interrupted /\ ~Delivered(stream.cursor)
  <2> DEFINE s == [stream EXCEPT !.at = "capacity"]
  <2>1. Step(s)
    BY <1>7 DEF LoopHead
  <2>2. /\ s \in Streams /\ s.at = "capacity" /\ s.gen = stream.gen /\ s.ok
        /\ s.cursor = stream.cursor /\ s.last = stream.last
    BY <1>2 DEF Streams, Places
  <2> HIDE DEF s
  <2>3. ~AllSeen /\ Placed(s)
    BY <1>2, <1>3, <1>4, <1>7, <2>2 DEF Placed, InChunks, Batched, Using
  <2>4. Offset(s) = 0 /\ Offset(stream) = 0 /\ ~InChunks(stream)
    BY <1>1, <2>2 DEF Offset, InChunks, Using
  <2> QED BY <1>1, <2>1, <2>2, <2>3, <2>4, StayKeepsInv
<1> QED BY <1>5, <1>6, <1>7

LEMMA WindowEndsKeepsInv ==
    ASSUME StreamInv, WindowEnds
    PROVE  StreamInv'
<1>1. Running /\ stream.at = "head" /\ ~InChunks(stream)
  BY DEF WindowEnds, Running, InChunks
<1>2. /\ stream \in Streams /\ Placed(stream) /\ stream.ok
  BY <1>1, RunningFacts
<1>3. CASE Live /\ OpenEnded
  <2> DEFINE s == [stream EXCEPT !.at = "edge"]
  <2>1. Step(s)
    BY <1>3 DEF WindowEnds
  <2>2. /\ s \in Streams /\ s.at = "edge" /\ s.gen = stream.gen /\ s.ok
        /\ s.cursor = stream.cursor /\ s.last = stream.last
    BY <1>2 DEF Streams, Places
  <2> HIDE DEF s
  <2>3. Placed(s)
    BY <1>1, <1>2, <2>2 DEF Placed, InChunks, Batched, Using
  <2>4. Offset(s) = 0 /\ Offset(stream) = 0
    BY <1>1, <2>2 DEF Offset, InChunks, Using
  <2> QED BY <1>1, <2>1, <2>2, <2>3, <2>4, StayKeepsInv DEF Heads
<1>4. CASE ~(Live /\ OpenEnded)
  BY <1>1, <1>4, ReturnKeepsInv DEF WindowEnds, MayLeave
<1> QED BY <1>3, <1>4

LEMMA AwaitEdgeKeepsInv ==
    ASSUME StreamInv, AwaitEdge
    PROVE  StreamInv'
<1>1. Running /\ stream.at = "edge" /\ ~InChunks(stream)
  BY DEF AwaitEdge, Running, InChunks
<1>2. /\ stream \in Streams /\ Placed(stream) /\ stream.ok /\ Typed
  BY <1>1, RunningFacts DEF StreamInv
<1>3. CASE Interrupted /\ Return
  BY <1>1, <1>3, ReturnKeepsInv DEF MayLeave
<1>4. CASE edge > stream.last /\ Step([stream EXCEPT !.at = "head", !.last = @ + 1])
  <2> DEFINE n == stream.last + 1
             s == [stream EXCEPT !.at = "head", !.last = n]
  <2>0. stream.last \in Nat /\ edge \in 0 .. Last /\ Last \in Nat
    BY <1>2, PlaceTyped, KindFacts DEF Typed
  <2>1. Step(s) /\ n \in 0 .. Last /\ n <= edge
    BY <1>4, <2>0
  <2> HIDE DEF n
  <2>2. /\ s \in Streams /\ s.at = "head" /\ s.gen = stream.gen /\ s.ok
        /\ s.cursor = stream.cursor /\ s.last = n
    BY <1>2, <2>1 DEF Streams, Places
  <2> HIDE DEF s
  <2>3. Placed(s)
    BY <1>1, <1>2, <2>1, <2>2 DEF Placed, InChunks, Batched, Using
  <2>4. Offset(s) = 0 /\ Offset(stream) = 0
    BY <1>1, <2>2 DEF Offset, InChunks, Using
  <2> QED BY <1>1, <2>1, <2>2, <2>3, <2>4, StayKeepsInv DEF Heads
<1> QED BY <1>3, <1>4 DEF AwaitEdge

(* The Inits of a batch: what is missing is fetched first.                 *)
LEMMA PreparingIs ==
    ASSUME Typed, NEW s \in Streams, NEW k \in Nat, k >= 1, 1 <= Len(s.batch)
    PROVE  /\ Preparing(s, k) \in Streams
           /\ Preparing(s, k).at \in {"prepare", "download"}
           /\ Preparing(s, k).item \in 1 .. Len(s.batch)
           /\ Preparing(s, k).batch = s.batch /\ Preparing(s, k).cursor = s.cursor
           /\ Preparing(s, k).last = s.last /\ Preparing(s, k).gen = s.gen
           /\ Preparing(s, k).ok = s.ok
<1> DEFINE missing == {j \in k .. Len(s.batch) : s.batch[j].quality \notin s.inits}
           i == IF missing = {} THEN 1 ELSE CHOOSE j \in missing : \A m \in missing : j <= m
           at == IF missing = {} THEN "download" ELSE "prepare"
           r == [s EXCEPT !.guard = host.fetchCancel, !.at = at, !.item = i]
<1>1. Preparing(s, k) = r
  BY DEF Preparing
<1>2. Len(s.batch) \in Nat /\ host.fetchCancel \in Nat
  BY DEF Streams, Typed, Hosts
<1>3. missing \subseteq 1 .. Len(s.batch) /\ missing \in SUBSET Nat
  BY <1>2
<1>4. i \in 1 .. Len(s.batch)
  <2> HIDE DEF missing
  <2>1. CASE missing = {}
    BY <1>2, <2>1
  <2>2. CASE missing # {}
    <3>1. \E x \in missing : \A y \in missing : x <= y
      BY <1>3, <2>2, LeastExists
    <3>2. i \in missing
      BY <2>2, <3>1
    <3> QED BY <1>3, <3>2
  <2> QED BY <2>1, <2>2
<1>5. at \in {"prepare", "download"} /\ i \in Nat
  BY <1>4, <1>2
<1> HIDE DEF missing, i, at
<1>6. /\ r \in Streams /\ r.at = at /\ r.item = i /\ r.batch = s.batch /\ r.cursor = s.cursor
      /\ r.last = s.last /\ r.gen = s.gen /\ r.ok = s.ok
  BY <1>2, <1>5 DEF Streams, Places
<1> HIDE DEF r
<1> QED BY <1>1, <1>4, <1>5, <1>6

LEMMA PreparingKeepsInv ==
    ASSUME StreamInv, Running, stream.at \in {"capacity", "prepare"}, Frontier < stream.cursor,
           ~Kinds[kind].lowLatency, NEW s \in Streams,
           s.gen = stream.gen, s.ok, s.cursor = stream.cursor, s.last = stream.last,
           1 <= Len(s.batch), s.cursor + Len(s.batch) <= s.last + 1,
           \A j \in 1 .. Len(s.batch) : s.batch[j].seg = s.cursor + j - 1,
           NEW k \in Nat, k >= 1, Step(Preparing(s, k))
    PROVE  StreamInv'
<1> DEFINE r == Preparing(s, k)
<1>1. /\ r \in Streams /\ r.at \in {"prepare", "download"} /\ r.item \in 1 .. Len(s.batch)
      /\ r.batch = s.batch /\ r.cursor = s.cursor /\ r.last = s.last /\ r.gen = s.gen /\ r.ok = s.ok
  BY PreparingIs DEF StreamInv
<1>2. Step(r) /\ Placed(stream)
  BY RunningFacts
<1> HIDE DEF r
<1>3. Placed(r)
  BY <1>1, <1>2 DEF Placed, InChunks, Batched, Using
<1>4. Offset(r) = 0 /\ Offset(stream) = 0 /\ ~InChunks(stream)
  BY <1>1 DEF Offset, InChunks, Using
<1>5. stream.at \notin Heads /\ r.at \notin {"off", "returned"}
  BY <1>1 DEF Heads
<1>6. Offset(r) <= Offset(stream) /\ r.gen = stream.gen /\ r.ok /\ r.cursor = stream.cursor
  BY <1>1, <1>4
<1> QED BY <1>1, <1>2, <1>3, <1>4, <1>5, <1>6, StayKeepsInv

(* With nothing delivered from the cursor on, segments are planned in      *)
(* order from there.                                                       *)
LEMMA PlannedIs ==
    ASSUME Typed, TrackerExact, Placed(stream), stream.at = "capacity"
    PROVE  /\ Plannable = stream.cursor .. stream.last
           /\ Cardinality(Plannable) = stream.last - stream.cursor + 1
           /\ \A n \in 1 .. Cardinality(Plannable) : Planned(n) = stream.cursor + n - 1
<1>1. /\ stream.cursor \in Nat \ {0} /\ stream.last \in Nat /\ Frontier \in Nat
      /\ stream.last <= Last /\ Last \in Nat /\ stream \in Streams
  <2>1. stream \in Streams /\ Last \in Nat
    BY KindFacts DEF Typed
  <2>2. stream.last \in 0 .. Last
    BY <2>1 DEF Streams
  <2> QED BY <2>1, <2>2, PlaceTyped
<1>2. ~AllSeen /\ Frontier < stream.cursor /\ stream.cursor <= stream.last
  BY DEF Placed
<1>3. Plannable = stream.cursor .. stream.last
  <2>1. ASSUME NEW n \in stream.cursor .. stream.last PROVE ~Delivered(n)
    BY <1>1, <1>2, DeliveredIs
  <2> QED BY <2>1 DEF Plannable
<1>4. Cardinality(Plannable) = stream.last - stream.cursor + 1
  <2>1. stream.cursor \in Int /\ stream.last \in Int
    BY <1>1
  <2>2. Cardinality(stream.cursor .. stream.last) = stream.last - stream.cursor + 1
    BY <2>1, <1>2, FS_Interval
  <2> QED BY <1>3, <2>2
<1>5. ASSUME NEW n \in 1 .. Cardinality(Plannable)
      PROVE  Planned(n) = stream.cursor + n - 1
  <2>1. n \in Nat \ {0} /\ n <= stream.last - stream.cursor + 1
    BY <1>1, <1>4
  <2>2. \A k \in Plannable : {j \in Plannable : j <= k} = stream.cursor .. k
    BY <1>1, <1>3
  <2>3. \A k \in Plannable : Cardinality({j \in Plannable : j <= k}) = k - stream.cursor + 1
    <3> TAKE k \in Plannable
    <3>1. k \in Int /\ k >= stream.cursor
      BY <1>1, <1>3
    <3>2. stream.cursor \in Int
      BY <1>1
    <3>3. Cardinality(stream.cursor .. k) = k - stream.cursor + 1
      BY <3>1, <3>2, FS_Interval
    <3> QED BY <2>2, <3>3
  <2>4. \A k \in Plannable : k \in Int
    BY <1>1, <1>3
  <2>5. stream.cursor + n - 1 \in Plannable
    BY <1>1, <1>3, <2>1
  <2>6. \A k \in Plannable : Cardinality({j \in Plannable : j <= k}) = n
                                 <=> k = stream.cursor + n - 1
    BY <1>1, <2>1, <2>3, <2>4
  <2> QED BY <2>5, <2>6 DEF Planned
<1> QED BY <1>3, <1>4, <1>5

LEMMA PlanSegmentsKeepsInv ==
    ASSUME StreamInv, PlanSegments
    PROVE  StreamInv'
<1>1. Running /\ stream.at = "capacity" /\ ~InChunks(stream)
  BY DEF PlanSegments, Running, InChunks
<1>2. /\ stream \in Streams /\ Placed(stream) /\ stream.ok /\ Typed /\ TrackerExact
      /\ host.fetchCancel \in Nat /\ Frontier < stream.cursor /\ stream.cursor <= stream.last
  BY <1>1, RunningFacts DEF StreamInv, Typed, Hosts, Placed
<1>3. stream.cursor \in Nat \ {0} /\ stream.last \in Nat /\ Chunks \in Nat \ {0}
  BY <1>2, PlaceTyped
<1>4. CASE Interrupted
  BY <1>1, <1>4, ReturnKeepsInv DEF PlanSegments, MayLeave
<1>5. CASE ~Interrupted /\ Kinds[kind].lowLatency
  <2>1. PICK q \in Qualities : Step([stream EXCEPT !.at = "fetchChunks", !.quality = q,
                                                   !.chunk = 1, !.guard = host.fetchCancel])
    BY <1>5 DEF PlanSegments
  <2> DEFINE s == [stream EXCEPT !.at = "fetchChunks", !.quality = q,
                                 !.chunk = 1, !.guard = host.fetchCancel]
  <2>2. /\ s \in Streams /\ s.at = "fetchChunks" /\ s.gen = stream.gen /\ s.ok
        /\ s.cursor = stream.cursor /\ s.last = stream.last /\ s.chunk = 1
    BY <1>2 DEF Streams, Places
  <2>3. Step(s)
    BY <2>1
  <2> HIDE DEF s
  <2>4. Placed(s)
    BY <1>2, <1>3, <1>5, <2>2 DEF Placed, InChunks, Batched, Using
  <2>5. Offset(s) = 0 /\ Offset(stream) = 0
    BY <1>1, <2>2 DEF Offset, InChunks, Using
  <2> QED BY <1>1, <2>2, <2>3, <2>4, <2>5, StayKeepsInv DEF Heads
<1>6. CASE ~Interrupted /\ ~Kinds[kind].lowLatency
  <2>1. PICK n \in 1 .. MaxBatch :
            /\ n <= Cardinality(Plannable)
            /\ \E qs \in [1 .. n -> Qualities] :
                   Step(Preparing([stream EXCEPT !.batch =
                           [k \in 1 .. n |-> [seg |-> Planned(k), quality |-> qs[k], got |-> "ok"]]], 1))
    BY <1>6 DEF PlanSegments
  <2>2. PICK qs \in [1 .. n -> Qualities] :
            Step(Preparing([stream EXCEPT !.batch =
                    [k \in 1 .. n |-> [seg |-> Planned(k), quality |-> qs[k], got |-> "ok"]]], 1))
    BY <2>1
  <2> DEFINE b == [k \in 1 .. n |-> [seg |-> Planned(k), quality |-> qs[k], got |-> "ok"]]
             s == [stream EXCEPT !.batch = b]
  <2>3. n \in Nat \ {0} /\ n <= stream.last - stream.cursor + 1
    <3>1. MaxBatch \in Nat
      BY StreamAssumption DEF MaxBatch
    <3> QED BY <1>1, <1>2, <2>1, <3>1, PlannedIs
  <2>4. \A k \in 1 .. n : Planned(k) = stream.cursor + k - 1 /\ Planned(k) \in Nat
    BY <1>1, <1>2, <1>3, <2>3, PlannedIs
  <2>5. b \in Seq(Items) /\ Len(b) = n /\ \A k \in 1 .. n : b[k].seg = stream.cursor + k - 1
    BY <2>3, <2>4 DEF Items
  <2>6. Step(Preparing(s, 1))
    BY <2>2
  <2> HIDE DEF b
  <2>7. /\ s \in Streams /\ s.gen = stream.gen /\ s.ok
        /\ s.cursor = stream.cursor /\ s.last = stream.last /\ s.batch = b
    BY <1>2, <2>5 DEF Streams
  <2> HIDE DEF s
  <2>8. s.cursor + Len(s.batch) <= s.last + 1 /\ 1 <= Len(s.batch)
    BY <1>3, <2>3, <2>5, <2>7
  <2>9. \A j \in 1 .. Len(s.batch) : s.batch[j].seg = s.cursor + j - 1
    BY <2>5, <2>7
  <2> QED BY SMTT(30), <1>1, <1>2, <1>6, <2>6, <2>7, <2>8, <2>9, PreparingKeepsInv
<1> QED BY <1>4, <1>5, <1>6

LEMMA FunctionIsSeq ==
    ASSUME NEW S, NEW n \in Nat, NEW f \in [1 .. n -> S]
    PROVE  f \in Seq(S) /\ Len(f) = n
BY SeqDef

(* What a stream in a batch knows of it.                                   *)
LEMMA BatchFacts ==
    ASSUME StreamInv, Batched(stream)
    PROVE  /\ Running /\ ~InChunks(stream) /\ stream \in Streams /\ Placed(stream) /\ stream.ok
           /\ stream.at \notin Heads /\ host.fetchCancel \in Nat
           /\ stream.item \in 1 .. Len(stream.batch) /\ Item \in Items
           /\ stream.batch \in Seq(Items) /\ Len(stream.batch) \in Nat \ {0}
           /\ stream.cursor \in Nat \ {0} /\ stream.last \in Nat /\ Offset(stream) \in Nat
<1>1. Running /\ ~InChunks(stream) /\ stream.at \notin Heads
  BY DEF Batched, Running, InChunks, Heads
<1>2. /\ stream \in Streams /\ Placed(stream) /\ stream.ok /\ Typed
  BY <1>1, RunningFacts DEF StreamInv
<1>3. stream.item \in 1 .. Len(stream.batch) /\ stream.batch \in Seq(Items)
  BY <1>2 DEF Placed, Streams
<1>4. Item \in Items /\ Len(stream.batch) \in Nat \ {0} /\ host.fetchCancel \in Nat
  BY <1>2, <1>3 DEF Item, Typed, Hosts
<1> QED BY <1>1, <1>2, <1>3, <1>4, PlaceTyped

(* A batch with the current item one quality lower.                        *)
LEMMA LowerIs ==
    ASSUME StreamInv, Batched(stream), Item.quality # 0, NEW at \in Places
    PROVE  /\ LowerQuality(at) \in Streams /\ LowerQuality(at).at = at
           /\ LowerQuality(at).item = stream.item /\ LowerQuality(at).ok
           /\ LowerQuality(at).gen = stream.gen /\ LowerQuality(at).cursor = stream.cursor
           /\ LowerQuality(at).last = stream.last
           /\ Len(LowerQuality(at).batch) = Len(stream.batch)
           /\ \A j \in 1 .. Len(stream.batch) :
                  LowerQuality(at).batch[j].seg = stream.batch[j].seg
<1>1. /\ stream \in Streams /\ Item \in Items /\ stream.ok /\ host.fetchCancel \in Nat
      /\ stream.item \in 1 .. Len(stream.batch) /\ stream.batch \in Seq(Items)
  BY BatchFacts
<1> DEFINE e == [Item EXCEPT !.quality = @ - 1]
           b == [stream.batch EXCEPT ![stream.item] = e]
           r == [stream EXCEPT !.at = at, !.batch = b, !.guard = host.fetchCancel]
<1>2. LowerQuality(at) = r
  BY DEF LowerQuality, Item
<1>3. e \in Items /\ e.seg = Item.seg
  <2>1. Item.quality \in Nat /\ Item.quality > 0 /\ Item.quality \in Qualities
    BY <1>1, KindFacts DEF Items, StreamInv, Typed
  <2>2. Item.quality - 1 \in Qualities
    BY <2>1, QualityBelow DEF StreamInv, Typed
  <2> DEFINE q == Item.quality - 1
  <2>3. q \in Qualities
    BY <2>2
  <2> HIDE DEF q
  <2>4. [Item EXCEPT !.quality = q] \in Items /\ [Item EXCEPT !.quality = q].seg = Item.seg
    BY <1>1, <2>3 DEF Items
  <2> QED BY <2>4 DEF q
<1> HIDE DEF e
<1>4. /\ b \in Seq(Items) /\ Len(b) = Len(stream.batch)
      /\ \A j \in 1 .. Len(stream.batch) : b[j].seg = stream.batch[j].seg
  <2>1. b \in Seq(Items) /\ Len(b) = Len(stream.batch)
    BY <1>1, <1>3, ExceptSeq
  <2>2. ASSUME NEW j \in 1 .. Len(stream.batch) PROVE b[j].seg = stream.batch[j].seg
    BY <1>1, <1>3 DEF Item
  <2> QED BY <2>1, <2>2
<1> HIDE DEF b
<1>5. /\ r \in Streams /\ r.at = at /\ r.item = stream.item /\ r.ok = stream.ok
      /\ r.gen = stream.gen /\ r.cursor = stream.cursor /\ r.last = stream.last /\ r.batch = b
  BY <1>1, <1>4 DEF Streams
<1> HIDE DEF r
<1> QED BY <1>1, <1>2, <1>4, <1>5

LEMMA LowerKeepsInv ==
    ASSUME StreamInv, Batched(stream), Item.quality # 0, NEW at \in {"prepare", "fallback"},
           at = "fallback" <=> Using(stream), at = "prepare" => Frontier < stream.cursor,
           Step(LowerQuality(at))
    PROVE  StreamInv'
<1> DEFINE r == LowerQuality(at)
<1>1. /\ r \in Streams /\ r.at = at /\ r.item = stream.item /\ r.ok
      /\ r.gen = stream.gen /\ r.cursor = stream.cursor /\ r.last = stream.last
      /\ Len(r.batch) = Len(stream.batch)
      /\ \A j \in 1 .. Len(stream.batch) : r.batch[j].seg = stream.batch[j].seg
  BY LowerIs DEF Places
<1>2. Step(r)
  OBVIOUS
<1> HIDE DEF r
<1>3. Placed(r)
  BY <1>1, BatchFacts DEF Placed, InChunks, Batched, Using
<1>4. Offset(r) = Offset(stream)
  BY <1>1, BatchFacts DEF Offset, InChunks, Using
<1>5. Offset(r) <= Offset(stream)
  BY <1>4, BatchFacts
<1> QED BY <1>1, <1>2, <1>3, <1>5, BatchFacts, StayKeepsInv

(* The other parts of a record stay while the stream moves inside a batch, *)
(* or goes back to the loop's head.                                        *)
LEMMA BatchMoveKeepsInv ==
    ASSUME StreamInv, Batched(stream), NEW at \in {"head", "decrypt"},
           at = "decrypt" => Using(stream), NEW inits \in SUBSET Qualities,
           Step([stream EXCEPT !.at = at, !.inits = inits])
    PROVE  StreamInv'
<1> DEFINE s == [stream EXCEPT !.at = at, !.inits = inits]
<1>1. /\ s \in Streams /\ s.at = at /\ s.item = stream.item /\ s.ok /\ s.batch = stream.batch
      /\ s.gen = stream.gen /\ s.cursor = stream.cursor /\ s.last = stream.last
  BY BatchFacts DEF Streams, Places
<1>2. Step(s)
  OBVIOUS
<1> HIDE DEF s
<1>3. Placed(s)
  BY <1>1, BatchFacts DEF Placed, InChunks, Batched, Using
<1>4. Offset(s) <= Offset(stream)
  BY <1>1, BatchFacts DEF Offset, InChunks, Using
<1> QED BY <1>1, <1>2, <1>3, <1>4, BatchFacts, StayKeepsInv

LEMMA PrepareKeepsInv ==
    ASSUME StreamInv, Prepare
    PROVE  StreamInv'
<1>1. Batched(stream) /\ stream.at = "prepare" /\ ~InChunks(stream)
  BY DEF Prepare, Batched, InChunks
<1>2. /\ Running /\ stream \in Streams /\ Placed(stream) /\ stream.ok /\ Item.quality \in Qualities
      /\ stream.item \in Nat /\ 1 <= Len(stream.batch)
  BY <1>1, BatchFacts DEF Items
<1>3. CASE Interrupted
  <2>1. CASE Return
    BY <1>1, <1>2, <1>3, <2>1, ReturnKeepsInv DEF MayLeave
  <2>2. CASE Step(Preparing([stream EXCEPT !.inits = @ \cup {Item.quality}], stream.item + 1))
    <3> DEFINE s == [stream EXCEPT !.inits = @ \cup {Item.quality}]
    <3>1. /\ s \in Streams /\ s.gen = stream.gen /\ s.ok /\ s.cursor = stream.cursor
          /\ s.last = stream.last /\ s.batch = stream.batch
      BY <1>2 DEF Streams
    <3>2. Step(Preparing(s, stream.item + 1)) /\ stream.item + 1 \in Nat /\ stream.item + 1 >= 1
      BY <1>2, <2>2
    <3> HIDE DEF s
    <3>3. /\ Frontier < stream.cursor /\ ~Kinds[kind].lowLatency
          /\ s.cursor + Len(s.batch) <= s.last + 1
          /\ \A j \in 1 .. Len(s.batch) : s.batch[j].seg = s.cursor + j - 1
      BY <1>1, <1>2, <3>1 DEF Placed
    <3> QED BY <1>1, <1>2, <3>1, <3>2, <3>3, PreparingKeepsInv
  <2> QED BY <2>1, <2>2 DEF Prepare
<1>4. CASE ~Interrupted
  <2> DEFINE s == [stream EXCEPT !.inits = @ \cup {Item.quality}]
  <2>1. /\ s \in Streams /\ s.gen = stream.gen /\ s.ok /\ s.cursor = stream.cursor
        /\ s.last = stream.last /\ s.batch = stream.batch
    BY <1>2 DEF Streams
  <2>2. Step(Preparing(s, stream.item + 1)) /\ stream.item + 1 \in Nat /\ stream.item + 1 >= 1
    BY <1>2, <1>4 DEF Prepare
  <2> HIDE DEF s
  <2>3. /\ Frontier < stream.cursor /\ ~Kinds[kind].lowLatency
        /\ s.cursor + Len(s.batch) <= s.last + 1
        /\ \A j \in 1 .. Len(s.batch) : s.batch[j].seg = s.cursor + j - 1
    BY <1>1, <1>2, <2>1 DEF Placed
  <2> QED BY <1>1, <1>2, <2>1, <2>2, <2>3, PreparingKeepsInv
<1> QED BY <1>3, <1>4

LEMMA PrepareFailsKeepsInv ==
    ASSUME StreamInv, PrepareFails
    PROVE  StreamInv'
<1>1. Batched(stream) /\ stream.at = "prepare" /\ ~InChunks(stream) /\ ~Using(stream)
  BY DEF PrepareFails, Batched, InChunks, Using
<1>2. /\ Running /\ Placed(stream) /\ stream.item \in Nat /\ 1 <= Len(stream.batch)
      /\ Frontier < stream.cursor
  BY <1>1, BatchFacts DEF Placed
<1>3. CASE Raise
  BY <1>2, <1>3, ReturnKeepsInv
<1>4. CASE Item.quality # 0 /\ Step(LowerQuality("prepare"))
  BY <1>1, <1>2, <1>4, LowerKeepsInv
<1>5. CASE Interrupted /\ Return
  BY <1>1, <1>2, <1>5, ReturnKeepsInv DEF MayLeave
<1>6. CASE Item.quality # 0 /\ Step(Preparing(LowerQuality("prepare"), stream.item + 1))
  <2> DEFINE s == LowerQuality("prepare")
  <2>1. /\ s \in Streams /\ s.ok /\ s.gen = stream.gen /\ s.cursor = stream.cursor
        /\ s.last = stream.last /\ Len(s.batch) = Len(stream.batch)
        /\ \A j \in 1 .. Len(stream.batch) : s.batch[j].seg = stream.batch[j].seg
    BY <1>1, <1>6, LowerIs DEF Places
  <2>2. Step(Preparing(s, stream.item + 1)) /\ stream.item + 1 \in Nat /\ stream.item + 1 >= 1
    BY <1>2, <1>6
  <2> HIDE DEF s
  <2>3. /\ ~Kinds[kind].lowLatency
        /\ s.cursor + Len(s.batch) <= s.last + 1
        /\ \A j \in 1 .. Len(s.batch) : s.batch[j].seg = s.cursor + j - 1
    BY <1>1, <1>2, <2>1 DEF Placed
  <2> QED BY <1>1, <1>2, <2>1, <2>2, <2>3, PreparingKeepsInv
<1> QED BY <1>3, <1>4, <1>5, <1>6 DEF PrepareFails

LEMMA DownloadedKeepsInv ==
    ASSUME StreamInv, Downloaded
    PROVE  StreamInv'
<1>1. Batched(stream) /\ stream.at = "download" /\ ~InChunks(stream)
  BY DEF Downloaded, Batched, InChunks
<1>2. CASE Interrupted
  BY <1>1, <1>2, BatchFacts, ReturnKeepsInv DEF Downloaded, MayLeave
<1>3. CASE ~Interrupted
  <2>1. PICK got \in [DOMAIN stream.batch -> Outcomes] :
            Step([stream EXCEPT !.at = "result", !.item = 1,
                      !.batch = [k \in DOMAIN @ |-> [@[k] EXCEPT !.got = got[k]]]])
    BY <1>3 DEF Downloaded
  <2> DEFINE b == [k \in DOMAIN stream.batch |-> [stream.batch[k] EXCEPT !.got = got[k]]]
             s == [stream EXCEPT !.at = "result", !.item = 1, !.batch = b]
  <2>2. Step(s)
    BY <2>1
  <2>3. b \in Seq(Items) /\ Len(b) = Len(stream.batch)
        /\ \A k \in 1 .. Len(stream.batch) : b[k].seg = stream.batch[k].seg
    <3>1. stream.batch \in Seq(Items) /\ DOMAIN stream.batch = 1 .. Len(stream.batch)
          /\ Len(stream.batch) \in Nat
      BY <1>1, BatchFacts
    <3>2. Outcomes \subseteq {"ok", "failed", "cancelled"}
      BY DEF Outcomes
    <3>3. ASSUME NEW k \in 1 .. Len(stream.batch)
          PROVE  b[k] \in Items /\ b[k].seg = stream.batch[k].seg
      <4>1. stream.batch[k] \in Items /\ got[k] \in {"ok", "failed", "cancelled"}
        <5>1. got[k] \in Outcomes
          BY <3>1
        <5>2. stream.batch[k] \in Items
          BY <3>1, ElementOfSeq
        <5> QED BY <3>2, <5>1, <5>2
      <4>2. b[k] = [stream.batch[k] EXCEPT !.got = got[k]]
        BY <3>1
      <4> HIDE DEF b
      <4> QED BY <4>1, <4>2 DEF Items
    <3>4. b = [k \in 1 .. Len(stream.batch) |-> b[k]] /\ DOMAIN b = 1 .. Len(stream.batch)
      BY <3>1
    <3> HIDE DEF b
    <3>5. b \in [1 .. Len(stream.batch) -> Items]
      BY <3>3, <3>4
    <3> QED BY <3>1, <3>3, <3>5, FunctionIsSeq
  <2> HIDE DEF b
  <2>4. /\ s \in Streams /\ s.at = "result" /\ s.item = 1 /\ s.batch = b /\ s.ok
        /\ s.gen = stream.gen /\ s.cursor = stream.cursor /\ s.last = stream.last
    BY <1>1, <2>3, BatchFacts DEF Streams, Places
  <2> HIDE DEF s
  <2>5. Placed(s)
    BY <1>1, <2>3, <2>4, BatchFacts DEF Placed, InChunks, Batched, Using
  <2>6. Offset(s) = 0 /\ Offset(stream) = 0
    BY <1>1, <2>4 DEF Offset, InChunks, Using
  <2> QED BY <1>1, <2>2, <2>4, <2>5, <2>6, BatchFacts, StayKeepsInv
<1> QED BY <1>2, <1>3

(* A batch is left at the first download without media, and its segments   *)
(* from there on are planned again.                                        *)
LEMMA UseResultKeepsInv ==
    ASSUME StreamInv, UseResult
    PROVE  StreamInv'
<1>1. Batched(stream) /\ Using(stream)
  BY DEF UseResult, Batched, Using
<1>2. \A at \in {"decrypt", "head"} :
          [stream EXCEPT !.at = at] = [stream EXCEPT !.at = at, !.inits = stream.inits]
      /\ stream.inits \in SUBSET Qualities
  BY <1>1, BatchFacts DEF Streams
<1>3. CASE Item.got = "ok"
  BY <1>1, <1>2, <1>3, BatchMoveKeepsInv DEF UseResult
<1>4. CASE Item.got = "cancelled"
  BY <1>1, <1>2, <1>4, BatchMoveKeepsInv DEF UseResult
<1>5. CASE Item.got \notin {"ok", "cancelled"} /\ Item.quality = 0
  BY <1>1, <1>5, BatchFacts, ReturnKeepsInv DEF UseResult
<1>6. CASE Item.got \notin {"ok", "cancelled"} /\ Item.quality # 0
  BY <1>1, <1>6, LowerKeepsInv DEF UseResult
<1> QED BY <1>3, <1>4, <1>5, <1>6

LEMMA FallbackKeepsInv ==
    ASSUME StreamInv, FallbackFetched \/ FallbackFails
    PROVE  StreamInv'
<1>1. Batched(stream) /\ Using(stream)
  BY DEF FallbackFetched, FallbackFails, Batched, Using
<1> DEFINE inits == stream.inits \cup {Item.quality}
<1>2. /\ inits \in SUBSET Qualities
      /\ Item.quality \in Nat
  BY <1>1, BatchFacts, KindFacts DEF Streams, Items, StreamInv, Typed
<1> HIDE DEF inits
<1>3. CASE FallbackFetched
  <2>1. Step([stream EXCEPT !.at = "decrypt", !.inits = inits])
    BY <1>3 DEF FallbackFetched, inits
  <2> QED BY <1>1, <1>2, <2>1, BatchMoveKeepsInv
<1>4. CASE FallbackFails
  <2>1. CASE Step([stream EXCEPT !.at = "head", !.inits = @ \cup {Item.quality}])
    <3>1. Step([stream EXCEPT !.at = "head", !.inits = inits])
      BY <2>1 DEF inits
    <3> QED BY <1>1, <1>2, <3>1, BatchMoveKeepsInv
  <2>2. CASE Item.quality > 0 /\ Step(LowerQuality("fallback"))
    BY <1>1, <1>2, <2>2, LowerKeepsInv
  <2>3. CASE Raise
    BY <1>1, <2>3, BatchFacts, ReturnKeepsInv
  <2> QED BY <1>4, <2>1, <2>2, <2>3 DEF FallbackFails
<1> QED BY <1>3, <1>4

(* The stream at a segment that arrives in chunks, before it is delivered. *)
LEMMA ChunkMoveKeepsInv ==
    ASSUME StreamInv, stream.at \in {"fetchChunks", "chunk", "chunkGate"},
           NEW at \in {"head", "chunk", "chunkGate", "decryptChunk"},
           at = "head" => stream.at = "fetchChunks",
           at \in {"chunkGate", "decryptChunk"} => InChunks(stream) /\ stream.chunk <= Chunks,
           NEW inits \in SUBSET Qualities, Step([stream EXCEPT !.at = at, !.inits = inits])
    PROVE  StreamInv'
<1>1. Running /\ stream.at \notin Heads
  BY DEF Running, Heads
<1>2. stream \in Streams /\ Placed(stream) /\ stream.ok
  BY <1>1, RunningFacts
<1> DEFINE s == [stream EXCEPT !.at = at, !.inits = inits]
<1>3. /\ s \in Streams /\ s.at = at /\ s.chunk = stream.chunk /\ s.ok
      /\ s.gen = stream.gen /\ s.cursor = stream.cursor /\ s.last = stream.last
  BY <1>2 DEF Streams, Places
<1>4. Step(s)
  OBVIOUS
<1> HIDE DEF s
<1>5. Placed(s)
  BY <1>2, <1>3 DEF Placed, InChunks, Batched, Using
<1>6. Offset(s) <= Offset(stream)
  BY <1>2, <1>3 DEF Offset, InChunks, Using, Placed
<1>7. InChunks(stream) => InChunks(s)
  BY <1>3 DEF InChunks
<1> QED BY <1>1, <1>3, <1>4, <1>5, <1>6, <1>7, StayKeepsInv

LEMMA ChunksFetchedKeepsInv ==
    ASSUME StreamInv, ChunksFetched \/ ChunksFail
    PROVE  StreamInv'
<1>1. Running /\ stream.at = "fetchChunks" /\ ~InChunks(stream)
  BY DEF ChunksFetched, ChunksFail, Running, InChunks
<1>2. stream \in Streams /\ Placed(stream) /\ stream.ok /\ Typed /\ host.fetchCancel \in Nat
  BY <1>1, RunningFacts DEF StreamInv, Typed, Hosts
<1> DEFINE inits == stream.inits \cup {stream.quality}
<1>3. inits \in SUBSET Qualities
  BY <1>2 DEF Streams
<1> HIDE DEF inits
<1>4. CASE Step([stream EXCEPT !.at = "chunk", !.inits = @ \cup {stream.quality}])
  <2>1. Step([stream EXCEPT !.at = "chunk", !.inits = inits])
    BY <1>4 DEF inits
  <2> QED BY <1>1, <1>3, <2>1, ChunkMoveKeepsInv
<1>5. CASE Step([stream EXCEPT !.at = "head", !.inits = @ \cup {stream.quality}])
  <2>1. Step([stream EXCEPT !.at = "head", !.inits = inits])
    BY <1>5 DEF inits
  <2> QED BY <1>1, <1>3, <2>1, ChunkMoveKeepsInv
<1>6. CASE /\ stream.quality > 0
           /\ Step([stream EXCEPT !.quality = @ - 1, !.guard = host.fetchCancel])
  <2> DEFINE q == stream.quality - 1
             s == [stream EXCEPT !.quality = q, !.guard = host.fetchCancel]
  <2>1. q \in Qualities
    BY <1>2, <1>6, QualityBelow DEF Streams, Typed
  <2>2. Step(s)
    BY <1>6
  <2> HIDE DEF q
  <2>3. /\ s \in Streams /\ s.at = "fetchChunks" /\ s.gen = stream.gen /\ s.ok
        /\ s.cursor = stream.cursor /\ s.last = stream.last /\ s.chunk = stream.chunk
    BY <1>1, <1>2, <2>1 DEF Streams, Places
  <2> HIDE DEF s
  <2>4. Placed(s)
    BY <1>1, <1>2, <2>3 DEF Placed, InChunks, Batched, Using
  <2>5. Offset(s) = 0 /\ Offset(stream) = 0
    BY <1>1, <2>3 DEF Offset, InChunks, Using
  <2>6. stream.at \notin Heads
    BY <1>1 DEF Heads
  <2> QED BY <1>1, <2>2, <2>3, <2>4, <2>5, <2>6, StayKeepsInv
<1>7. CASE Raise
  BY <1>1, <1>7, ReturnKeepsInv
<1> QED BY <1>4, <1>5, <1>6, <1>7 DEF ChunksFetched, ChunksFail

LEMMA TakeChunkKeepsInv ==
    ASSUME StreamInv, TakeChunk \/ PassChunk
    PROVE  StreamInv'
<1>1. Running /\ stream.at \in {"chunk", "chunkGate"} /\ InChunks(stream)
  BY DEF TakeChunk, PassChunk, Running, InChunks
<1>2. stream \in Streams /\ Placed(stream)
  BY <1>1, RunningFacts
<1>3. \A at \in Places :
          [stream EXCEPT !.at = at] = [stream EXCEPT !.at = at, !.inits = stream.inits]
      /\ stream.inits \in SUBSET Qualities
  BY <1>2 DEF Streams
<1>4. CASE Interrupted /\ Return
  BY <1>1, <1>4, ReturnKeepsInv DEF MayLeave
<1>5. CASE stream.at = "chunk" /\ stream.chunk <= Chunks /\ Step([stream EXCEPT !.at = "chunkGate"])
  <2>1. Step([stream EXCEPT !.at = "chunkGate", !.inits = stream.inits])
    BY <1>3, <1>5 DEF Places
  <2> QED BY <1>1, <1>3, <1>5, <2>1, ChunkMoveKeepsInv DEF Places
<1>6. CASE stream.at = "chunkGate" /\ Step([stream EXCEPT !.at = "decryptChunk"])
  <2>1. Step([stream EXCEPT !.at = "decryptChunk", !.inits = stream.inits])
    BY <1>3, <1>6 DEF Places
  <2>2. stream.chunk <= Chunks
    BY <1>2, <1>6 DEF Placed
  <2> QED BY <1>1, <1>3, <1>6, <2>1, <2>2, ChunkMoveKeepsInv DEF Places
<1> QED BY <1>4, <1>5, <1>6 DEF TakeChunk, PassChunk

LEMMA DecryptFailsKeepsInv ==
    ASSUME StreamInv, DecryptFails
    PROVE  StreamInv'
BY ReturnKeepsInv DEF DecryptFails, Running

-----------------------------------------------------------------------------
(* A tick begins: the seek target or the live target, past what the        *)
(* tracker has.                                                            *)

LEMMA FirstWantedIs ==
    ASSUME Typed
    PROVE  /\ FirstWanted \in Nat \ {0}
           /\ ~Live /\ loop.target # NoTime /\ loop.target < edge
                  => FirstWanted = loop.target + 1
<1> DEFINE target == IF loop.target # NoTime THEN loop.target
                     ELSE IF Live /\ edge > Kinds[kind].delay THEN edge - Kinds[kind].delay ELSE 0
           after == {n \in 1 .. edge : SegEnd(Segment(n)) > target}
<1>1. FirstWanted = IF after = {} THEN 1 ELSE CHOOSE n \in after : \A m \in after : n <= m
  BY DEF FirstWanted
<1>2. after \in SUBSET Nat /\ after \subseteq Nat \ {0} /\ edge \in Nat
  BY KindFacts DEF Typed
<1>3. \A n \in 1 .. edge : SegEnd(Segment(n)) = n
  BY DEF SegEnd, Segment
<1>4. after # {} => \E x \in after : \A y \in after : x <= y
  <2> HIDE DEF after
  <2> QED BY <1>2, LeastExists
<1>5. FirstWanted \in Nat \ {0}
  <2> HIDE DEF after
  <2>1. CASE after = {}
    BY <1>1, <2>1
  <2>2. CASE after # {}
    <3>1. FirstWanted \in after
      BY <1>1, <1>4, <2>2
    <3> QED BY <1>2, <3>1
  <2> QED BY <2>1, <2>2
<1>6. ASSUME ~Live, loop.target # NoTime, loop.target < edge
      PROVE  FirstWanted = loop.target + 1
  <2>1. loop.target \in Nat /\ target = loop.target
    BY <1>6, KindFacts DEF Typed, Targets
  <2> HIDE DEF target
  <2>2. after = loop.target + 1 .. edge
    BY <1>2, <1>3, <2>1
  <2>3. loop.target + 1 \in after /\ \A m \in after : loop.target + 1 <= m
    BY <1>2, <1>6, <2>1, <2>2
  <2>4. \A n \in after : (\A m \in after : n <= m) => n = loop.target + 1
    BY <1>2, <2>1, <2>2, <2>3
  <2> HIDE DEF after
  <2> QED BY <1>1, <2>3, <2>4
<1> QED BY <1>5, <1>6

LEMMA AdvanceIs ==
    ASSUME Typed, TrackerExact, NEW i \in Nat \ {0}
    PROVE  LET cursor == AdvanceStartIndex(session.tracker, SubSeq(Timeline, 1, edge), i, 0)
           IN  /\ cursor \in 1 .. edge + 1
               /\ session.tracker = NewTracker /\ i <= edge => cursor = i
<1> DEFINE segs == SubSeq(Timeline, 1, edge)
           fresh == {j \in i .. edge : ~Delivered(j)}
           cursor == IF fresh = {} THEN edge + 1 ELSE CHOOSE j \in fresh : \A k \in fresh : j <= k
<1>1. edge \in Nat /\ Last \in Nat /\ edge <= Last
  BY KindFacts DEF Typed
<1>2. Len(segs) = edge /\ \A j \in 1 .. edge : segs[j] = Segment(j)
  <2>1. Timeline = [n \in 1 .. Last |-> Segment(n)]
    BY DEF Timeline
  <2>2. Timeline \in Seq({Segment(n) : n \in 1 .. Last}) /\ Len(Timeline) = Last
    <3>1. Timeline \in [1 .. Last -> {Segment(n) : n \in 1 .. Last}]
      BY <2>1
    <3> QED BY <1>1, <3>1, FunctionIsSeq
  <2>3. Len(segs) = edge /\ \A j \in 1 .. edge : segs[j] = Timeline[j]
    BY <1>1, <2>2
  <2> QED BY <1>1, <2>1, <2>3
<1>3. AdvanceStartIndex(session.tracker, segs, i, 0) = cursor
  <2> HIDE DEF segs
  <2> DEFINE T == {j \in i .. Len(segs) : ~IsDelivered(session.tracker, segs[j], 0)}
  <2>1. AdvanceStartIndex(session.tracker, segs, i, 0)
            = IF T = {} THEN Len(segs) + 1 ELSE CHOOSE j \in T : \A k \in T : j <= k
    BY DEF AdvanceStartIndex
  <2>2. T = fresh
    BY <1>1, <1>2 DEF Delivered
  <2> HIDE DEF T, fresh
  <2> QED BY <1>2, <2>1, <2>2
<1>4. fresh \in SUBSET Nat /\ fresh \subseteq i .. edge
  BY <1>1
<1>5. fresh # {} => \E x \in fresh : \A y \in fresh : x <= y
  <2> HIDE DEF fresh
  <2> QED BY <1>4, LeastExists
<1>6. cursor \in 1 .. edge + 1
  <2> HIDE DEF fresh
  <2>1. CASE fresh = {}
    BY <1>1, <2>1
  <2>2. CASE fresh # {}
    <3>1. cursor \in fresh
      BY <1>5, <2>2
    <3> HIDE DEF cursor
    <3> QED BY <1>1, <1>4, <3>1
  <2> QED BY <2>1, <2>2
<1>7. ASSUME session.tracker = NewTracker, i <= edge PROVE cursor = i
  <2>1. ~AllSeen /\ Frontier = 0
    BY <1>7 DEF NewTracker, AllSeen, Frontier
  <2>2. ASSUME NEW j \in i .. edge PROVE ~Delivered(j)
    <3>1. j \in 1 .. Last /\ j > 0
      BY <1>1
    <3> QED BY <2>1, <3>1, DeliveredIs
  <2>3. fresh = i .. edge
    BY <2>2
  <2>4. i \in fresh /\ \A m \in fresh : i <= m /\ m \in Nat
    BY <1>1, <1>7, <2>3
  <2>5. \A n \in fresh : (\A m \in fresh : n <= m) => n = i
    BY <2>4
  <2> HIDE DEF fresh
  <2> QED BY <2>4, <2>5
<1> HIDE DEF cursor
<1> QED BY <1>3, <1>6, <1>7

LEMMA BeginStreamKeepsInv ==
    ASSUME StreamInv, BeginStream
    PROVE  StreamInv'
<1> USE DEF StreamInv
<1> DEFINE c == AdvanceStartIndex(session.tracker, SubSeq(Timeline, 1, edge), FirstWanted, 0)
           at == IF session.haveInit THEN "head" ELSE "init"
<1>1. PICK q \in Qualities :
          stream' = [Idle EXCEPT !.at = at, !.gen = host.seekGen, !.cursor = c, !.last = edge,
                                 !.quality = q, !.guard = host.fetchCancel]
  BY DEF BeginStream
<1>2. /\ loop.at = "setup" /\ loop' = [loop EXCEPT !.at = "join"]
      /\ loop \in [at : LoopPlaces, gen : Nat, target : Targets]
      /\ session' = [session EXCEPT !.haveInit = TRUE]
      /\ session \in [haveInit : BOOLEAN, tracker : Trackers]
      /\ UNCHANGED <<kind, host, edge, out, dropped>> /\ host \in Hosts
  BY DEF BeginStream, Goto, Typed
<1>3. /\ c \in 1 .. edge + 1
      /\ session.tracker = NewTracker /\ FirstWanted <= edge => c = FirstWanted
  BY FirstWantedIs, AdvanceIs
<1>4. /\ edge \in Nat /\ Last \in Nat /\ edge <= Last /\ Chunks \in Nat /\ 0 \in Qualities
      /\ host.seekGen \in Nat /\ host.fetchCancel \in Nat /\ at \in {"init", "head"}
  <2>1. Kinds[kind].top \in Nat
    BY StreamAssumption DEF Typed, Kind
  <2> QED BY <2>1, KindFacts DEF Typed, Hosts, Qualities
<1> HIDE DEF c, at
<1>5. /\ stream' \in Streams /\ stream'.at = at /\ stream'.gen = host.seekGen /\ stream'.ok
      /\ stream'.cursor = c /\ stream'.last = edge /\ Running' /\ ~InChunks(stream)'
      /\ ~Using(stream)'
  <2>1. c \in 1 .. Last + 1
    BY <1>3, <1>4
  <2>2. /\ stream' \in Streams /\ stream'.at = at /\ stream'.gen = host.seekGen /\ stream'.ok
        /\ stream'.cursor = c /\ stream'.last = edge
    <3>1. stream' = [ at |-> at, gen |-> host.seekGen, cursor |-> c, last |-> edge,
                      started |-> FALSE, inits |-> {}, quality |-> q,
                      guard |-> host.fetchCancel, batch |-> <<>>, item |-> 1, chunk |-> 1,
                      ok |-> TRUE ]
      BY <1>1 DEF Idle
    <3>2. edge \in 0 .. Last /\ <<>> \in Seq(Items) /\ at \in Places
      BY <1>4 DEF Places
    <3> QED BY <1>4, <2>1, <3>1, <3>2 DEF Streams
  <2> QED BY <1>4, <2>2 DEF Running, InChunks, Using
<1>6. /\ loop' \in [at : LoopPlaces, gen : Nat, target : Targets] /\ loop'.at = "join"
      /\ loop'.gen = loop.gen /\ loop'.target = loop.target
  BY <1>2 DEF LoopPlaces
<1>7. session'.tracker = session.tracker /\ session' \in [haveInit : BOOLEAN, tracker : Trackers]
  BY <1>2
<1>8. Typed'
  BY <1>2, <1>5, <1>6, <1>7, SameKind DEF Typed
<1>9. TrackerExact' /\ Placed(stream)'
  BY <1>2, <1>4, <1>5, <1>7, TrackerSame DEF TrackerExact, Placed, InChunks, Batched, Using
<1>10. GensInOrder'
  BY <1>2, <1>4, <1>5, <1>6 DEF GensInOrder
<1>11. ~Settled /\ ~Settled' /\ ~Running
  BY <1>2, <1>5, <1>6 DEF Settled, GensInOrder
<1>12. Alone'
  BY <1>2, <1>5, <1>6 DEF Alone
<1>13. Ordered'
  <2>1. Reached(stream)' = Reached(stream)
    BY <1>2, <1>5, <1>7, <1>11, TrackerSame DEF Reached, InChunks, Running
  <2> QED BY <1>2, <1>7, <1>11, <2>1, TrackerSame DEF Ordered
<1>14. OneRun => Fresh
  BY <1>2 DEF Alone
<1>15. Complete' /\ Kept'
  BY <1>2, <1>14, SameKind DEF Complete, Kept, Covers, Fresh
<1>16. Sought'
  <2> SUFFICES ASSUME ~Live, loop.target # NoTime, loop.target < edge
               PROVE  Sought'
    BY <1>2, <1>6, SameKind DEF Sought, SoughtInside
  <2>1. Given = {} /\ session.tracker = NewTracker
    BY <1>14 DEF OneRun, Fresh, Given
  <2>2. loop.target \in Nat /\ c = loop.target + 1
    BY <1>2, <1>3, <1>4, <2>1, FirstWantedIs, KindFacts DEF Typed, Targets
  <2>3. Passed(stream)' = loop.target * Chunks
    <3>1. c - 1 = loop.target
      BY <2>2
    <3>2. Passed(stream)' = (c - 1) * Chunks + 0
      BY <1>2, <1>5, SameKind DEF Passed, Offset
    <3> QED BY <1>4, <2>2, <3>1, <3>2
  <2> QED BY <1>2, <1>5, <1>6, <1>7, <2>1, <2>2, <2>3, TrackerSame, SameKind DEF Sought
<1> QED BY <1>8, <1>9, <1>10, <1>12, <1>13, <1>15, <1>16

-----------------------------------------------------------------------------
(* Delivery.                                                               *)

(* The tracker records a segment past its frontier.                        *)
LEMMA MarkIs ==
    ASSUME Typed, TrackerExact, NEW n \in 1 .. Last, Frontier < n, Mark(n), kind' = kind
    PROVE  /\ session' \in [haveInit : BOOLEAN, tracker : Trackers]
           /\ Frontier' = n /\ TrackerExact'
<1> DEFINE t == session.tracker
           u == IF Segment(n).url = NoUrl THEN t.urls ELSE t.urls \cup {Segment(n).url}
<1>1. /\ t \in Trackers /\ t.lastEnd \in Nat /\ t.lastAbsEnd = t.lastEnd /\ t.lastEnd < n
      /\ t.keys \subseteq 1 .. t.lastEnd /\ n \in Nat /\ n \in 0 .. Last /\ t.periodStart = 0
  BY KindFacts DEF Typed, Trackers, TrackerExact, Frontier
<1>2. Segment(n).key = n /\ SegEnd(Segment(n)) = n
  <2>1. Segment(n).key = n /\ Segment(n).start = n - 1 /\ Segment(n).dur = 1
    BY DEF Segment
  <2> QED BY <1>1, <2>1 DEF SegEnd
<1>3. MarkDelivered(t, Segment(n), 0)
          = [t EXCEPT !.keys = t.keys \cup {n}, !.urls = u, !.lastEnd = n, !.lastAbsEnd = n]
  <2>1. /\ Larger(t.lastEnd, SegEnd(Segment(n))) = n
        /\ Larger(t.lastAbsEnd, 0 + SegEnd(Segment(n))) = n
    BY <1>1, <1>2 DEF Larger
  <2>2. MarkDelivered(t, Segment(n), 0)
            = [t EXCEPT !.keys = t.keys \cup {Segment(n).key}, !.urls = u,
                        !.lastEnd = Larger(t.lastEnd, SegEnd(Segment(n))),
                        !.lastAbsEnd = Larger(t.lastAbsEnd, 0 + SegEnd(Segment(n)))]
    BY <1>1 DEF MarkDelivered
  <2> QED BY <1>2, <2>1, <2>2
<1>4. u \in SUBSET {"bundle"}
  <2>1. Segment(n).url = "bundle" \/ Segment(n).url = NoUrl
    BY DEF Segment
  <2> QED BY <1>1, <2>1 DEF Trackers
<1> DEFINE ks == t.keys \cup {n}
           m == [t EXCEPT !.keys = ks, !.urls = u, !.lastEnd = n, !.lastAbsEnd = n]
<1> HIDE DEF u
<1>5. /\ m \in Trackers /\ m.lastEnd = n /\ m.lastAbsEnd = n /\ m.keys = t.keys \cup {n}
  <2>1. ks \in SUBSET Nat
    BY <1>1 DEF Trackers
  <2>2. t \in Trackers /\ n \in 0 .. Last
    BY <1>1
  <2> HIDE DEF ks, t
  <2>3. /\ m \in Trackers /\ m.lastEnd = n /\ m.lastAbsEnd = n /\ m.keys = ks
    BY <1>4, <2>1, <2>2 DEF Trackers
  <2> QED BY <2>3 DEF ks
<1>6. session' = [session EXCEPT !.tracker = m]
  BY <1>3 DEF Mark
<1> HIDE DEF m
<1>7. Trackers' = Trackers /\ session \in [haveInit : BOOLEAN, tracker : Trackers]
  BY SameKind DEF Typed
<1>8. session' \in [haveInit : BOOLEAN, tracker : Trackers] /\ session'.tracker = m
  BY <1>5, <1>6, <1>7
<1> QED BY <1>1, <1>5, <1>8 DEF Frontier, TrackerExact

\* One part is delivered, or thrown away by a pause.
Gives(part) ==
    \/ out' = Append(out, part) /\ UNCHANGED dropped /\ Reached(stream) < part
    \/ dropped' = dropped \cup {part} /\ UNCHANGED out /\ ~Lossless

(* The part that comes next is given, and the stream goes past it.         *)
LEMMA GiveKeepsInv ==
    ASSUME StreamInv, Running, stream.at \notin Heads,
           UNCHANGED <<kind, host, loop, edge>>,
           NEW part \in 1 .. Last * Chunks, part = Passed(stream) + 1, Gives(part),
           session' \in [haveInit : BOOLEAN, tracker : Trackers], TrackerExact',
           (Frontier * Chunks)' <= part,
           stream' \in Streams, Running', stream'.ok, stream'.gen = stream.gen,
           stream'.cursor >= stream.cursor,
           Placed(stream)', Passed(stream)' = part,
           Reached(stream) <= Reached(stream)', out' # out => part <= Reached(stream)'
    PROVE  StreamInv'
<1> USE DEF StreamInv
<1>1. /\ stream \in Streams /\ Placed(stream) /\ Typed /\ ~Settled /\ loop.at = "join"
      /\ \A i \in DOMAIN out : out[i] <= Reached(stream)
      /\ OneRun => Covers(Passed(stream))
  BY RunningFacts DEF Accounted
<1>2. /\ out \in Seq(1 .. Last * Chunks) /\ dropped \subseteq 1 .. Last * Chunks
      /\ Last * Chunks \in Nat
  <2>1. Last * Chunks \in Nat
    <3>1. Last \in Nat /\ Chunks \in Nat
      BY KindFacts DEF Typed
    <3> QED BY <3>1
  <2> QED BY <2>1, <1>1 DEF Typed
<1>3. /\ out' \in Seq(1 .. Last * Chunks) /\ dropped' \subseteq 1 .. Last * Chunks
      /\ Given' = Given \cup {part} /\ \A i \in DOMAIN out : i \in DOMAIN out' /\ out'[i] = out[i]
      /\ out # <<>> => out' # <<>> /\ out'[1] = out[1]
      /\ \A i \in DOMAIN out' : i \in DOMAIN out \/ out'[i] = part
  <2>1. CASE out' = Append(out, part) /\ UNCHANGED dropped
    <3>1. /\ DOMAIN out = 1 .. Len(out) /\ DOMAIN out' = 1 .. Len(out) + 1 /\ Len(out) \in Nat
          /\ \A i \in DOMAIN out : out'[i] = out[i]
          /\ out'[Len(out) + 1] = part /\ out' \in Seq(1 .. Last * Chunks)
      BY <1>2, <2>1
    <3>2. /\ \A i \in DOMAIN out : i \in DOMAIN out'
          /\ \A i \in DOMAIN out' : i \in DOMAIN out \/ out'[i] = part
          /\ \E i \in DOMAIN out' : out'[i] = part
      BY <3>1
    <3>3. Given' = Given \cup {part}
      <4>1. {out'[i] : i \in DOMAIN out'} = {out[i] : i \in DOMAIN out} \cup {part}
        BY <3>1, <3>2
      <4> QED BY <2>1, <4>1 DEF Given
    <3>4. out # <<>> => out' # <<>> /\ out'[1] = out[1]
      BY <1>2, <2>1
    <3> QED BY <1>2, <2>1, <3>1, <3>2, <3>3, <3>4
  <2>2. CASE dropped' = dropped \cup {part} /\ UNCHANGED out
    BY <1>2, <2>2 DEF Given
  <2> QED BY SMTT(30), <2>1, <2>2 DEF Gives
<1>4. Typed'
  BY <1>1, <1>3, SameKind DEF Typed
<1>5. GensInOrder' /\ ~Settled' /\ Alone'
  <2>1. GensInOrder'
    BY <1>1 DEF GensInOrder
  <2>2. ~Settled'
    BY <1>1 DEF Settled
  <2> QED BY <1>1, <2>1, <2>2 DEF Alone
<1>6. Passed(stream) \in Nat /\ Reached(stream) \in Nat /\ part \in Nat /\ Reached(stream)' \in Nat
  <2>1. Reached(stream)' \in Nat
    <3>1. (Frontier * Chunks)' \in Nat
      <4>1. session'.tracker.lastEnd \in Nat /\ Chunks \in Nat
        BY <1>1, KindFacts DEF Typed, Trackers
      <4>2. (Frontier * Chunks)' = session'.tracker.lastEnd * Chunks
        BY SameKind DEF Frontier
      <4> QED BY <4>1, <4>2
    <3> QED BY <3>1, <1>2 DEF Reached
  <2> QED BY <1>1, <2>1, <1>2, PlaceTyped
<1>7. Ordered'
  <2>1. \A i \in DOMAIN out' : out'[i] <= Reached(stream)'
    <3> TAKE i \in DOMAIN out'
    <3>1. CASE i \in DOMAIN out
      BY <1>1, <1>2, <1>3, <1>6, <3>1
    <3>2. CASE i \notin DOMAIN out
      BY <1>3, <1>6, <3>2
    <3> QED BY <3>1, <3>2
  <2>2. CASE out' = Append(out, part) /\ Reached(stream) < part
    <3>1. DOMAIN out' = 1 .. Len(out) + 1 /\ DOMAIN out = 1 .. Len(out) /\ Len(out) \in Nat
          /\ out'[Len(out) + 1] = part /\ \A i \in DOMAIN out : out[i] \in Nat
      BY <1>2, <1>3, <2>2
    <3>2. ASSUME NEW i \in DOMAIN out', NEW j \in DOMAIN out', i < j PROVE out'[i] < out'[j]
      <4>1. i \in DOMAIN out /\ out'[i] = out[i]
        BY <1>3, <3>1, <3>2
      <4>2. CASE j \in DOMAIN out
        BY <1>3, <3>2, <4>1, <4>2 DEF Ordered, OutOrdered
      <4>3. CASE j \notin DOMAIN out
        <5>1. out'[j] = part /\ out[i] <= Reached(stream) /\ out[i] \in Nat
          BY <1>1, <1>3, <3>1, <4>1, <4>3
        <5> QED BY <1>6, <2>2, <4>1, <5>1
      <4> QED BY <4>2, <4>3
    <3>3. OutOrdered'
      BY <3>2 DEF OutOrdered
    <3> QED BY <2>1, <3>3 DEF Ordered
  <2>3. CASE UNCHANGED out
    <3>1. OutOrdered'
      BY <2>3 DEF Ordered, OutOrdered
    <3> QED BY <2>1, <3>1 DEF Ordered
  <2> QED BY <2>2, <2>3 DEF Gives
<1>8. Complete'
  <2> SUFFICES ASSUME OneRun
               PROVE  /\ \A i \in DOMAIN out' : Covers(out[i])'
                      /\ Covers(Frontier * Chunks)' /\ Covers(Passed(stream))'
    BY SameKind DEF Complete
  <2>1. Covers(part)'
    <3>1. CASE out = <<>>
      <4>1. out' # <<>> => out'[1] = part
        BY <1>3, <1>2, <3>1 DEF Gives
      <4> QED BY <1>3, <1>6, <4>1 DEF Covers
    <3>2. CASE out # <<>>
      <4>1. out[1] .. Passed(stream) \subseteq Given /\ out[1] \in Nat
        BY <1>1, <1>2, <3>2 DEF Covers
      <4>2. out[1] .. part \subseteq (out[1] .. Passed(stream)) \cup {part}
        BY <1>6, <4>1
      <4> QED BY <1>3, <3>2, <4>1, <4>2 DEF Covers
    <3> QED BY <3>1, <3>2
  <2>2. Covers(Frontier * Chunks)'
    <3> DEFINE f == (Frontier * Chunks)'
    <3>1. f \in Int
      <4>1. session'.tracker.lastEnd \in Nat /\ Chunks \in Nat
        BY <1>1, KindFacts DEF Typed, Trackers
      <4>2. f = session'.tracker.lastEnd * Chunks
        BY SameKind DEF Frontier
      <4> HIDE DEF f
      <4> QED BY <4>1, <4>2
    <3>2. out' # <<>> => out'[1] \in Nat
      BY <1>2, <1>3
    <3>3. f <= part
      OBVIOUS
    <3>4. Covers(Frontier * Chunks)' = (out' # <<>> => out'[1] .. f \subseteq Given')
      BY DEF Covers
    <3> HIDE DEF f
    <3> QED BY <1>6, <2>1, <3>1, <3>2, <3>3, <3>4 DEF Covers
  <2>3. ASSUME NEW i \in DOMAIN out' PROVE Covers(out[i])'
    <3>1. CASE i \in DOMAIN out
      <4>1. Covers(out[i]) /\ out # <<>>
        BY <1>1, <3>1 DEF Complete
      <4> QED BY <1>3, <3>1, <4>1 DEF Covers
    <3>2. CASE out'[i] = part
      BY <2>1, <3>2 DEF Covers
    <3> QED BY <1>3, <3>1, <3>2
  <2>4. Covers(Passed(stream))'
    BY <2>1 DEF Covers
  <2> QED BY <2>2, <2>3, <2>4
<1>9. Kept'
  BY SameKind DEF Gives, Kept
<1>10. Sought'
  <2> SUFFICES ASSUME SoughtInside
               PROVE  /\ \A p \in Given' : p > loop.target * Chunks
                      /\ loop.target * Chunks + 1 \in Given'
                      /\ Given' # {}
                      /\ stream'.cursor > loop.target
    BY <1>1, SameKind DEF Sought, SoughtInside
  <2>1. /\ loop.target \in Nat /\ stream.cursor \in Nat /\ stream'.cursor \in Nat
        /\ Chunks \in Nat /\ Last \in Nat
    <3>1. kind \in DOMAIN Kinds
      BY DEF Typed
    <3>2. stream.cursor \in 1 .. Last + 1 /\ stream'.cursor \in 1 .. Last + 1
      BY <1>1 DEF Streams
    <3>3. loop.target \in Nat
      BY <1>1, <3>1, KindFacts DEF Typed, Targets, SoughtInside
    <3> QED BY <3>1, <3>2, <3>3, KindFacts
  <2>2. stream.cursor > loop.target /\ stream'.cursor > loop.target
    BY <2>1 DEF Sought
  <2>3. part > loop.target * Chunks
    <3>1. loop.target * Chunks <= (stream.cursor - 1) * Chunks
      BY <2>1, <2>2, Monotone
    <3>2. Offset(stream) \in Nat /\ (stream.cursor - 1) * Chunks \in Nat
      BY <1>1, PlaceTyped
    <3> DEFINE c == (stream.cursor - 1) * Chunks
               t == loop.target * Chunks
    <3>3. c \in Nat /\ t \in Int /\ t <= c /\ part = c + Offset(stream) + 1
      BY <2>1, <3>1, <3>2 DEF Passed
    <3> HIDE DEF c, t
    <3>4. part > t
      BY <3>2, <3>3
    <3> QED BY <3>4 DEF t
  <2>4. loop.target * Chunks + 1 \in Given'
    BY <1>3 DEF Sought
  <2> QED BY <1>3, <2>2, <2>3, <2>4 DEF Sought
<1> QED BY <1>4, <1>5, <1>7, <1>8, <1>9, <1>10

(* The numbers of a running stream.                                        *)
LEMMA Numbers ==
    ASSUME StreamInv, Running
    PROVE  /\ Last \in Nat /\ Chunks \in Nat \ {0} /\ Frontier \in Nat
           /\ stream.cursor \in Nat \ {0} /\ stream.last \in Nat /\ stream.last <= Last
           /\ stream.last <= edge
           /\ (stream.cursor - 1) * Chunks \in Nat /\ Frontier * Chunks \in Nat
           /\ ~Kinds[kind].lowLatency => Chunks = 1
<1>1. Typed /\ stream \in Streams /\ Placed(stream) /\ kind \in DOMAIN Kinds
  BY RunningFacts DEF StreamInv, Typed
<1>2. Last \in Nat /\ stream.last \in 0 .. Last
  BY <1>1, KindFacts DEF Streams
<1>3. stream.last <= edge
  BY <1>1 DEF Placed
<1> QED BY <1>1, <1>2, <1>3, KindFacts, PlaceTyped

(* Past the current item: the next one, or the end of the batch.           *)
LEMMA AfterItemIs ==
    ASSUME StreamInv, stream.at = "decrypt", NEW started \in BOOLEAN
    PROVE  LET r == AfterItem([stream EXCEPT !.started = started])
           IN  /\ r \in Streams /\ r.ok /\ r.gen = stream.gen /\ r.last = stream.last
               /\ r.batch = stream.batch /\ r.cursor >= stream.cursor
               /\ \/ /\ r.at = "result" /\ r.item = stream.item + 1 /\ r.cursor = stream.cursor
                     /\ stream.item < Len(stream.batch)
                  \/ /\ r.at = "head" /\ r.cursor = stream.cursor + stream.item
<1>1. Batched(stream)
  BY DEF Batched
<1>2. /\ stream \in Streams /\ stream.ok /\ stream.item \in 1 .. Len(stream.batch)
      /\ Len(stream.batch) \in Nat /\ stream.cursor \in Nat /\ stream.item \in Nat
      /\ stream.cursor + Len(stream.batch) <= stream.last + 1
      /\ stream.last \in 0 .. Last /\ Last \in Nat
  BY <1>1, BatchFacts, KindFacts DEF Placed, Streams, StreamInv, Typed
<1> DEFINE s == [stream EXCEPT !.started = started]
<1>3. /\ s \in Streams /\ s.ok /\ s.gen = stream.gen /\ s.last = stream.last
      /\ s.batch = stream.batch /\ s.cursor = stream.cursor /\ s.item = stream.item
  BY <1>2 DEF Streams
<1> HIDE DEF s
<1>4. CASE s.item < Len(s.batch)
  <2> DEFINE n == s.item + 1
             r == [s EXCEPT !.item = n, !.at = "result"]
  <2>1. AfterItem(s) = r /\ n \in Nat /\ n = stream.item + 1
    BY <1>2, <1>3, <1>4 DEF AfterItem
  <2> HIDE DEF n
  <2>2. /\ r \in Streams /\ r.ok /\ r.gen = stream.gen /\ r.last = stream.last /\ r.at = "result"
        /\ r.batch = stream.batch /\ r.cursor = stream.cursor /\ r.item = n
    BY <1>3, <2>1 DEF Streams, Places
  <2> HIDE DEF r
  <2> QED BY <1>2, <1>3, <1>4, <2>1, <2>2 DEF s
<1>5. CASE ~(s.item < Len(s.batch))
  <2> DEFINE c == s.cursor + Len(s.batch)
             r == [s EXCEPT !.at = "head", !.cursor = c]
  <2>1. AfterItem(s) = r /\ c \in 1 .. Last + 1 /\ c = stream.cursor + stream.item
        /\ c >= stream.cursor
    BY <1>2, <1>3, <1>5 DEF AfterItem
  <2> HIDE DEF c
  <2>2. /\ r \in Streams /\ r.ok /\ r.gen = stream.gen /\ r.last = stream.last /\ r.at = "head"
        /\ r.batch = stream.batch /\ r.cursor = c
    BY <1>3, <2>1 DEF Streams, Places
  <2> HIDE DEF r
  <2> QED BY <2>1, <2>2 DEF s
<1> QED BY <1>4, <1>5

LEMMA EmitSegmentKeepsInv ==
    ASSUME StreamInv, EmitSegment
    PROVE  StreamInv'
<1> USE DEF StreamInv
<1>1. Batched(stream) /\ Using(stream) /\ stream.at = "decrypt"
  BY DEF EmitSegment, Batched, Using
<1> DEFINE seg == Item.seg
<1>2. /\ stream \in Streams /\ Placed(stream) /\ Running /\ ~InChunks(stream) /\ stream.ok
      /\ stream.at \notin Heads /\ stream.item \in 1 .. Len(stream.batch)
      /\ Len(stream.batch) \in Nat /\ stream.cursor \in Nat \ {0} /\ stream.item \in Nat \ {0}
  BY <1>1, BatchFacts
<1>3. /\ Chunks = 1 /\ Last \in Nat /\ Frontier \in Nat /\ stream.last \in Nat
      /\ stream.last <= Last /\ ~Kinds[kind].lowLatency
  BY <1>1, <1>2, Numbers DEF Placed
<1>4. /\ seg = stream.cursor + stream.item - 1 /\ Frontier < seg
      /\ stream.cursor + Len(stream.batch) <= stream.last + 1
      /\ \A k \in 1 .. Len(stream.batch) : stream.batch[k].seg = stream.cursor + k - 1
  BY <1>1, <1>2 DEF Placed, Item
<1>5. seg \in 1 .. Last /\ seg \in 1 .. Last * Chunks /\ PartOf(seg, 1) = seg
  <2>1. seg \in Nat /\ seg >= 1 /\ seg <= Last
    BY SMTT(30), <1>2, <1>3, <1>4
  <2>2. Last * Chunks = Last
    BY <1>3
  <2>3. (seg - 1) * Chunks = seg - 1
    BY <1>3, <2>1
  <2> HIDE DEF seg
  <2> QED BY <1>3, <2>1, <2>2, <2>3 DEF PartOf
<1>6. Passed(stream) + 1 = seg
  <2>1. (stream.cursor - 1) * Chunks = stream.cursor - 1
    BY <1>2, <1>3
  <2> QED BY <1>1, <1>2, <1>4, <2>1 DEF Passed, Offset
<1>7. Reached(stream) = Frontier
  BY <1>2, <1>3 DEF Reached
<1> HIDE DEF seg
<1>8. ASSUME NEW started \in BOOLEAN,
             stream' = AfterItem([stream EXCEPT !.started = started]),
             UNCHANGED <<kind, host, loop, edge>>,
             session' \in [haveInit : BOOLEAN, tracker : Trackers], TrackerExact',
             \/ Frontier' = Frontier /\ dropped' = dropped \cup {seg} /\ UNCHANGED out /\ ~Lossless
             \/ Frontier' = seg /\ out' = Append(out, seg) /\ UNCHANGED dropped
      PROVE  StreamInv'
  <2> DEFINE r == AfterItem([stream EXCEPT !.started = started])
  <2>1. /\ r \in Streams /\ r.ok /\ r.gen = stream.gen /\ r.last = stream.last
        /\ r.batch = stream.batch /\ r.cursor >= stream.cursor
        /\ \/ /\ r.at = "result" /\ r.item = stream.item + 1 /\ r.cursor = stream.cursor
              /\ stream.item < Len(stream.batch)
           \/ /\ r.at = "head" /\ r.cursor = stream.cursor + stream.item
    BY <1>1, AfterItemIs
  <2>2. stream' = r
    BY <1>8
  <2> HIDE DEF r
  <2>3. Running' /\ stream' \in Streams /\ stream'.ok /\ stream'.gen = stream.gen
        /\ stream'.cursor >= stream.cursor /\ ~InChunks(stream)'
    BY <1>8, <2>1, <2>2, SameKind DEF Running, InChunks
  <2>4. Chunks' = 1 /\ Chunks = 1
    BY <1>3, <1>8, SameKind
  <2>5. Passed(stream)' = seg
    <3>1. (stream'.cursor - 1) * Chunks' = stream'.cursor - 1
      <4>1. stream'.cursor - 1 \in Int
        BY <2>3 DEF Streams
      <4> QED BY <2>4, <4>1
    <3>2. Passed(stream)' = stream'.cursor - 1 + Offset(stream)'
      BY <3>1 DEF Passed
    <3>3. CASE /\ r.at = "result" /\ r.item = stream.item + 1 /\ r.cursor = stream.cursor
      <4>1. Offset(stream)' = stream'.item - 1
        BY <2>2, <3>3 DEF Offset, InChunks, Using
      <4> QED BY <1>2, <1>4, <2>2, <3>2, <3>3, <4>1
    <3>4. CASE /\ r.at = "head" /\ r.cursor = stream.cursor + stream.item
      <4>1. Offset(stream)' = 0
        BY <2>2, <3>4 DEF Offset, InChunks, Using
      <4> QED BY <1>2, <1>4, <2>2, <3>2, <3>4, <4>1
    <3> QED BY <2>1, <3>3, <3>4
  <2>6. Frontier' \in Nat /\ Frontier' <= seg /\ Frontier <= Frontier' /\ seg \in Nat
    BY <1>2, <1>3, <1>4, <1>8
  <2>7. Reached(stream)' = Frontier' /\ (Frontier * Chunks)' = Frontier'
    <3>1. (Frontier * Chunks)' = Frontier' * 1
      BY <2>4
    <3> QED BY <2>3, <2>6, <3>1 DEF Reached
  <2>8. Placed(stream)'
    <3>1. stream'.at = "result" => Frontier' < stream'.cursor + stream'.item - 1
      BY <1>2, <1>4, <2>1, <2>2, <2>6
    <3>2. /\ stream'.last <= edge' /\ ~Kinds[kind'].lowLatency /\ stream'.last = stream.last
          /\ stream'.at \in {"result", "head"} /\ stream'.batch = stream.batch
      BY <1>2, <1>3, <1>8, <2>1, <2>2, Numbers
    <3>3. CASE stream'.at = "head"
      BY <3>2, <3>3 DEF Placed, InChunks, Batched, Using
    <3>4. CASE stream'.at = "result"
      <4>1. /\ stream'.item \in 1 .. Len(stream'.batch) /\ stream'.cursor = stream.cursor
        BY <1>2, <2>1, <2>2, <3>4
      <4> QED BY <1>4, <3>1, <3>2, <3>4, <4>1 DEF Placed, InChunks, Batched, Using
    <3> QED BY <3>2, <3>3, <3>4
  <2>9. Gives(seg) /\ (out' # out => seg <= Reached(stream)')
    BY <1>4, <1>7, <1>8, <2>6, <2>7 DEF Gives
  <2> QED BY <1>2, <1>5, <1>6, <1>7, <1>8, <2>3, <2>5, <2>6, <2>7, <2>8, <2>9, GiveKeepsInv
<1>9. CASE Interrupted
  BY <1>2, <1>9, ReturnKeepsInv DEF EmitSegment, MayLeave
<1>10. CASE ~Interrupted /\ Discards
  <2>1. stream.started \in BOOLEAN /\ stream = [stream EXCEPT !.started = stream.started]
    BY <1>2 DEF Streams
  <2>2. ~Lossless
    BY <1>10 DEF Discards, Lossless, Typed, Hosts
  <2>3. /\ stream' = AfterItem(stream) /\ dropped' = dropped \cup {seg}
        /\ UNCHANGED <<kind, host, loop, edge, session, out>>
    BY <1>5, <1>10 DEF EmitSegment, seg
  <2>4. /\ session' \in [haveInit : BOOLEAN, tracker : Trackers] /\ TrackerExact'
        /\ Frontier' = Frontier
    BY <2>3, SameKind DEF Typed, TrackerExact, Frontier
  <2> QED BY <1>8, <2>1, <2>2, <2>3, <2>4
<1>11. CASE ~Interrupted /\ ~Discards
  <2>1. /\ stream' = AfterItem([stream EXCEPT !.started = TRUE]) /\ out' = Append(out, seg)
        /\ UNCHANGED <<kind, host, loop, edge, dropped>> /\ Mark(seg)
    BY <1>5, <1>11 DEF EmitSegment, seg
  <2>2. /\ session' \in [haveInit : BOOLEAN, tracker : Trackers] /\ TrackerExact'
        /\ Frontier' = seg
    BY <1>4, <1>5, <2>1, MarkIs
  <2> QED BY <1>8, <2>1, <2>2
<1> QED BY <1>9, <1>10, <1>11

LEMMA EmitChunkKeepsInv ==
    ASSUME StreamInv, EmitChunk
    PROVE  StreamInv'
<1> USE DEF StreamInv
<1>1. stream.at = "decryptChunk" /\ InChunks(stream) /\ Running /\ stream.at \notin Heads
  BY DEF EmitChunk, InChunks, Running, Heads
<1>2. /\ stream \in Streams /\ Placed(stream) /\ stream.ok
  BY <1>1, RunningFacts
<1>3. /\ stream.cursor \in Nat \ {0} /\ stream.last \in Nat /\ Frontier \in Nat /\ Last \in Nat
      /\ Chunks \in Nat \ {0} /\ stream.last <= Last /\ (stream.cursor - 1) * Chunks \in Nat
      /\ Frontier < stream.cursor /\ stream.cursor <= stream.last /\ stream.last <= edge
      /\ Frontier * Chunks \in Nat /\ Kinds[kind].lowLatency
      /\ stream.chunk \in 1 .. Chunks
  <2>1. stream.chunk \in 1 .. Chunks + 1 /\ stream.chunk <= Chunks /\ Chunks \in Nat
    BY <1>1, <1>2, Numbers DEF Placed
  <2> QED BY <1>1, <1>2, <2>1, Numbers DEF Placed
<1> DEFINE part == PartOf(stream.cursor, stream.chunk)
           c == (stream.cursor - 1) * Chunks
           n == stream.chunk + 1
<1>4. part = c + stream.chunk /\ Passed(stream) = c + (stream.chunk - 1) /\ c \in Nat
  BY <1>1, <1>3 DEF PartOf, Passed, Offset
<1>5. c + Chunks = stream.cursor * Chunks /\ stream.cursor * Chunks <= Last * Chunks
  BY <1>3, Product, Monotone
<1>6. Frontier * Chunks <= c
  BY <1>3, Monotone
<1>7. part \in 1 .. Last * Chunks /\ part = Passed(stream) + 1 /\ n \in 1 .. Chunks + 1
  <2> DEFINE l == Last * Chunks
  <2>1. l \in Int /\ c + Chunks <= l
    BY <1>3, <1>5
  <2> HIDE DEF l, c, part
  <2>2. part \in 1 .. l /\ part = Passed(stream) + 1 /\ n \in 1 .. Chunks + 1
    BY <1>3, <1>4, <2>1
  <2> QED BY <2>2 DEF l
<1>8. /\ stream' = [stream EXCEPT !.at = "chunk", !.chunk = n]
      /\ UNCHANGED <<kind, host, loop, edge, session>>
      /\ \/ Discards /\ dropped' = dropped \cup {part} /\ UNCHANGED out
         \/ out' = Append(out, part) /\ UNCHANGED dropped
  BY DEF EmitChunk
<1> HIDE DEF n, part
<1>9. /\ stream' \in Streams /\ stream'.ok /\ stream'.gen = stream.gen /\ stream'.at = "chunk"
      /\ stream'.cursor = stream.cursor /\ stream'.last = stream.last /\ stream'.chunk = n
  <2>1. n \in Nat
    BY <1>3, <1>7
  <2>2. Streams' = Streams
    BY <1>8, SameKind
  <2> QED BY <1>2, <1>8, <2>1 DEF Streams, Places
<1>10. Running' /\ InChunks(stream)' /\ Frontier' = Frontier /\ TrackerExact'
      /\ AllSeen' = AllSeen /\ Chunks' = Chunks
      /\ session' \in [haveInit : BOOLEAN, tracker : Trackers]
  BY <1>8, <1>9, SameKind DEF Running, InChunks, Frontier, TrackerExact, Typed, AllSeen, Segment
<1>11. Placed(stream)'
  BY <1>3, <1>7, <1>8, <1>9, <1>10 DEF Placed, InChunks, Batched, Using
<1>12. Passed(stream)' = part /\ Reached(stream)' = part /\ Reached(stream) = Passed(stream)
  <2>1. Passed(stream)' = c + (n - 1)
    BY <1>9, <1>10 DEF Passed, Offset
  <2>2. n - 1 = stream.chunk
    BY <1>3 DEF n
  <2> QED BY <1>1, <1>4, <1>10, <2>1, <2>2 DEF Reached
<1>13. Passed(stream) \in Nat /\ (Frontier * Chunks)' <= part /\ part \in Nat
       /\ Reached(stream) < part /\ Reached(stream) <= Reached(stream)'
  <2> DEFINE f == Frontier * Chunks
  <2>1. (Frontier * Chunks)' = f /\ f <= c /\ f \in Nat
    BY <1>3, <1>6, <1>10
  <2> HIDE DEF f, c
  <2>2. f <= part /\ part \in Nat /\ Passed(stream) \in Nat
    BY <1>3, <1>4, <2>1
  <2> QED BY <1>7, <1>12, <2>1, <2>2
<1>14. Gives(part)
  <2>1. Discards => ~Lossless
    BY DEF Discards, Lossless, Typed, Hosts
  <2> QED BY <1>8, <1>13, <2>1 DEF Gives
<1>15. stream'.cursor >= stream.cursor /\ (out' # out => part <= Reached(stream)')
  BY <1>3, <1>9, <1>12, <1>13
<1> QED BY <1>1, <1>7, <1>8, <1>9, <1>10, <1>11, <1>12, <1>13, <1>14, <1>15, GiveKeepsInv

(* Past the last chunk the segment counts as delivered.                    *)
LEMMA ChunksEndKeepsInv ==
    ASSUME StreamInv, ChunksEnd
    PROVE  StreamInv'
<1> USE DEF StreamInv
<1>1. stream.at = "chunk" /\ InChunks(stream) /\ Running /\ stream.at \notin Heads
  BY DEF ChunksEnd, InChunks, Running, Heads
<1>2. /\ stream \in Streams /\ Placed(stream) /\ stream.ok /\ loop.at = "join" /\ ~Settled
      /\ \A i \in DOMAIN out : out[i] <= Reached(stream)
      /\ OneRun => Covers(Passed(stream))
  BY <1>1, RunningFacts DEF Accounted
<1>3. /\ Frontier < stream.cursor /\ stream.cursor <= stream.last /\ stream.chunk = Chunks + 1
      /\ stream.cursor \in 1 .. Last
  <2>1. stream.chunk \in 1 .. Chunks + 1 /\ stream.chunk > Chunks
    BY <1>1, <1>2 DEF Placed, ChunksEnd
  <2> QED BY SMTT(30), <1>1, <1>2, <2>1, Numbers DEF Placed
<1> DEFINE c == stream.cursor + 1
<1>4. /\ stream' = [stream EXCEPT !.at = "head", !.cursor = c, !.started = TRUE]
      /\ UNCHANGED <<kind, host, loop, edge, out, dropped>> /\ Mark(stream.cursor)
  BY DEF ChunksEnd
<1>5. c \in 1 .. Last + 1 /\ c > stream.cursor /\ c - 1 = stream.cursor
  BY <1>1, Numbers, <1>3
<1> HIDE DEF c
<1>6. /\ stream' \in Streams /\ stream'.ok /\ stream'.gen = stream.gen /\ stream'.at = "head"
      /\ stream'.cursor = c /\ stream'.last = stream.last
  <2>1. Streams' = Streams
    BY <1>4, SameKind
  <2> QED BY <1>2, <1>4, <1>5, <2>1 DEF Streams, Places
<1>7. /\ session' \in [haveInit : BOOLEAN, tracker : Trackers]
      /\ Frontier' = stream.cursor /\ TrackerExact'
  BY <1>3, <1>4, MarkIs
<1>8. Typed'
  BY <1>4, <1>6, <1>7, SameKind DEF Typed
<1>9. Running' /\ ~InChunks(stream)' /\ ~Using(stream)' /\ Chunks' = Chunks /\ Given' = Given
  BY <1>4, <1>6, SameKind DEF Running, InChunks, Using, Given
<1>10. Placed(stream)'
  BY <1>2, <1>4, <1>6 DEF Placed, InChunks, Batched, Using
<1>11. GensInOrder' /\ ~Settled' /\ Alone'
  <2>1. GensInOrder'
    BY <1>1, <1>2, <1>4, <1>6 DEF GensInOrder
  <2>2. ~Settled'
    BY <1>2, <1>4, <1>9 DEF Settled
  <2> QED BY <1>2, <1>4, <1>9, <2>1, <2>2 DEF Alone
<1>12. /\ Passed(stream) = stream.cursor * Chunks /\ Passed(stream)' = stream.cursor * Chunks
       /\ Reached(stream) = stream.cursor * Chunks /\ Reached(stream)' = stream.cursor * Chunks
       /\ (Frontier * Chunks)' = stream.cursor * Chunks
  <2>1. Passed(stream) = (stream.cursor - 1) * Chunks + Chunks
    BY <1>1, <1>3, Numbers DEF Passed, Offset
  <2>2. stream.cursor * Chunks = (stream.cursor - 1) * Chunks + Chunks
    BY <1>1, Numbers, Product
  <2>3. Passed(stream)' = stream.cursor * Chunks + 0
    BY <1>5, <1>6, <1>9 DEF Passed, Offset
  <2>4. stream.cursor * Chunks \in Int
    BY <1>1, Numbers
  <2> QED BY <1>1, <1>7, <1>9, <2>1, <2>2, <2>3, <2>4 DEF Reached
<1>13. Ordered'
  BY <1>2, <1>4, <1>12 DEF Ordered, OutOrdered
<1>14. Complete' /\ Kept'
  BY <1>1, <1>2, <1>4, <1>9, <1>12, SameKind DEF Complete, Kept, Covers
<1>15. Sought'
  <2> SUFFICES ASSUME SoughtInside
               PROVE  stream'.cursor > loop.target /\ Given # {}
    BY <1>4, <1>9, SameKind DEF Sought, SoughtInside
  <2>1. loop.target \in Nat
    BY KindFacts DEF Typed, Targets, SoughtInside
  <2>2. stream.cursor > loop.target /\ stream'.cursor > loop.target
    BY <1>1, <1>5, <1>6, <2>1, Numbers DEF Sought
  <2>3. ASSUME Given = {} PROVE FALSE
    <3>1. stream.cursor * Chunks = loop.target * Chunks
      BY <1>1, <1>12, <2>3 DEF Sought
    <3>2. loop.target * Chunks <= (stream.cursor - 1) * Chunks
      BY <1>1, <2>1, <2>2, Numbers, Monotone
    <3>3. stream.cursor * Chunks = (stream.cursor - 1) * Chunks + Chunks
      BY <1>1, Numbers, Product
    <3> DEFINE t == loop.target * Chunks
               d == (stream.cursor - 1) * Chunks
               e == stream.cursor * Chunks
    <3>4. t \in Int /\ d \in Int /\ e = t /\ t <= d /\ e = d + Chunks
      BY <1>1, <2>1, <3>1, <3>2, <3>3, Numbers
    <3> HIDE DEF t, d, e
    <3> QED BY <1>1, <3>4, Numbers
  <2> QED BY <2>2, <2>3
<1> QED BY <1>7, <1>8, <1>10, <1>11, <1>13, <1>14, <1>15

-----------------------------------------------------------------------------
(* The invariant.                                                          *)

LEMMA InitHasInv == Init => StreamInv
<1> SUFFICES ASSUME Init PROVE StreamInv
  OBVIOUS
<1> USE DEF Init
<1>1. kind \in DOMAIN Kinds
  OBVIOUS
<1>2. /\ Last \in Nat \ {0} /\ Chunks \in Nat \ {0} /\ Live \in BOOLEAN
      /\ 0 \in Qualities /\ NoTime \in Targets
  <2>1. Kinds[kind].top \in Nat
    BY <1>1, StreamAssumption DEF Kind
  <2> QED BY <1>1, <2>1, KindFacts DEF Qualities, Targets
<1>3. host \in Hosts /\ host.seekGen = 0
  BY <1>2 DEF Hosts
<1>4. loop \in [at : LoopPlaces, gen : Nat, target : Targets] /\ loop.at = "top" /\ loop.gen = 0
  BY <1>2 DEF LoopPlaces
<1>5. edge \in 0 .. Last /\ (~Live => edge = Last)
  BY <1>2
<1>6. session \in [haveInit : BOOLEAN, tracker : Trackers] /\ session.tracker = NewTracker
  BY <1>2 DEF NewTracker, Trackers
<1>7. stream \in Streams /\ stream.at = "off" /\ stream.last = 0
  BY <1>2 DEF Idle, Streams, Places
<1>8. Typed
  BY <1>1, <1>3, <1>4, <1>5, <1>6, <1>7 DEF Typed
<1>9. TrackerExact /\ Fresh /\ Given = {} /\ ~Running
  BY <1>6, <1>7 DEF TrackerExact, Frontier, NewTracker, Fresh, Given, Running
<1>10. GensInOrder /\ Placed(stream)
  BY <1>2, <1>3, <1>4, <1>5, <1>7, <1>9 DEF GensInOrder, Placed, InChunks, Batched, Using
<1>11. Alone /\ Ordered /\ Complete /\ Kept /\ Sought
  BY <1>4, <1>9 DEF Alone, Ordered, OutOrdered, Complete, Kept, Sought, SoughtInside, Fresh
<1> QED BY <1>6, <1>8, <1>9, <1>10, <1>11 DEF StreamInv

LEMMA NextKeepsInv ==
    ASSUME StreamInv, [Next]_vars
    PROVE  StreamInv'
<1>1. CASE UNCHANGED vars
  <2>1. UNCHANGED <<kind, host, loop, edge, session, stream, out, dropped>>
    BY <1>1 DEF vars
  <2>2. host' \in Hosts /\ host.seekGen <= host'.seekGen
    BY <2>1 DEF StreamInv, Typed, Hosts
  <2> QED BY <2>1, <2>2, HostKeepsInv
<1>2. CASE Pause \/ Resume \/ Seek \/ Stop \/ Publish
  BY <1>2, CommandsKeepInv, PublishKeepsInv
<1>3. CASE RunLoop
  BY <1>3, BeginTickKeepsInv, TakeSeekKeepsInv, JoinKeepsInv, WakeKeepsInv DEF RunLoop
<1>4. CASE StreamStep
  BY <1>4, BeginStreamKeepsInv, InitFetchedKeepsInv, InitFailsKeepsInv, LoopHeadKeepsInv,
     WindowEndsKeepsInv, AwaitEdgeKeepsInv, PlanSegmentsKeepsInv, PrepareKeepsInv,
     PrepareFailsKeepsInv, DownloadedKeepsInv, UseResultKeepsInv, FallbackKeepsInv,
     EmitSegmentKeepsInv, DecryptFailsKeepsInv, ChunksFetchedKeepsInv, TakeChunkKeepsInv,
     EmitChunkKeepsInv, ChunksEndKeepsInv
  DEF StreamStep
<1> QED BY <1>1, <1>2, <1>3, <1>4 DEF Next

(* The inductive invariant, for every presentation and every host.         *)
THEOREM StreamInvariant == Spec => []StreamInv
<1>1. Init => StreamInv
  BY InitHasInv
<1>2. StreamInv /\ [Next]_vars => StreamInv'
  BY NextKeepsInv
<1> QED BY <1>1, <1>2, PTL DEF Spec

-----------------------------------------------------------------------------
(* What the invariant promises.                                            *)

(* The segment of a part, and the first part of a segment.                 *)
LEMMA PartInSegment ==
    ASSUME NEW c \in Nat \ {0}, NEW n \in Nat \ {0}
    PROVE  (n * c - 1) \div c + 1 = n
<1> DEFINE m == n - 1
<1>1. m \in Nat /\ n * c - 1 = m * c + (c - 1)
  OBVIOUS
<1> HIDE DEF m
<1>2. (m * c + (c - 1)) \div c = m
  BY <1>1
<1> QED BY <1>1, <1>2 DEF m

LEMMA SegmentFrom ==
    ASSUME NEW c \in Nat \ {0}, NEW t \in Nat, NEW p \in Nat, p > t * c
    PROVE  (p - 1) \div c + 1 > t
<1> DEFINE d == (p - 1) \div c
<1>1. d \in Int /\ p - 1 < (d + 1) * c
  OBVIOUS
<1> HIDE DEF d
<1>2. CASE d + 1 <= t
  <2>1. (d + 1) * c <= t * c
    BY <1>1, <1>2, Monotone
  <2> DEFINE x == (d + 1) * c
             y == t * c
  <2>2. x \in Int /\ y \in Int /\ x <= y /\ p - 1 < x /\ p > y
    BY <1>1, <2>1
  <2> HIDE DEF x, y
  <2> QED BY <2>2
<1> QED BY <1>1, <1>2 DEF d

(* A delivered part that nothing follows, with none missing up to it, is   *)
(* the last one.                                                           *)
LEMMA LastOut ==
    ASSUME StreamInv, Lossless, out # <<>>, NEW p \in Nat, Covers(p),
           \A i \in DOMAIN out : out[i] <= p
    PROVE  out[Len(out)] = p
<1>1. /\ out \in Seq(1 .. Last * Chunks) /\ Last * Chunks \in Int /\ dropped = {}
  <2>1. Last \in Nat /\ Chunks \in Nat
    BY KindFacts DEF StreamInv, Typed
  <2> QED BY <2>1 DEF StreamInv, Typed, Kept
<1>2. /\ DOMAIN out = 1 .. Len(out) /\ Len(out) \in Nat \ {0}
      /\ \A i \in DOMAIN out : out[i] \in Nat
  BY <1>1
<1>3. p \in out[1] .. p /\ out[1] .. p \subseteq Given
  BY <1>2 DEF Covers
<1>4. PICK i \in DOMAIN out : out[i] = p
  BY <1>1, <1>3 DEF Given
<1>5. i = Len(out) \/ out[i] < out[Len(out)]
  BY <1>2 DEF StreamInv, Ordered, OutOrdered
<1> QED BY <1>2, <1>4, <1>5

(* Where nothing may be lost, the last part delivered is the one that the  *)
(* stream has gone past.                                                   *)
LEMMA LastIsFrontier ==
    ASSUME StreamInv, Lossless, Running, ~InChunks(stream), out # <<>>
    PROVE  out[Len(out)] = Frontier * Chunks
<1>1. OneRun
  BY DEF Lossless, OneRun
<1>2. Covers(Frontier * Chunks) /\ \A i \in DOMAIN out : out[i] <= Frontier * Chunks
  BY <1>1, RunningFacts DEF StreamInv, Complete, Reached
<1>3. Frontier * Chunks \in Nat
  BY Numbers
<1> QED BY <1>2, <1>3, LastOut

LEMMA InvHasTypes == StreamInv => TypeOK
<1> SUFFICES ASSUME StreamInv PROVE TypeOK
  OBVIOUS
<1>1. Typed /\ TrackerExact /\ Placed(stream) /\ kind \in DOMAIN Kinds
  BY DEF StreamInv, Typed
<1>2. Last \in Nat /\ Frontier \in 0 .. Last /\ edge \in 0 .. Last
  BY <1>1, KindFacts DEF Typed, Trackers, Frontier
<1>3. session.tracker.keys \subseteq 1 .. Last
  BY <1>1, <1>2 DEF TrackerExact
<1>4. /\ host.policy \in Kinds[kind].policies /\ host.seekTarget \in Targets
      /\ host.seekGen \in Nat /\ host.fetchCancel \in Nat
  BY <1>1 DEF Typed, Hosts
<1>5. loop.at \in LoopPlaces /\ loop.gen \in Nat /\ loop.target \in Targets
  BY <1>1 DEF Typed
<1>6. /\ stream.at \in Places /\ stream.gen \in Nat /\ stream.guard \in Nat
      /\ stream.cursor \in 1 .. Last + 1 /\ stream.last \in 0 .. Last
      /\ stream.inits \subseteq Qualities /\ stream.batch \in Seq(Items)
  BY <1>1 DEF Typed, Streams
<1>7. DOMAIN stream.batch = 1 .. Len(stream.batch)
      /\ \A k \in DOMAIN stream.batch : stream.batch[k].quality \in Qualities
  <2>1. DOMAIN stream.batch = 1 .. Len(stream.batch)
        /\ \A k \in DOMAIN stream.batch : stream.batch[k] \in Items
    BY <1>6
  <2> QED BY <2>1 DEF Items
<1>8. stream.at \in {"prepare", "download", "result", "fallback", "decrypt"}
          => stream.item \in DOMAIN stream.batch
  BY <1>1, <1>7 DEF Placed, Batched
<1>9. out \in Seq(1 .. Last * Chunks)
  BY <1>1 DEF Typed
<1> QED BY <1>2, <1>3, <1>4, <1>5, <1>6, <1>7, <1>8, <1>9 DEF TypeOK, Targets, LoopPlaces

LEMMA InvTracksFrontier == StreamInv => TrackerIsFrontier
<1> SUFFICES ASSUME StreamInv, Lossless, stream.at = "head", out # <<>>,
                    NEW n \in 1 .. Last
             PROVE  Delivered(n) <=> n <= SegmentOf(out[Len(out)])
  BY DEF TrackerIsFrontier
<1>1. Running /\ ~InChunks(stream)
  BY DEF Running, InChunks
<1>2. out[Len(out)] = Frontier * Chunks
  BY <1>1, LastIsFrontier
<1>3. Frontier \in Nat /\ Chunks \in Nat \ {0}
  BY <1>1, Numbers
<1>4. ~AllSeen
  BY DEF Lossless, AllSeen, Segment
<1>5. Delivered(n) <=> n <= Frontier
  BY <1>4, DeliveredIs DEF StreamInv
<1>6. Frontier # 0
  <2>1. out \in Seq(1 .. Last * Chunks) /\ Last * Chunks \in Int
    <3>1. Last \in Nat
      BY <1>1, Numbers
    <3> QED BY <1>3, <3>1 DEF StreamInv, Typed
  <2>2. out[Len(out)] \in 1 .. Last * Chunks
    BY <2>1
  <2>3. out[Len(out)] # 0
    BY <2>1, <2>2
  <2>4. 0 * Chunks = 0
    BY <1>3
  <2> QED BY <1>2, <2>3, <2>4
<1>7. SegmentOf(out[Len(out)]) = Frontier
  BY <1>2, <1>3, <1>6, PartInSegment DEF SegmentOf
<1> QED BY <1>5, <1>7

LEMMA InvLosesOnlyByPause == StreamInv => OnlyPauseLoses
<1> SUFFICES ASSUME StreamInv, OneRun, NEW i \in DOMAIN out, NEW j \in DOMAIN out, i < j,
                    NEW p \in out[i] .. out[j]
             PROVE  p \in {out[k] : k \in i .. j} \cup dropped
  BY DEF OnlyPauseLoses, OneRun
<1>1. /\ out \in Seq(1 .. Last * Chunks) /\ Last * Chunks \in Int
  <2>1. Last \in Nat /\ Chunks \in Nat
    BY KindFacts DEF StreamInv, Typed
  <2> QED BY <2>1 DEF StreamInv, Typed
<1>2. /\ DOMAIN out = 1 .. Len(out) /\ Len(out) \in Nat /\ out # <<>>
      /\ \A k \in DOMAIN out : out[k] \in Nat
  BY <1>1
<1>3. OutOrdered /\ Covers(out[j])
  BY DEF StreamInv, Ordered, Complete
<1>4. out[1] <= out[i] /\ out[1] \in Nat
  BY <1>2, <1>3 DEF OutOrdered
<1>5. p \in Given
  BY <1>2, <1>3, <1>4 DEF Covers
<1>6. CASE p \notin dropped
  <2>1. PICK k \in DOMAIN out : out[k] = p
    BY <1>5, <1>6 DEF Given
  <2>2. ~(k < i) /\ ~(j < k)
    <3>1. k < i => out[k] < out[i]
      BY <1>3 DEF OutOrdered
    <3>2. j < k => out[j] < out[k]
      BY <1>3 DEF OutOrdered
    <3> QED BY <1>2, <2>1, <3>1, <3>2
  <2>3. k \in i .. j
    BY <1>2, <2>2
  <2> QED BY <2>1, <2>3
<1> QED BY <1>6

LEMMA InvRestartsAtTarget == StreamInv => RestartsAtTarget
<1> SUFFICES ASSUME StreamInv, ~Live, out # <<>>, loop.target # NoTime, loop.target < edge
             PROVE  /\ SegmentOf(out[1]) > loop.target
                    /\ loop.target * Chunks + 1 \in {out[1]} \cup dropped
  BY DEF RestartsAtTarget
<1>1. /\ out \in Seq(1 .. Last * Chunks) /\ Last * Chunks \in Int
      /\ loop.target \in Nat /\ Chunks \in Nat \ {0} /\ loop.at \in LoopPlaces
  <2>1. Last \in Nat /\ Chunks \in Nat \ {0} /\ loop.target \in Nat
    BY KindFacts DEF StreamInv, Typed, Targets
  <2> QED BY <2>1 DEF StreamInv, Typed
<1>2. /\ 1 \in DOMAIN out /\ DOMAIN out = 1 .. Len(out) /\ Len(out) \in Nat
      /\ \A i \in DOMAIN out : out[i] \in Nat
  BY <1>1
<1>3. SoughtInside
  <2>1. loop.at \notin {"top", "refreshing", "setup", "sleeping"}
    BY DEF StreamInv, Alone, OneRun, Fresh
  <2> QED BY <1>1, <2>1 DEF SoughtInside, LoopPlaces
<1>4. out[1] \in Given
  BY <1>2 DEF Given
<1>5. out[1] > loop.target * Chunks /\ loop.target * Chunks + 1 \in Given
  BY <1>3, <1>4 DEF StreamInv, Sought
<1>6. SegmentOf(out[1]) > loop.target
  BY <1>1, <1>2, <1>5, SegmentFrom DEF SegmentOf
<1> DEFINE t == loop.target * Chunks
<1>7. t \in Int
  BY <1>1
<1>8. ASSUME t + 1 \notin dropped PROVE out[1] = t + 1
  <2>1. PICK i \in DOMAIN out : out[i] = t + 1
    BY <1>5, <1>8 DEF Given
  <2>2. out[1] <= out[i]
    BY <1>2 DEF StreamInv, Ordered, OutOrdered
  <2>3. out[1] > t
    BY <1>5
  <2> HIDE DEF t
  <2>4. out[1] = t + 1
    BY <1>2, <1>7, <2>1, <2>2, <2>3
  <2> QED BY <2>4
<1>9. t + 1 \in {out[1]} \cup dropped
  <2> HIDE DEF t
  <2> QED BY <1>8
<1> QED BY <1>6, <1>9

(* Whatever is cancelled, retried or refreshed, parts arrive in order and  *)
(* none twice, and where nothing may be lost the tracker knows exactly     *)
(* what was delivered.                                                     *)
THEOREM DeliveredInOrder == Spec => []DeliveryInv
<1>1. StreamInv => DeliveryInv
  BY InvHasTypes, InvTracksFrontier DEF DeliveryInv, StreamInv, Ordered
<1> QED BY <1>1, StreamInvariant, PTL

(* A cancelled or failed download loses nothing: only a pause throws       *)
(* parts away.                                                             *)
THEOREM NothingLostButByPause == Spec => []OnlyPauseLoses
BY InvLosesOnlyByPause, StreamInvariant, PTL

(* After a seek, delivery begins in the segment of the target.             *)
THEOREM SeekRestartsAtTarget == Spec => []RestartsAtTarget
BY InvRestartsAtTarget, StreamInvariant, PTL

-----------------------------------------------------------------------------
(* The delivery that was promised.                                         *)

\* The log of the promise, and whether it is open.
Log == IF Lossless /\ ~Kinds[kind].lowLatency THEN out ELSE <<>>
Open == ~Over /\ ~host.stopped

(* A session that is closed stays closed.                                  *)
LEMMA ClosedStays ==
    ASSUME StreamInv, Next, ~Open
    PROVE  ~Open'
<1>1. host \in Hosts
  BY DEF StreamInv, Typed
<1>2. CASE Pause \/ Resume \/ Seek \/ Stop
  BY <1>2 DEF Pause, Resume, Seek, Stop, Command, Open
<1>3. CASE Publish
  BY <1>3 DEF Publish, Open, Over
<1>4. CASE RunLoop
  <2>1. loop \in [at : LoopPlaces, gen : Nat, target : Targets] /\ ~Over
        /\ host'.stopped = host.stopped
    <3>1. ~Over
      BY <1>4 DEF RunLoop, BeginTick, TakeSeek, Join, Wake, Over
    <3>2. host'.stopped = host.stopped
      BY <1>1, <1>4 DEF RunLoop, BeginTick, TakeSeek, Join, Wake, Hosts
    <3> QED BY <3>1, <3>2 DEF StreamInv, Typed
  <2> QED BY <2>1 DEF Open
<1>5. CASE StreamStep
  <2>1. UNCHANGED host
    BY <1>5 DEF StreamStep, BeginStream, InitFetched, InitFails, LoopHead, WindowEnds, AwaitEdge,
       PlanSegments, Prepare, PrepareFails, Downloaded, UseResult, FallbackFetched,
       FallbackFails, EmitSegment, DecryptFails, ChunksFetched, ChunksFail, TakeChunk,
       PassChunk, EmitChunk, ChunksEnd, Step, Return, Raise
  <2>2. BeginStream \/ UNCHANGED loop
    BY <1>5 DEF StreamStep, InitFetched, InitFails, LoopHead, WindowEnds, AwaitEdge,
       PlanSegments, Prepare, PrepareFails, Downloaded, UseResult, FallbackFetched,
       FallbackFails, EmitSegment, DecryptFails, ChunksFetched, ChunksFail, TakeChunk,
       PassChunk, EmitChunk, ChunksEnd, Step, Return, Raise
  <2>3. BeginStream => ~Over
    BY DEF BeginStream, Over
  <2> QED BY <2>1, <2>2, <2>3 DEF Open, Over
<1> QED BY <1>2, <1>3, <1>4, <1>5 DEF Next

(* Only EmitSegment and EmitChunk add to the log.                          *)
LEMMA LogGrows ==
    ASSUME StreamInv, Next
    PROVE  \/ out' \in {out, <<>>}
           \/ EmitSegment /\ ~Interrupted /\ ~Discards
           \/ EmitChunk
<1>1. CASE Pause \/ Resume \/ Seek \/ Stop \/ Publish \/ RunLoop
  BY <1>1 DEF Pause, Resume, Seek, Stop, Command, Publish, RunLoop, BeginTick, TakeSeek, Join, Wake
<1>2. CASE EmitSegment
  BY <1>2 DEF EmitSegment, Return, Step
<1>3. CASE StreamStep /\ ~EmitSegment /\ ~EmitChunk
  BY <1>3 DEF StreamStep, BeginStream, InitFetched, InitFails, LoopHead, WindowEnds, AwaitEdge,
     PlanSegments, Prepare, PrepareFails, Downloaded, UseResult, FallbackFetched,
     FallbackFails, DecryptFails, ChunksFetched, ChunksFail, TakeChunk, PassChunk,
     ChunksEnd, Step, Return, Raise
<1> QED BY <1>1, <1>2, <1>3 DEF Next, StreamStep

(* A whole segment that is delivered follows the last one.                 *)
LEMMA EmitDelivers ==
    ASSUME StreamInv, EmitSegment, ~Interrupted, ~Discards, Lossless
    PROVE  /\ Open /\ Open' /\ Lossless' /\ kind' = kind
           /\ \E part \in Parts : /\ out = <<>> \/ part = out[Len(out)] + 1
                                  /\ out' = Append(out, part)
<1>1. Batched(stream) /\ Using(stream) /\ Running /\ ~InChunks(stream)
  BY BatchFacts DEF EmitSegment, Batched, Using
<1>2. UNCHANGED <<kind, host, loop>> /\ out' = Append(out, PartOf(Item.seg, 1))
  BY DEF EmitSegment
<1>3. Open /\ Open' /\ Lossless' /\ kind' = kind
  <2>1. loop.at = "join" /\ ~host.stopped
    BY <1>1, RunningFacts DEF Interrupted
  <2> QED BY <1>2, <2>1, SameKind DEF Open, Over
<1>4. /\ stream \in Streams /\ Placed(stream) /\ stream.at \notin Heads
      /\ stream.item \in 1 .. Len(stream.batch) /\ Len(stream.batch) \in Nat
      /\ stream.cursor \in Nat \ {0} /\ Chunks = 1 /\ Last \in Nat /\ Frontier \in Nat
      /\ stream.last \in Nat /\ stream.last <= Last
  BY <1>1, BatchFacts, Numbers DEF Placed
<1> DEFINE seg == stream.cursor + stream.item - 1
<1>5. /\ Item.seg = seg /\ Frontier < seg /\ seg \in 1 .. Last
      /\ stream.cursor + Len(stream.batch) <= stream.last + 1
  <2>1. /\ Item.seg = seg /\ Frontier < seg
        /\ stream.cursor + Len(stream.batch) <= stream.last + 1
    BY <1>1, <1>4 DEF Placed, Item
  <2> QED BY SMTT(30), <1>4, <2>1
<1>6. PartOf(Item.seg, 1) = seg /\ seg \in 1 .. Last * Chunks
  BY <1>4, <1>5 DEF PartOf
<1>7. seg \in Parts
  BY <1>6 DEF Parts, StreamInv, Typed, Last, Chunks
<1>8. Passed(stream) = seg - 1 /\ seg - 1 \in Nat
  <2>1. (stream.cursor - 1) * Chunks = stream.cursor - 1
    BY <1>4
  <2> QED BY SMTT(30), <1>1, <1>4, <2>1 DEF Passed, Offset
<1>9. out # <<>> => out[Len(out)] = seg - 1
  <2> SUFFICES ASSUME out # <<>> PROVE out[Len(out)] = seg - 1
    OBVIOUS
  <2>1. Covers(seg - 1)
    BY <1>1, <1>4, <1>8, RunningFacts DEF Accounted, OneRun, Lossless
  <2>2. Reached(stream) = Frontier
    BY <1>1, <1>4 DEF Reached
  <2>3. ASSUME NEW i \in DOMAIN out PROVE out[i] <= seg - 1
    <3>1. out[i] <= Frontier
      BY <1>1, <2>2, RunningFacts
    <3>2. out[i] \in Nat
      <4>1. out \in Seq(1 .. Last * Chunks) /\ Last * Chunks \in Int
        BY <1>4 DEF StreamInv, Typed
      <4> QED BY <4>1
    <3> HIDE DEF seg
    <3> QED BY <1>4, <1>5, <1>8, <3>1, <3>2
  <2> HIDE DEF seg
  <2> QED BY <1>8, <2>1, <2>3, LastOut
<1>10. out = <<>> \/ seg = out[Len(out)] + 1
  <2> HIDE DEF seg
  <2> QED BY <1>5, <1>4, <1>9
<1> QED BY <1>2, <1>3, <1>6, <1>7, <1>10

(* Where nothing may be lost, whole segments are delivered without a gap   *)
(* and none twice, from wherever delivery was restarted, until stop().     *)
THEOREM DeliveryRefinement == Spec => DeliverySpec
<1>1. Init => Delivery!Init
  BY DEF Init, Delivery!Init, Over, Lossless
<1>2. ASSUME StreamInv, [Next]_vars PROVE [Delivery!Next]_(Delivery!vars)
  <2>1. CASE UNCHANGED vars
    BY <2>1, SameKind DEF vars, Delivery!vars, Over, Lossless
  <2>2. CASE Next
    <3>0. kind' = kind
      BY <2>2 DEF Next, Pause, Resume, Seek, Stop, Command, Publish, RunLoop, BeginTick, TakeSeek,
         Join, Wake, StreamStep, BeginStream, InitFetched, InitFails, LoopHead, WindowEnds,
         AwaitEdge, PlanSegments, Prepare, PrepareFails, Downloaded, UseResult,
         FallbackFetched, FallbackFails, EmitSegment, DecryptFails, ChunksFetched,
         ChunksFail, TakeChunk, PassChunk, EmitChunk, ChunksEnd, Step, Return, Raise
    <3>1. CASE Log' \in {Log, <<>>}
      <4>1. CASE ~Open'
        BY <3>1, <4>1 DEF Delivery!Next, Delivery!Close, Log, Open
      <4>2. CASE Open'
        <5>1. Open
          BY <1>2, <2>2, <4>2, ClosedStays
        <5> QED BY <3>1, <4>2, <5>1 DEF Delivery!Next, Delivery!Restart, Delivery!vars, Log, Open
      <4> QED BY <4>1, <4>2
    <3>2. CASE Log' \notin {Log, <<>>}
      <4>1. Lossless /\ ~Kinds[kind].lowLatency /\ out' \notin {out, <<>>} /\ Log = out /\ Log' = out'
        BY <3>0, <3>2, SameKind DEF Log
      <4>2. ~EmitChunk
        BY <1>2, <4>1 DEF EmitChunk, StreamInv, Placed, InChunks
      <4>3. EmitSegment /\ ~Interrupted /\ ~Discards
        BY <1>2, <2>2, <4>1, <4>2, LogGrows
      <4>4. Open /\ Open' /\ \E part \in Parts : /\ Log = <<>> \/ part = Log[Len(Log)] + 1
                                                 /\ Log' = Append(Log, part)
        BY <1>2, <4>1, <4>3, EmitDelivers
      <4> QED BY <4>4 DEF Delivery!Next, Delivery!Deliver, Log, Open
    <3> QED BY SMTT(30), <3>1, <3>2
  <2> QED BY <1>2, <2>1, <2>2
<1> QED BY <1>1, <1>2, StreamInvariant, PTL DEF Spec, DeliverySpec, Delivery!Spec
=============================================================================
