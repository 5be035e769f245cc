--------------------------- MODULE RateAdaptation ---------------------------
(***************************************************************************)
(* The tracks the player binds to Adaptation Sets when it enters a Period, *)
(* and, for one of them, the quality it plans for every segment            *)
(* (schedule/segment_plan.rs, schedule/adaptation_stream.rs, abr).         *)
(*                                                                         *)
(* A pass is one entry of the run loop into a Period: a tick of the same   *)
(* one, whose MPD may have been refreshed, or the next one after a soft or *)
(* a hard transition.  What a track keeps from one pass to the next is in  *)
(* session; what a stream of run_adaptation_stream keeps is in stream.     *)
(***************************************************************************)
EXTENDS TrackSelection, QualityLadder

CONSTANTS
    Sites,          \* presentations: sequences of passes [sets, preselections, ops, link]
    Selections,     \* the track selections a user makes of each
    Users,          \* the quality constraints a user sets
    Algorithms,     \* of AbrFactory: "bola", "lol"
    Buffers,        \* buffer levels
    Samples,        \* [bps, bytes]: what a download may tell of throughput
    Counters,       \* frame counters a host may push: [dropped, total]
    Duration,       \* of a segment
    Full,           \* BufferTarget::max_buffer_s
    Reserve,        \* buffer_min_s of LoL+
    Enough,         \* minimum_sample_size
    Share,          \* dropped_frames_percentage_threshold, in percent
    Batch,          \* batch_cap
    Length,         \* bound: segments of a pass
    MaxEntries,     \* bound: passes entered
    MaxCommands     \* bound: commands of the user and the host

ASSUME RateAssumption ==
    /\ Batch \in Nat \ {0} /\ Length \in Nat /\ MaxEntries \in Nat /\ MaxCommands \in Nat
    /\ Duration \in Nat \ {0} /\ Reserve \in Nat /\ Full \in Nat /\ Full >= 2 * Duration
    /\ Buffers \subseteq 0..Full
    /\ Algorithms \subseteq {"bola", "lol"}

VARIABLES
    world,          \* the presentation, the algorithm, the track that is modelled
    loop,           \* the run loop: its pass, whether it saw the streams interrupted
    selection,      \* TrackSelection
    user,           \* QualityConstraints of the PlaybackController
    tracks,         \* the sets selected in this pass; per track, the set announced
    session,        \* what the track keeps: the Init sent, last_quality_index, frames
    stream,         \* the stream that is running
    plans,          \* the plans of its batch, those not recorded yet
    fault           \* whether a ladder was indexed past its end

vars == <<world, loop, selection, user, tracks, session, stream, plans, fault>>

Site == Sites[world.site]
Period == Site[loop.pass]

NoStream == [ladder |-> <<>>]

\* Selected of every pass under every selection, tabulated.
Selection == [s \in DOMAIN Sites |-> [p \in DOMAIN Sites[s] |->
                [choice \in Selections[s] |-> Selected(Sites[s][p], choice)]]]

Init ==
    /\ user = Unconstrained
    /\ \E s \in DOMAIN Sites, a \in Algorithms :
       /\ selection \in Selections[s]
       /\ LET chosen == Selection[s][1][selection]
            IN  \E t \in DOMAIN chosen :
                  /\ world = [site |-> s, algorithm |-> a, track |-> t]
                  /\ tracks = [led |-> chosen, told |-> [n \in DOMAIN chosen |-> chosen[n].lead]]
    /\ loop = [pass |-> 1, inside |-> FALSE, interrupted |-> FALSE, reset |-> FALSE,
               entries |-> 0, commands |-> 0]
    /\ session = [init |-> FALSE, last |-> None, of |-> <<>>, frames |-> NoFrames]
    /\ stream = NoStream
    /\ plans = <<>>
    /\ fault = FALSE

-----------------------------------------------------------------------------
(* Decisions.                                                              *)

\* BolaAbrController::decide, LolPlusAbrController::decide: the constraint
\* the controller was made with, the target until a sample, the algorithm
Decisions(s) ==
    IF s.forced # None THEN {s.forced}
    ELSE IF ~s.sampled /\ s.preferred # None THEN {s.preferred}
    ELSE IF world.algorithm = "bola" THEN {BolaChoice(s.ladder, s)}
    ELSE LolChoices(s.ladder, s)

\* LolPlus::decide keeps its choice; nothing else does.
AfterDecision(s, q) ==
    IF \/ world.algorithm = "bola"
       \/ s.forced # None
       \/ ~s.sampled /\ s.preferred # None
       \/ Len(s.ladder) = 1
    THEN s ELSE [s EXCEPT !.current = q]

\* A decision indexes the ladder of the controller.
Misdecided(s, q) == (s.forced # None \/ ~s.sampled) /\ ~InLadder(s.ladder, q)

\* the same, that leaves the user's fixed quality to the controller
Bounded_AsBuilt(s, frames, q) ==
    Capped(s.ladder, user, FrameCap(frames, Enough, Share), Lesser(q, Top(s.ladder)))

\* what both plan_init and plan_segment make of a decision
Bounded(s, frames, q) ==
    Capped(s.ladder, user, FrameCap(frames, Enough, Share), Clamped(s.ladder, user, q))

\* the sets that the track may switch among
Group == tracks.led[world.track].group

\* switching_hints_for_rung: the hints of the rung's set and Representation,
\* else those of any set of the group
Hints(s, q) ==
    LET rung == Rung(s.ladder, q)
        own  == Period.sets[rung.set].hints \cup Period.sets[rung.set].reps[rung.rep].hints
    IN  IF own # {} THEN own ELSE UNION {Period.sets[i].hints : i \in Group}

\* is_switch_opportunity
Opportunity(n, hints) == hints = {} \/ \E h \in hints : ((n - 1) * Duration) % h = 0

\* a plan that ignores the Switching grid
Held_Never(s, n, last, q) == FALSE

\* A switch waits for an opportunity of its target.
Held(s, n, last, q) == last # None /\ last # q /\ ~Opportunity(n, Hints(s, q))

Planned(s, n, last, q) == IF Held(s, n, last, q) THEN last ELSE q

-----------------------------------------------------------------------------
(* The run loop and the start of a stream.                                 *)

\* BolaAbrController::from_adaptation_set: the target is sought on the
\* ladder before the user's constraints apply to it
Controller(period, group) ==
    LET operated == Operated(LadderOf(period, group), period.ops)
        ladder   == Constrained(operated, user)
        forced   == Forced(ladder, user)
    IN  [ ladder |-> ladder, operated |-> operated, forced |-> forced,
          preferred |-> IF forced # None THEN forced ELSE Preferred(operated, period.ops),
          buffer |-> 0, duration |-> Duration, full |-> Full, reserve |-> Reserve,
          ewma |-> 0, sampled |-> FALSE, current |-> 0,
          next |-> 1, fetching |-> FALSE ]

\* on_period_change, reset_track_sessions: what a pass inherits
Inherited(pass) ==
    IF loop.reset \/ loop.entries = 0 \/ (pass # loop.pass /\ Site[pass].link = "hard")
    THEN [session EXCEPT !.init = FALSE] ELSE session

\* run_adaptation_stream up to its loop, of a track whose Init went out
Resumed(s, kept) ==
    /\ stream' = s
    /\ session' = [kept EXCEPT !.frames.active = IF kept.last = None THEN @ ELSE kept.last]
    /\ UNCHANGED fault

\* the same, where the Init is due: plan_init, and the Init fetched
Started(s, kept) ==
    \E b \in Buffers :
      LET fresh == [s EXCEPT !.buffer = b]
      IN  \E q \in Decisions(fresh) :
            LET first == Bounded(fresh, kept.frames, q)
            IN  /\ stream' = AfterDecision(fresh, q)
                /\ fault' = Misdecided(fresh, q)
                /\ session' = IF fault' THEN kept
                              ELSE [kept EXCEPT !.init = TRUE, !.last = first, !.of = s.ladder,
                                                !.frames.active = first]

\* A pass: the sets are selected and announced, the streams start.
Enter(pass) ==
    /\ ~loop.inside /\ ~fault /\ loop.entries < MaxEntries
    /\ LET led == Selection[world.site][pass][selection]
           s   == Controller(Site[pass], led[world.track].group)
       IN  /\ tracks' = [led |-> led, told |-> [t \in DOMAIN tracks.told |->
                            IF t \in DOMAIN led THEN led[t].lead ELSE tracks.told[t]]]
           /\ IF world.track \notin DOMAIN led \/ s.ladder = <<>>
              THEN /\ stream' = NoStream
                   /\ session' = Inherited(pass)
                   /\ UNCHANGED fault
              ELSE IF Inherited(pass).init THEN Resumed(s, Inherited(pass))
              ELSE Started(s, Inherited(pass))
    /\ loop' = [loop EXCEPT !.pass = pass, !.inside = TRUE, !.interrupted = FALSE, !.reset = FALSE,
                            !.entries = @ + 1]
    /\ plans' = <<>>
    /\ UNCHANGED <<world, selection, user>>

\* The streams have ended, or have seen the generation change.
Leave ==
    /\ loop.inside /\ ~fault
    /\ plans = <<>> \/ loop.interrupted
    /\ loop' = [loop EXCEPT !.inside = FALSE, !.interrupted = FALSE, !.reset = loop.interrupted]
    /\ stream' = NoStream
    /\ plans' = <<>>
    /\ UNCHANGED <<world, selection, user, tracks, session, fault>>

-----------------------------------------------------------------------------
(* The stream.                                                             *)

\* plan_segment, for the next segment of the batch
Plan ==
    /\ stream # NoStream /\ ~fault /\ ~stream.fetching
    /\ Len(plans) < Batch /\ stream.next <= Length
    /\ \E b \in IF plans = <<>> THEN Buffers ELSE {stream.buffer} :
         LET s    == [stream EXCEPT !.buffer = b]
             last == IF plans = <<>> THEN session.last ELSE Last(plans).q
         IN  \E q \in Decisions(s) :
               LET final == Planned(s, s.next, last, Bounded(s, session.frames, q))
               IN  /\ stream' = [AfterDecision(s, q) EXCEPT !.next = @ + 1]
                   /\ fault' = (Misdecided(s, q) \/ ~InLadder(s.ladder, final))
                   /\ plans' = IF fault' THEN plans
                               ELSE Append(plans, [q |-> final, after |-> last, segment |-> s.next])
    /\ UNCHANGED <<world, loop, selection, user, tracks, session>>

\* observe_segment_download of either controller
Observed(s, sample, q) ==
    LET counts == Representative(sample.bytes, Rung(s.ladder, q).bps, Duration)
    IN  [s EXCEPT !.ewma    = IF counts THEN Smoothed(@, sample.bps) ELSE @,
                  !.sampled = @ \/ counts \/ world.algorithm = "bola",
                  !.current = IF counts /\ world.algorithm = "lol" THEN q ELSE @]

\* A download, of the quality planned or of one that it fell back to, and
\* record_quality_switch_and_throughput.
Record ==
    /\ plans # <<>> /\ ~fault
    /\ \E used \in 0..Head(plans).q, sample \in Samples :
         /\ fault' = (session.last # None /\ session.last # used
                        /\ ~InLadder(stream.ladder, session.last))
         /\ session' = IF fault' THEN session
                       ELSE [session EXCEPT !.last = used, !.of = stream.ladder, !.frames.active = used]
         /\ stream' = [Observed(stream, sample, used) EXCEPT !.fetching = Len(plans) > 1]
    /\ plans' = Tail(plans)
    /\ UNCHANGED <<world, loop, selection, user, tracks>>

\* A pause cancels what is left of the batch; it is planned anew.
Cancel ==
    /\ plans # <<>> /\ ~fault
    /\ stream' = [stream EXCEPT !.next = Head(plans).segment, !.fetching = FALSE]
    /\ plans' = <<>>
    /\ UNCHANGED <<world, loop, selection, user, tracks, session, fault>>

-----------------------------------------------------------------------------
(* The user and the host.                                                  *)

Command(interrupts) ==
    /\ ~fault /\ loop.commands < MaxCommands
    /\ loop' = [loop EXCEPT !.commands = @ + 1,
                            !.interrupted = @ \/ (loop.inside /\ interrupts)]
    /\ UNCHANGED <<world, tracks, stream, plans, fault>>

SetQualityConstraints(u) ==
    /\ u # user
    /\ user' = u
    /\ Command(FilterChanged(user, u))
    /\ UNCHANGED <<selection, session>>

SetTrackSelection(s) ==
    /\ s # selection
    /\ selection' = s
    /\ Command(TRUE)
    /\ UNCHANGED <<user, session>>

\* DroppedFramesHistory::push
PushFrames(c) ==
    /\ session' = [session EXCEPT !.frames = Pushed(@, c.dropped, c.total)]
    /\ session' # session
    /\ Command(FALSE)
    /\ UNCHANGED <<selection, user>>

Next ==
    \/ \E pass \in {loop.pass, loop.pass + 1} \cap DOMAIN Site : Enter(pass)
    \/ Leave
    \/ Plan
    \/ Record
    \/ Cancel
    \/ \E u \in Users : SetQualityConstraints(u)
    \/ \E s \in Selections[world.site] : SetTrackSelection(s)
    \/ \E c \in Counters : PushFrames(c)

Spec == Init /\ [][Next]_vars

-----------------------------------------------------------------------------
(* What the tracks promise.                                                *)

TypeOK ==
    /\ selection \in Selections[world.site] /\ user \in Users /\ fault \in BOOLEAN
    /\ loop.pass \in DOMAIN Site /\ loop.entries \in 0..MaxEntries
    /\ loop.commands \in 0..MaxCommands
    /\ loop.interrupted => loop.inside
    /\ stream # NoStream => loop.inside /\ stream.ladder # <<>>
    /\ stream = NoStream => plans = <<>>
    /\ Len(plans) <= Batch
    /\ \A i \in DOMAIN plans : InLadder(stream.ladder, plans[i].q)
    /\ session.last = None \/ InLadder(session.of, session.last)
    /\ session.init => session.last # None
    /\ session.frames.active = session.last

Enters == loop'.entries # loop.entries

\* No Adaptation Set is fetched for two tracks, which would deliver it twice;
\* a group that mixes kinds is led once per kind (select.rs:281).
OnceEach(period, led) ==
    \A t \in DOMAIN led : \A o \in DOMAIN led \ {t} :
       led[o].lead \in led[t].group =>
          \E i \in led[t].group, j \in led[t].group : period.sets[i].kind # period.sets[j].kind
OneTrackPerGroup == [][Enters => OnceEach(Site[loop'.pass], tracks'.led)]_vars

\* A set that plays by itself and is fetched for no track was outranked by as
\* many candidates of its kind as the user asked for (select.rs:461).
BestKept(period, led) ==
    \A kind \in MainKinds :
      \A i \in Standalone(period, kind) \ UNION {led[n].group : n \in DOMAIN led} :
        LET candidates == {Alone(period, o) : o \in Standalone(period, kind)} \cup Bundles(period, kind)
            rank == Rank(Alone(period, i), selection[kind])
        IN  Cardinality({c \in candidates : Before(Rank(c, selection[kind]), rank)})
              >= selection[kind].tracks
BestTracksKept == [][Enters => BestKept(Site[loop'.pass], tracks'.led)]_vars

\* A set that is only a part of a Preselection, or a fallback for another
\* set, leads no track unless a Preselection holds it (select.rs:542).
HasItsWhole(period, i) ==
    period.sets[i].partial \/ period.sets[i].fallbackFor # 0 =>
       \E m \in DOMAIN Resolved(period) : Contains(Resolved(period)[m].components, i)
PartsComeWithTheirWhole ==
    [][Enters => \A n \in DOMAIN tracks'.led :
                    HasItsWhole(Site[loop'.pass], tracks'.led[n].lead)]_vars

\* The tracks of a pass are the best there are, each complete, none twice.
TracksAreChosen == OneTrackPerGroup /\ BestTracksKept /\ PartsComeWithTheirWhole

\* A Preselection one of whose components is played is played as a whole:
\* refuted, a partial set of another kind than the main one is in no selection
\* pass ("other media kinds keep their own selection pass", select.rs:521).
IsWhole(period, led) ==
    \A m \in DOMAIN Resolved(period) :
       LET parts == ToSet(Resolved(period)[m].components)
       IN  (\E n \in DOMAIN led : led[n].lead \in parts)
             => parts \subseteq UNION {led[n].group : n \in DOMAIN led}
PreselectionIsWhole == [][Enters => IsWhole(Site[loop'.pass], tracks'.led)]_vars

\* A track keeps its media kind: refuted, sets are bound to tracks by their
\* order in the document, which a Period may change (stream_controller/mod.rs:226).
KindsAreStable ==
    [][\A t \in DOMAIN tracks.told :
         Site[loop'.pass].sets[tracks'.told[t]].kind = Period.sets[tracks.told[t]].kind]_vars

-----------------------------------------------------------------------------
(* What the plans promise.                                                 *)

\* A ladder is indexed past its end only by an index of another ladder: the
\* last quality of an earlier stream, kept across a live tick or a soft
\* transition, or the target sought before the user's constraints applied.
OnlyStaleIndexFaults ==
    fault => \/ /\ session.last # None /\ session.of # stream.ladder
                /\ ~InLadder(stream.ladder, session.last)
             \/ ~stream.sampled /\ stream.operated # stream.ladder

\* "Index into the quality ladder (0 = lowest bitrate)" (abr/mod.rs:57), of
\* every decision and every plan: refuted, see OnlyStaleIndexFaults.
NeverPastTheLadder == ~fault

\* What the user allows of the rungs the presentation allows.
Allowed(s, u) == {q \in Rungs(s.operated) : MeetsEnvelope(Rung(s.operated, q), u)}

\* Every segment planned is within the bitrates the user allows now, whenever
\* the presentation has any; a stream that was built for other bounds has
\* been interrupted (playback_control.rs:473).
EnvelopeKept ==
    stream # NoStream /\ ~loop.interrupted /\ Allowed(stream, user) # {} =>
       \A i \in DOMAIN plans : MeetsEnvelope(Rung(stream.ladder, plans[i].q), user)

\* Indexes name rungs of their ladders, and the rungs planned are allowed.
QualityInv == TypeOK /\ OnlyStaleIndexFaults /\ EnvelopeKept

Plans == Len(plans') = Len(plans) + 1
Newest == Last(plans')

\* A plan kept its predecessor's quality for want of an opportunity.
Waits == Newest.q = Newest.after /\ UNION {Period.sets[i].hints : i \in Group}
            \cup UNION {r.hints : r \in UNION {ToSet(Period.sets[i].reps) : i \in Group}} # {}

\* "Fixed-quality and autoswitch changes apply on the next segment decision"
\* (playback_control.rs:457): of a change to a fixed quality or to data-saver
\* this holds, but for a Switching grid.
FixedQualityApplies ==
    [][Plans /\ Forced(stream.ladder, user) # None =>
         Newest.q = Forced(stream.ladder, user) \/ Waits]_vars

\* The same of a change back: refuted, a controller made under a fixed
\* quality returns it for as long as its stream runs (bola/factory.rs:137).
AutoSwitchApplies ==
    [][Plans /\ Forced(stream.ladder, user) = None /\ world.algorithm = "bola" /\ stream.sampled =>
         \/ Newest.q = BolaChoice(stream.ladder, stream')
         \/ FrameCap(session.frames, Enough, Share) # None
         \/ Waits]_vars

\* No rung that dropped too many of the frames it showed is planned again in
\* the same stream, nor one above it, unless the user fixed the quality
\* (dropped_frames.rs:159).
DroppingRungAvoided ==
    [][Plans /\ Forced(stream.ladder, user) = None =>
         \/ Waits
         \/ \A q \in DOMAIN session.frames.by \ {0} :
              LET f == session.frames.by[q]
              IN  f.total > Enough /\ f.dropped * 100 > Share * f.total => Newest.q < q]_vars

Records == plans # <<>> /\ plans' = Tail(plans) /\ loop'.inside /\ stream'.next = stream.next

\* Unless it fell back, a track changes its Representation only at a segment
\* that the Switching of the target allows (segment_plan.rs:137); what comes
\* after a fallback was planned against the quality that failed.
SwitchesOnTheGrid ==
    [][Records /\ ~fault' /\ session'.last # session.last =>
         \/ session'.last < Head(plans).q
         \/ session.last = None
         \/ session.last # Head(plans).after
         \/ Opportunity(Head(plans).segment, Hints(stream, session'.last))]_vars

\* What the user fixes is planned; else what plays without dropping frames;
\* and what is planned is reached where the presentation lets it switch.
PlansObey == FixedQualityApplies /\ DroppingRungAvoided /\ SwitchesOnTheGrid

\* BOLA never answers a fuller buffer with a lower quality (bola/algorithm.rs:250).
FullerNeverLowers ==
    stream # NoStream /\ plans = <<>> /\ world.algorithm = "bola" =>
       \A b \in 0..Full - 1 :
          BolaChoice(stream.ladder, [stream EXCEPT !.buffer = b])
            <= BolaChoice(stream.ladder, [stream EXCEPT !.buffer = b + 1])

\* "This ensures the highest quality can only be chosen when the buffer is
\* close to full" (bola/algorithm.rs:173): refuted, gamma counts in V but in no
\* score, and the top rung wins from a seventh of the buffer on.
TopOnlyNearFull ==
    stream # NoStream /\ Len(stream.ladder) > 1 =>
       \A b \in 0..Full \div 2 :
          BolaChoice(stream.ladder, [stream EXCEPT !.buffer = b]) # Top(stream.ladder)

\* With less than a segment buffered BOLA plans the lowest rung, and LoL+ none
\* above the one it holds current, but for the target before the first sample
\* and what the user fixed.
StarvedNeverRaises ==
    [][Plans /\ stream.forced = None /\ Forced(stream.ladder, user) = None
         /\ (stream.sampled \/ stream.preferred = None) /\ stream'.buffer < Duration =>
         \/ Waits
         \/ Newest.q <= IF world.algorithm = "bola" THEN 0 ELSE stream.current]_vars

\* Once BOLA knows the throughput it plans nothing it cannot sustain, but for
\* the lowest rung, a fixed quality and a Switching grid.
SustainableOnly ==
    [][Plans /\ world.algorithm = "bola" /\ stream.ewma > 0
         /\ stream.forced = None /\ Forced(stream.ladder, user) = None =>
         \/ Waits
         \/ Newest.q = 0
         \/ Rung(stream.ladder, Newest.q).bps <= stream.ewma]_vars

\* Buffer and throughput move the quality the right way, each for itself.
PlansAreSustainable == []FullerNeverLowers /\ StarvedNeverRaises /\ SustainableOnly
=============================================================================
