---------------------------- MODULE QualityLadder ----------------------------
(***************************************************************************)
(* Quality ladders, the constraints on them and the rules that choose a    *)
(* rung (abr/mod.rs, constraints.rs, dropped_frames.rs, bola, lol_plus).   *)
(*                                                                         *)
(* Rungs are counted from 0, as in the code; None of an Option is None.    *)
(* Bitrates are small integers; the natural logarithms of BOLA's utilities *)
(* are taken to three decimals.                                            *)
(***************************************************************************)
EXTENDS Integers, Sequences, FiniteSets, SequencesExt

None == -1

Rung(ladder, q) == ladder[q + 1]
Top(ladder) == Len(ladder) - 1
Rungs(ladder) == 0..Top(ladder)
InLadder(ladder, q) == q \in Rungs(ladder)

Lesser(a, b) == IF a < b THEN a ELSE b
Greater(a, b) == IF a < b THEN b ELSE a
Distance(a, b) == IF a < b THEN b - a ELSE a - b

-----------------------------------------------------------------------------
(* The ladder.                                                             *)

\* quality_ladder_from_adaptation_sets: the Representations that can be
\* delivered, of the set and its peers, by bitrate
LadderOf(period, group) ==
    LET deliverable ==
            UNION { {[set |-> i, rep |-> r, bps |-> period.sets[i].reps[r].bps,
                      ranking |-> period.sets[i].reps[r].ranking] :
                        r \in {n \in DOMAIN period.sets[i].reps :
                                 /\ period.sets[i].reps[n].supported
                                 /\ period.sets[i].reps[n].bps > 0}} : i \in group }
    IN  SetToSortSeq(deliverable,
                     LAMBDA a, b : \/ a.bps < b.bps
                                   \/ a.bps = b.bps /\ a.set < b.set
                                   \/ a.bps = b.bps /\ a.set = b.set /\ a.rep < b.rep)

\* A filter that would leave nothing is not applied.
Filtered(ladder, Matches(_)) ==
    LET kept == SelectSeq(ladder, Matches) IN IF kept = <<>> THEN ladder ELSE kept

Within(value, min, max) == (min = None \/ value >= min) /\ (max = None \/ value <= max)

\* rung_matches_constraints: a rung without a ranking meets any ranking
MeetsOperating(rung, ops) ==
    /\ Within(rung.bps, ops.min, ops.max)
    /\ rung.ranking = None \/ Within(rung.ranking, ops.bestRanking, ops.worstRanking)

\* apply_operating_constraints
Operated(ladder, ops) == Filtered(ladder, LAMBDA r : MeetsOperating(r, ops))

Nearest(ladder, candidates, Off(_)) ==
    IF candidates = {} THEN None
    ELSE CHOOSE q \in candidates :
           \A o \in candidates : Off(q) < Off(o) \/ (Off(q) = Off(o) /\ q <= o)

\* preferred_quality_index
Preferred(ladder, ops) ==
    IF ops.target # None
    THEN Nearest(ladder, Rungs(ladder), LAMBDA q : Distance(Rung(ladder, q).bps, ops.target))
    ELSE IF ops.rankingTarget # None
    THEN Nearest(ladder, {q \in Rungs(ladder) : Rung(ladder, q).ranking # None},
                 LAMBDA q : Distance(Rung(ladder, q).ranking, ops.rankingTarget))
    ELSE None

-----------------------------------------------------------------------------
(* User constraints.                                                       *)

\* QualityConstraints::default
Unconstrained == [min |-> None, max |-> None, auto |-> TRUE, fixed |-> None, saver |-> FALSE]

MeetsEnvelope(rung, user) == Within(rung.bps, user.min, user.max)

\* apply_user_quality_constraints
Constrained(ladder, user) ==
    LET kept == Filtered(ladder, LAMBDA r : MeetsEnvelope(r, user))
    IN  IF user.saver THEN SubSeq(kept, 1, Lesser(1, Len(kept))) ELSE kept

\* a change of the upper bound that goes unnoticed
FilterChanged_NotMax(a, b) == <<a.min, a.saver>> # <<b.min, b.saver>>

\* QualityConstraints::ladder_filter_changed
FilterChanged(a, b) == <<a.min, a.max, a.saver>> # <<b.min, b.max, b.saver>>

\* a fixed index that is not bounded by the ladder
Forced_Unbounded(ladder, user) ==
    IF user.saver THEN 0 ELSE IF ~user.auto THEN Greater(user.fixed, 0) ELSE None

\* forced_quality_index
Forced(ladder, user) ==
    IF user.saver THEN 0
    ELSE IF ~user.auto THEN Lesser(Greater(user.fixed, 0), Top(ladder))
    ELSE None

\* clamp_quality_index
Clamped(ladder, user, q) ==
    IF Forced(ladder, user) # None THEN Forced(ladder, user) ELSE Lesser(q, Top(ladder))

-----------------------------------------------------------------------------
(* Dropped frames.                                                         *)

\* the rung that drops frames itself
FrameCap_Inclusive(frames, enough, share) ==
    LET failing == { q \in DOMAIN frames.by :
                       /\ q # 0 /\ frames.by[q].total > enough
                       /\ frames.by[q].dropped * 100 > share * frames.by[q].total }
    IN  IF failing = {} THEN None ELSE CHOOSE q \in failing : \A o \in failing : q <= o

\* DroppedFramesHistory::quality_cap: below the lowest rung, other than the
\* lowest of all, that dropped too many frames of enough
FrameCap(frames, enough, share) ==
    LET failing == { q \in DOMAIN frames.by :
                       /\ q # 0 /\ frames.by[q].total > enough
                       /\ frames.by[q].dropped * 100 > share * frames.by[q].total }
    IN  IF failing = {} THEN None ELSE (CHOOSE q \in failing : \A o \in failing : q <= o) - 1

\* apply_dropped_frames_cap
Capped(ladder, user, cap, q) ==
    Lesser(IF Forced(ladder, user) # None \/ cap = None THEN q ELSE Lesser(q, cap), Top(ladder))

NoFrames == [active |-> None, baseline |-> FALSE, dropped |-> 0, total |-> 0, by |-> <<>>]

\* counters that went back start a new history
Pushed_Anew(frames, dropped, total) ==
    [NoFrames EXCEPT !.dropped = dropped, !.total = total, !.baseline = TRUE]

\* DroppedFramesHistory::push
Pushed(frames, dropped, total) ==
    LET counted == [frames EXCEPT !.dropped = dropped, !.total = total, !.baseline = TRUE]
        by == IF frames.active \in DOMAIN frames.by THEN frames.by[frames.active]
              ELSE [dropped |-> 0, total |-> 0]
        sum == [ dropped |-> by.dropped + dropped - frames.dropped,
                 total   |-> by.total + total - frames.total ]
    IN  IF \/ ~frames.baseline
           \/ dropped < frames.dropped \/ total < frames.total
           \/ dropped = frames.dropped /\ total = frames.total
           \/ frames.active = None
        THEN counted
        ELSE [counted EXCEPT !.by = [q \in DOMAIN @ \cup {frames.active} |->
                                       IF q = frames.active THEN sum ELSE frames.by[q]]]

-----------------------------------------------------------------------------
(* Throughput.                                                             *)

\* observe_segment_download: a body under a quarter of what the rung's
\* segments weigh says nothing
Representative(bytes, bps, duration) == bytes * 4 >= bps * duration

\* observe_throughput, with a smoothing factor of a half
Smoothed(ewma, sample) == IF ewma = 0 THEN sample ELSE (ewma + sample) \div 2

-----------------------------------------------------------------------------
(* BOLA.                                                                   *)

MilliLn == [n \in 1..8 |-> <<0, 693, 1099, 1386, 1609, 1792, 1946, 2079>>[n]]
Gamma == 5000

Utility(ladder, q) == MilliLn[Rung(ladder, q).bps] - MilliLn[Rung(ladder, 0).bps]

\* (V (v + 1) - B) / bitrate, scaled by what V divides by; the numerator
Score(ladder, q, abr) ==
    (abr.full - abr.duration) * (Utility(ladder, q) + 1000)
        - abr.buffer * (Utility(ladder, Top(ladder)) + Gamma)

\* the comparison the other way
Outscores_Least(ladder, high, low, abr) ==
    Score(ladder, high, abr) * Rung(ladder, low).bps
        <= Score(ladder, low, abr) * Rung(ladder, high).bps

\* score >= best_score, of a higher rung
Outscores(ladder, high, low, abr) ==
    Score(ladder, high, abr) * Rung(ladder, low).bps
        >= Score(ladder, low, abr) * Rung(ladder, high).bps

\* throughput does not count
Affordable_Any(ladder, abr) == Rungs(ladder)

Affordable(ladder, abr) ==
    { q \in Rungs(ladder) : abr.ewma > 0 => Rung(ladder, q).bps <= abr.ewma }

\* Bola::decide
BolaChoice(ladder, abr) ==
    LET can == Affordable(ladder, abr)
    IN  IF Len(ladder) = 1 \/ abr.buffer < abr.duration \/ can = {} THEN 0
        ELSE CHOOSE q \in can : /\ \A o \in can : o < q => Outscores(ladder, q, o, abr)
                                /\ \A o \in can : o > q => ~Outscores(ladder, o, q, abr)

-----------------------------------------------------------------------------
(* LoL+.                                                                   *)

\* LolPlus::decide: what throughput is assumed before the first sample
Assumed(ladder, abr) ==
    IF abr.ewma > 0 THEN abr.ewma ELSE Rung(ladder, Len(ladder) \div 2).bps

\* the best affordable rung, below the current one or not
Downshift_Any(ladder, current, throughput) ==
    LET can == {q \in Rungs(ladder) : Rung(ladder, q).bps < throughput}
    IN  IF can = {} THEN current ELSE CHOOSE q \in can : \A o \in can : o <= q

\* downshift_neuron: the best rung below the current one that is affordable
Downshift(ladder, current, throughput) ==
    LET lower == {q \in 0..current - 1 : /\ Rung(ladder, q).bps < Rung(ladder, current).bps
                                         /\ Rung(ladder, q).bps < throughput}
    IN  IF lower = {} THEN current ELSE CHOOSE q \in lower : \A o \in lower : o <= q

\* LolPlus::decide: a safety downshift, else the winner of the map, which
\* any rung may be
LolChoices(ladder, abr) ==
    LET throughput == Assumed(ladder, abr)
        current    == Lesser(abr.current, Top(ladder))
    IN  IF Len(ladder) = 1 THEN {0}
        ELSE IF (abr.buffer - abr.reserve) * throughput < Rung(ladder, current).bps * abr.duration
        THEN {Downshift(ladder, current, throughput)}
        ELSE Rungs(ladder)
=============================================================================
