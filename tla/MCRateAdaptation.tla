--------------------------- MODULE MCRateAdaptation ---------------------------
(* Instances of RateAdaptation for TLC. *)
EXTENDS RateAdaptation, TLC

NoTraits == [t \in ToSet(Traits) |-> {}]
RepOf(bps) == [bps |-> bps, ranking |-> None, supported |-> TRUE, hints |-> {}]
SetOf(kind, rates) ==
    [kind |-> kind, traits |-> NoTraits, priority |-> 1, partial |-> FALSE, fallbackFor |-> 0,
     supported |-> TRUE, targets |-> {}, hints |-> {},
     reps |-> [n \in DOMAIN rates |-> RepOf(rates[n])]]
Spoken(set, language, roles) ==
    [set EXCEPT !.traits = [@ EXCEPT !.language = {language}, !.role = roles]]

NoOps == [min |-> None, max |-> None, target |-> None,
          bestRanking |-> None, worstRanking |-> None, rankingTarget |-> None]
PassOf(link, sets) == [link |-> link, sets |-> sets, preselections |-> <<>>, ops |-> NoOps]

(* Three rungs and one that cannot be delivered; the highest is dropped.     *)
Shrinking ==
    LET video(rates) == SetOf("video", rates)
    IN  << PassOf("hard", <<[video(<<4, 8, 1, 2>>) EXCEPT !.reps[2].supported = FALSE]>>),
           PassOf("soft", <<video(<<2, 1>>)>>) >>

(* Two sets that switch on a grid of two segments, one of their              *)
(* Representations on a finer one; a target of three.                        *)
Gridded ==
    LET low  == [SetOf("video", <<1>>) EXCEPT !.hints = {4}]
        high == [SetOf("video", <<2, 4>>) EXCEPT !.targets = {1}, !.reps[2].hints = {6}]
    IN  << [PassOf("hard", <<low, high>>) EXCEPT !.ops.target = 3],
           [PassOf("hard", <<high, low>>) EXCEPT !.sets[1].targets = {2}, !.ops.max = 2] >>

(* Rankings limit and aim; two languages, one of them a commentary.          *)
Ranked2 ==
    LET video == [SetOf("video", <<1, 2, 4>>) EXCEPT !.reps[1].ranking = 3, !.reps[2].ranking = 2,
                                                     !.reps[3].ranking = 1]
        en == Spoken(SetOf("audio", <<1>>), "en", {"main"})
        talk == Spoken(SetOf("audio", <<2>>), "en", {"commentary"})
        fr == [Spoken(SetOf("audio", <<1>>), "fr", {"main"}) EXCEPT !.priority = 2]
        aimed == [NoOps EXCEPT !.rankingTarget = 2, !.worstRanking = 2]
    IN  << [PassOf("hard", <<talk, video, en, fr>>) EXCEPT !.ops = aimed],
           [PassOf("soft", <<fr, en, video>>) EXCEPT !.ops = [aimed EXCEPT !.bestRanking = 1]] >>

(* A Preselection of a partial audio set, a fallback, a trick-play set.      *)
Bundled ==
    LET main == Spoken(SetOf("audio", <<1>>), "en", {"main"})
        part == [SetOf("audio", <<1>>) EXCEPT !.partial = TRUE]
        film == SetOf("video", <<2>>)
        less == [SetOf("video", <<1>>) EXCEPT !.fallbackFor = 3]
        fast == SetOf("trick", <<1>>)
        odd  == [SetOf("video", <<1>>) EXCEPT !.supported = FALSE]
        whole == [components |-> <<1, 2>>, traits |-> NoTraits, priority |-> 1]
        lost  == [components |-> <<2, 9>>, traits |-> NoTraits, priority |-> 3]
    IN  << [PassOf("hard", <<main, part, film, less, fast>>) EXCEPT !.preselections = <<lost, whole>>],
           [PassOf("soft", <<main, odd, film>>) EXCEPT !.sets[1].fallbackFor = 3] >>

AllSites == <<Shrinking, Gridded, Ranked2, Bundled>>
OneLadder == <<Shrinking>>

AnyTrack == [t \in ToSet(Traits) |-> <<>>] @@ [tracks |-> 9]
Only(n) == [AnyTrack EXCEPT !.tracks = n]
Selecting(audio, trick) ==
    [audio |-> audio, video |-> Only(2), text |-> Only(0), trick |-> trick, image |-> Only(0)]

Default == Selecting(AnyTrack, Only(0))
French == Selecting([Only(1) EXCEPT !.language = <<"fr", "en">>, !.role = <<"main">>], Only(1))
Both == {Default, French}
OneEach == <<{Default}, {Default}, Both, Both>>
OneSelection == <<{Default}>>

Modest == [Unconstrained EXCEPT !.max = 2]
Fixed == [Unconstrained EXCEPT !.min = 2, !.auto = FALSE, !.fixed = 1]
Saving == [Unconstrained EXCEPT !.saver = TRUE]
SomeUsers == {Unconstrained, Modest, Fixed, Saving}
TwoUsers == {Unconstrained, Fixed}

Fast == [bps |-> 4, bytes |-> 8]
Slow == [bps |-> 2, bytes |-> 8]
Tiny == [bps |-> 1, bytes |-> 0]
SomeSamples == {Fast, Slow, Tiny}

Pushes == {[dropped |-> 0, total |-> 1], [dropped |-> 4, total |-> 20]}
=============================================================================
