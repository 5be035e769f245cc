-------------------------- MODULE MCSegmentAddressing --------------------------
(* Instances of SegmentAddressing for TLC. *)
EXTENDS SegmentAddressing, TLC

Template ==
    [media |-> NoVal, index |-> NoVal, indexRange |-> NoVal, exact |-> NoVal, number |-> NoVal,
     duration |-> NoVal, timescale |-> NoVal, pto |-> NoVal, timeline |-> NoVal, repIndex |-> NoVal,
     ato |-> NoVal, atc |-> NoVal]
List == [duration |-> NoVal, timescale |-> NoVal, timeline |-> NoVal, urls |-> <<>>]
Level == [template |-> NoVal, list |-> NoVal, base |-> NoVal, urls |-> <<>>, endNumber |-> NoVal,
          resync |-> <<>>, prts |-> <<>>]
RepOf(id) == Level @@ [id |-> id, index |-> NoVal]
SetOf(reps) == Level @@ [reps |-> reps, sap |-> FALSE, access |-> <<>>]
Url(host, dir, location) ==
    [host |-> host, dir |-> dir, location |-> location, priority |-> NoVal, weight |-> NoVal,
     ato |-> NoVal, atc |-> NoVal]
MpdOf(set) ==
    [at |-> 0, dynamic |-> FALSE, start |-> 0, end |-> NoVal, duration |-> NoVal, total |-> NoVal,
     depth |-> NoVal, host |-> "origin", urls |-> <<>>, default |-> NoVal, seed |-> 1,
     latency |-> NoVal, period |-> Level, set |-> set]
S(t, d, r) == [t |-> t, d |-> d, r |-> r, k |-> NoVal, n |-> NoVal]

Two == <<Url("a", NoVal, "A"), Url("b", NoVal, "B")>>
Dir(rep) == [RepOf(rep) EXCEPT !.urls = <<Url(NoVal, rep, NoVal)>>]

(* A live template numbered from 5 on, two units a segment, whose media and  *)
(* startNumber the Representations inherit; its end becomes known.           *)
Numbers ==
    LET set == [SetOf(<<[RepOf("hd") EXCEPT !.template = [Template EXCEPT !.duration = 4]], RepOf("sd")>>)
                    EXCEPT !.template = [Template EXCEPT !.media = [name |-> "n", idents |-> {"rep", "number"}],
                                                         !.number = 5],
                    !.resync = <<[type |-> 0, d |-> 4], [type |-> 2, d |-> 2]>>]
        live == [MpdOf(set) EXCEPT !.dynamic = TRUE, !.start = 1, !.depth = 3, !.urls = Two, !.default = "B",
                                   !.period.template = [Template EXCEPT !.number = 9, !.timescale = 2, !.ato = 0]]
    IN  <<live, [live EXCEPT !.at = 6, !.total = 8]>>

(* A live timeline that slides, anchored by $Time$ and a presentation time   *)
(* offset; its third segment is cut into two.                                *)
Sliding ==
    LET set(entries) ==
            [SetOf(<<RepOf("hd"), RepOf("sd")>>) EXCEPT !.template =
                [Template EXCEPT !.media = [name |-> "t", idents |-> {"rep", "time", "sub"}], !.timescale = 2,
                                 !.pto = 4, !.timeline = entries],
                !.prts = <<[id |-> NoVal, encoder |-> TRUE, wall |-> 0, pt |-> 9],
                           [id |-> "live", encoder |-> TRUE, wall |-> 1, pt |-> 4]>>]
        live(at, entries) == [MpdOf(set(entries)) EXCEPT !.dynamic = TRUE, !.at = at, !.depth = 4, !.urls = Two,
                                                         !.latency = "live"]
        whole == S(4, 4, NoVal)
        cut   == [S(12, 4, NoVal) EXCEPT !.k = 2, !.n = 3]
    IN  << live(0, <<[whole EXCEPT !.n = 1]>>),
           live(4, <<[whole EXCEPT !.r = 1], cut>>),
           live(6, <<[S(8, 4, NoVal) EXCEPT !.n = 2], cut, S(NoVal, 4, 1)>>) >>

(* Repetition up to the next S, then up to the live edge, then to the end.   *)
Repeating ==
    LET set(entries) ==
            [SetOf(<<RepOf("hd")>>) EXCEPT !.template =
                [Template EXCEPT !.media = [name |-> "r", idents |-> {"number"}], !.timeline = entries]]
        live(at, entries) == [MpdOf(set(entries)) EXCEPT !.dynamic = TRUE, !.at = at, !.depth = 6]
        open == <<S(0, 2, -1), S(6, 3, -1)>>
    IN  <<live(0, <<S(NoVal, 2, 2)>>), live(4, open), [live(7, open) EXCEPT !.end = 12]>>

(* On demand: the last segment is short; the period's hosts are weighted.    *)
OnDemand ==
    LET weighted(host, priority, weight) == [Url(host, NoVal, NoVal) EXCEPT !.priority = priority, !.weight = weight]
        set == [SetOf(<<Dir("hd"), [Dir("sd") EXCEPT !.template = [Template EXCEPT !.number = 1]]>>) EXCEPT
                    !.template = [Template EXCEPT !.media = [name |-> "n", idents |-> {"number"}], !.duration = 2],
                    !.access = <<6, 4>>]
        mpd == [MpdOf(set) EXCEPT !.end = 5,
                    !.period.urls = <<weighted("x", 2, NoVal), weighted("y", NoVal, 3), weighted("z", 1, 2)>>]
    IN  <<mpd, [mpd EXCEPT !.end = 7, !.set.endNumber = 3, !.seed = 2]>>

(* One file per Representation, its index inside: the declared range ends    *)
(* within the sidx, or is exact; the file of "torn" ends there too.          *)
BaseOf(range, exact) == [WholeFile EXCEPT !.indexRange = range, !.exact = exact, !.timescale = 1]
InnerIndex == <<MpdOf([SetOf(<<Dir("hd"), Dir("sd"), Dir("torn")>>) EXCEPT !.base = BaseOf(<<2, 4>>, NoVal)])>>
ExactIndex ==
    <<MpdOf([SetOf(<<Dir("hd"), Dir("sd")>>) EXCEPT !.base = BaseOf(<<4, 9>>, TRUE),
                                                    !.resync = <<[type |-> 1, d |-> 3]>>])>>

(* A document with indexes nested in its index; a document per segment.      *)
SidecarOf(index, number) ==
    [MpdOf([SetOf(<<RepOf("hd"), RepOf("sd")>>) EXCEPT !.template =
                [Template EXCEPT !.media = [name |-> "m", idents |-> {"rep"}], !.index = index, !.number = number,
                                 !.indexRange = <<0, 3>>, !.duration = 2],
                !.resync = <<[type |-> 0, d |-> 1]>>])
        EXCEPT !.end = 6]
Sidecar == <<SidecarOf([name |-> "all", idents |-> {"rep"}], 7)>>
IndexPerSegment == <<SidecarOf([name |-> "one", idents |-> {"rep", "number"}], NoVal)>>

(* A list for all Representations, and one for each.                         *)
Names(media) == [i \in DOMAIN media |-> [media |-> media[i], range |-> NoVal]]
SharedList ==
    <<MpdOf([SetOf(<<Dir("hd"), Dir("sd")>>) EXCEPT
                !.list = [List EXCEPT !.duration = 2, !.urls = Names(<<"s1", "s2", "s3">>)]])>>
OwnLists ==
    LET own(id, media) == [RepOf(id) EXCEPT !.list = [List EXCEPT !.duration = 2, !.urls = Names(media)]]
    IN  <<MpdOf(SetOf(<<own("hd", <<"hd1", "hd2", "hd3">>), own("sd", <<"sd1", "sd2", "sd3">>)>>))>>

(* A file that is one segment; a level with two modes.                       *)
OneFile == <<[MpdOf(SetOf(<<Dir("hd")>>)) EXCEPT !.end = 4]>>
TwoModes == <<MpdOf([SetOf(<<Dir("hd")>>) EXCEPT !.list = List, !.base = WholeFile])>>

(* Sequences of two, with random access points inside segments.              *)
Split ==
    <<MpdOf([SetOf(<<RepOf("hd")>>) EXCEPT
                !.template = [Template EXCEPT !.media = [name |-> "k", idents |-> {"time", "sub"}],
                                              !.timeline = <<[S(0, 4, 1) EXCEPT !.k = 2]>>],
                !.resync = <<[type |-> 2, d |-> 1]>>])>>
SplitSites == <<Split>>

AllSites == << Numbers, Sliding, Repeating, OnDemand, InnerIndex, ExactIndex, Sidecar, IndexPerSegment,
               SharedList, OwnLists, OneFile, TwoModes >>

-----------------------------------------------------------------------------
(* What the servers hold.                                                    *)

Piece(start, dur) == [start |-> start, dur |-> dur]
Every(dur, count) == {Piece(i * dur, dur) : i \in 0 .. count - 1}

InFile == {Piece(0, 2), Piece(2, 3), Piece(5, 1)}
Descriptions ==
    << <<Every(2, 9), Every(2, 3) \cup {Piece(6, 1)}>>,
       <<{Piece(0, 2)}, Every(2, 2) \cup {Piece(4, 1), Piece(5, 1)},
         {Piece(2, 2), Piece(4, 1), Piece(5, 1), Piece(6, 2), Piece(8, 2)}>>,
       <<Every(2, 3), Every(2, 3) \cup {Piece(6, 3), Piece(9, 3), Piece(12, 3)},
         Every(2, 3) \cup {Piece(6, 3), Piece(9, 3)}>>,
       <<Every(2, 2) \cup {Piece(4, 1)}, Every(2, 3)>>,
       <<InFile>>, <<InFile>>, <<Every(2, 3)>>, <<Every(2, 3)>>, <<Every(2, 3)>>, <<Every(2, 3)>>,
       <<{Piece(0, 4)}>>, <<{}>> >>
PublishedAt(i, v) == Descriptions[i][v]

Box(type, size, first, ept, refs) == [type |-> type, size |-> size, first |-> first, ept |-> ept, refs |-> refs]
Ref(size, dur) == [nested |-> FALSE, size |-> size, dur |-> dur]
Nested(size, dur) == [nested |-> TRUE, size |-> size, dur |-> dur]

\* The media of a file: three segments, four bytes after the index.
References(rep) == IF rep = "sd" THEN <<Ref(3, 2), Ref(6, 3), Ref(2, 1)>> ELSE <<Ref(10, 2), Ref(20, 3), Ref(5, 1)>>
Laid(rep) == IF rep = "sd" THEN 14 :> 0 @@ 17 :> 2 @@ 23 :> 5 ELSE 14 :> 0 @@ 24 :> 2 @@ 44 :> 5

FileOf(i, rep, path) ==
    CASE i = 5 -> [ base |-> 2, size |-> IF rep = "torn" THEN 8 ELSE 60, timescale |-> 1,
                    doc |-> 0 :> Box("free", 2, 0, 0, <<>>) @@ 2 :> Box("sidx", 6, 4, 0, References(rep)) ]
      [] i = 6 -> [ base |-> 4, size |-> 60, timescale |-> 1, doc |-> 0 :> Box("sidx", 6, 4, 0, References(rep)) ]
      [] i = 7 -> [ base |-> 0, size |-> 30, timescale |-> 1,
                    doc |-> 0 :> Box("sidx", 4, 10, 0, <<Ref(10, 2), Nested(6, 4)>>) @@
                            4 :> Box("sidx", 6, 20, 2, <<Ref(10, 2), Ref(20, 2)>>) ]
      [] OTHER -> [ base |-> 0, size |-> 4, timescale |-> 1,
                    doc |-> 0 :> Box("sidx", 4, path.vars.number * 100, 0, <<Ref(4, 1), Ref(6, 1)>>) ]

At(places, key) == IF key \in DOMAIN places THEN places[key] ELSE NoVal

Held(i, base, target) ==
    LET values == target.path.vars
        name == target.path.name
        dir  == base[Len(base)]
    IN  CASE i = 1 -> <<values.rep, (values.number - 5) * 2>>
          [] i = 2 -> <<values.rep, (values.time - 4) \div 2 + values.sub - 1>>
          [] i = 3 -> <<"hd", IF values.number <= 4 THEN (values.number - 1) * 2 ELSE 6 + (values.number - 4) * 3>>
          [] i = 4 -> <<dir, (values.number - 1) * 2>>
          [] i \in {5, 6} -> <<dir, At(Laid(dir), target.range[1])>>
          [] i = 7 -> <<values.rep, At(10 :> 0 @@ 20 :> 2 @@ 30 :> 4, target.range[1])>>
          [] i = 8 -> <<values.rep, At(100 :> 0 @@ 200 :> 2 @@ 300 :> 4, target.range[1])>>
          [] i = 9 -> <<dir, At("s1" :> 0 @@ "s2" :> 2 @@ "s3" :> 4, name)>>
          [] i = 10 -> At("hd1" :> <<"hd", 0>> @@ "hd2" :> <<"hd", 2>> @@ "hd3" :> <<"hd", 4>> @@
                          "sd1" :> <<"sd", 0>> @@ "sd2" :> <<"sd", 2>> @@ "sd3" :> <<"sd", 4>>, name)
          [] i = 11 -> <<dir, 0>>

SomeSteerings == {<<>>, <<"C", "B">>}
SomeSeeks == {1, 3, 4}
=============================================================================
