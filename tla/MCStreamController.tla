-------------------------- MODULE MCStreamController --------------------------
(* Instances of StreamController for TLC. *)
EXTENDS StreamController

\* The video set of a period, with its link to an earlier one.
Video(links) == [id |-> "v", reps |-> {"r"}, links |-> links]

Period(id, start, duration, count, links) ==
    [ id |-> id, start |-> start, duration |-> duration, asset |-> NoId,
      sets |-> <<Video(links)>>, count |-> count, events |-> {id} ]

Static(periods) ==
    [ dynamic |-> FALSE, updates |-> FALSE, duration |-> NoTime, depth |-> 0, delay |-> 0,
      published |-> 0, periods |-> periods ]

Live(duration, published, periods) ==
    [ dynamic |-> TRUE, updates |-> TRUE, duration |-> duration, depth |-> 10, delay |-> 1,
      published |-> published, periods |-> periods ]

\* Three periods: a hard boundary, then a soft one.
Mixed ==
    << Static(<< Period("A", 0, NoTime, 2, {}), Period("B", 2, 2, 2, {}),
                 Period("C", NoTime, 1, 1, {<<"connected", "B">>}) >>) >>

\* A continuous boundary with more than the sync depth ahead of it.
Continuous ==
    << Static(<< Period("A", NoTime, 3, 3, {}),
                 Period("B", NoTime, 2, 2, {<<"continuous", "A">>}) >>) >>

\* The second period is announced while the first one plays.
Announced ==
    << Live(NoTime, 0, << Period("A", 0, NoTime, 3, {}) >>),
       Live(4, 1, << Period("A", 0, 2, 2, {}), Period("B", 2, NoTime, 2, {}) >>) >>

\* A live presentation with a soft boundary.
Linked ==
    << Live(4, 0, << Period("A", 0, 2, 2, {}),
                     Period("B", 2, NoTime, 2, {<<"connected", "A">>}) >>) >>

Kinds == <<Mixed, Continuous, Announced, Linked>>

OnlyContinuous == <<Continuous>>

OnlyAnnounced == <<Announced>>

OnlyLinked == <<Linked>>

SameSet == [t \in Tracks |-> 1]
=============================================================================
