---------------------------- MODULE MCManifestSession ----------------------------
(* Instances of ManifestSession for TLC. *)
EXTENDS ManifestSession

P(id, segs) == [id |-> id, href |-> NoRef, onLoad |-> FALSE, segs |-> segs]
X(id, href, onLoad) == [id |-> id, href |-> href, onLoad |-> onLoad, segs |-> <<>>]

\* Two Periods, one behind another reference, an empty list, a circle.
Entities ==
    [ ad    |-> <<P("ad1", <<1>>), P("ad2", <<1>>)>>,
      pod   |-> <<X("pod", "ad", TRUE), P("tail", <<1>>)>>,
      loop  |-> <<P("lap", <<1>>), X("again", "loop", TRUE)>> ]

Doc(publish, patches, update, config, periods) ==
    [ id |-> "mpd", publish |-> publish, periods |-> periods, location |-> NoRef,
      patches |-> patches, update |-> update, steering |-> config ]

Op(do, by, key, at, content) ==
    [do |-> do, sel |-> [by |-> by, key |-> key], at |-> at, content |-> content]

Patch(original, publish, ops) ==
    [ id |-> "mpd", original |-> original, publish |-> publish,
      ops |-> <<Op("publish", "id", "", 0, publish)>> \o ops ]

Add(id, at, seg) == Op("addS", "id", id, at, <<seg>>)

\* A timeline that grows, a Period that is added, replaced and removed; the
\* first patch location runs out.
Patched ==
    LET where == <<[ref |-> NoRef, ttl |-> NoTime], [ref |-> "edge", ttl |-> 2], [ref |-> Here, ttl |-> NoTime]>>
    IN  [ versions |->
            << Doc(1, where, 1, <<>>, <<P("A", <<1, 2>>)>>),
               Doc(2, where, 1, <<>>, <<P("A", <<1, 2, 3>>)>>),
               Doc(3, where, 1, <<>>, <<P("A", <<1, 2, 3, 4>>), P("B", <<5>>)>>),
               Doc(4, where, 1, <<>>, <<P("B", <<5, 6>>), P("C", <<>>)>>) >>,
          patches |->
            { Patch(1, 2, <<Add("A", 2, 3)>>),
              Patch(2, 3, <<Add("A", 3, 4), Op("after", "id", "A", 0, <<P("B", <<5>>)>>)>>),
              Patch(1, 3, <<Add("A", 2, 3), Add("A", 3, 4),
                            Op("after", "index", 1, 0, <<P("B", <<5>>)>>)>>),
              Patch(3, 4, <<Op("remove", "index", 1, 0, <<>>), Add("B", 1, 6),
                            Op("before", "index", 0, 0, <<P("C", <<>>)>>),
                            Op("replace", "index", 1, 0, <<P("B", <<5, 6>>)>>),
                            Op("replace", "index", 2, 0, <<P("C", <<>>)>>)>>) } ]

\* Remote Periods: two in a row, one in another, one that is gone, a circle.
Remotes ==
    LET where == <<[ref |-> Here, ttl |-> NoTime]>>
    IN  [ versions |->
            << Doc(1, where, 1, <<>>, <<X("x", "pod", FALSE), X("y", "ad", TRUE), P("A", <<1>>)>>),
               Doc(2, where, 1, <<>>, <<X("x", "pod", FALSE), X("y", "ad", TRUE), P("A", <<1>>),
                                        X("z", ToZero, TRUE), X("c", "loop", TRUE)>>) >>,
          patches |->
            { Patch(1, 2, <<Op("after", "id", "A", 0, <<X("z", ToZero, TRUE),
                                                          X("c", "loop", TRUE)>>)>>) } ]

Server(name) == [server |-> name, default |-> "alpha"]

\* Steering that starts, moves to another server, and ends; the MPD moves too.
Steered ==
    [ versions |->
        << Doc(1, <<>>, 1, Server("s1"), <<P("A", <<1>>)>>),
           [Doc(2, <<>>, 3, Server("s1"), <<P("A", <<1>>)>>) EXCEPT !.location = "edge"],
           Doc(3, <<>>, 2, Server("s2"), <<P("A", <<1>>)>>),
           Doc(4, <<>>, 1, <<>>, <<P("A", <<1>>)>>) >>,
      patches |-> {} ]

AllHistories == <<Patched, Remotes, Steered>>

Dcsm(priority, ttl, reload) == [priority |-> priority, reload |-> reload, ttl |-> ttl]

SteeringServers ==
    [ s1 |-> {Dcsm(<<"beta", "alpha">>, 2, NoRef), Dcsm(<<>>, 3, "s1b")},
      s1b |-> {Dcsm(<<"alpha">>, 2, "s1b")},
      s2 |-> {Dcsm(<<"alpha", "beta">>, 1, NoRef)} ]
=============================================================================
