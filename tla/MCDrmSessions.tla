---------------------------- MODULE MCDrmSessions ----------------------------
(* Instances of DrmSessions for TLC. *)
EXTENDS DrmSessions

Level(pssh) == [pssh |-> pssh, urls |-> <<>>]
Signed(pssh, urls) == [pssh |-> pssh, urls |-> urls]
Bare == Level(<<>>)

Set(level, reps) == [level |-> level, reps |-> reps]
Rep(id, level) == [id |-> id, level |-> level]
Seg(rep, init, media, key) == [rep |-> rep, init |-> init, media |-> media, key |-> key]

TickOf(mpd, period, sets, media) ==
    [mpd |-> mpd, period |-> period, sets |-> sets, media |-> media]

\* Both sets under one PSSH of the period, a Representation with its own; the
\* key rotates in the media, then in the MPD.
Rotating ==
    LET sets == <<Set(Bare, <<Rep("hd", Level(<<"p2">>)), Rep("sd", Bare)>>), Set(Bare, <<>>)>>
    IN  << TickOf(Bare, Level(<<"p1">>), sets,
                  << <<Seg("sd", <<>>, <<>>, "k1"), Seg("hd", <<>>, <<"p3">>, "k3")>>,
                     <<Seg("a", <<>>, <<"p3">>, "k3")>> >>),
           TickOf(Level(<<"p1">>), Level(<<"p3">>), sets,
                  << <<Seg("hd", <<>>, <<>>, "k2")>>, <<Seg("a", <<>>, <<>>, "k1")>> >>) >>

\* A set that is clear, one that its Inits alone signal; then a period without
\* protection, and one the MPD has lost.
InInits ==
    << TickOf(Bare, Bare, <<Set(Bare, <<>>), Set(Bare, <<>>)>>,
              << <<Seg("v", <<"p1">>, <<>>, "k1")>>, <<>> >>),
       TickOf(Bare, Bare, <<Set(Bare, <<>>), Set(Bare, <<>>)>>,
              << <<Seg("v", <<"p1">>, <<"p2">>, "k2")>>, <<Seg("a", <<"p2">>, <<>>, "none")>> >>),
       TickOf(Bare, Bare, <<>>, <<>>) >>

\* One license over four ticks.
Long ==
    LET once == TickOf(Bare, Signed(<<"p1">>, <<"url">>), <<Set(Bare, <<Rep("v", Level(<<"p2">>))>>)>>,
                       << <<Seg("v", <<>>, <<>>, "k2")>>, <<>> >>)
    IN  <<once, once, once>>

\* A key that the other track's media alone signals: the retry may find it.
Shared ==
    << TickOf(Bare, Level(<<"p1">>), <<Set(Bare, <<>>), Set(Bare, <<>>)>>,
              << <<Seg("v", <<>>, <<>>, "k3")>>, <<Seg("a", <<>>, <<"p3">>, "k3")>> >>) >>

\* A set that the boxes of its first segment alone signal.
InFirstSegment ==
    << TickOf(Bare, Bare, <<Set(Bare, <<>>)>>, << <<Seg("v", <<>>, <<"p1">>, "k1")>>, <<>> >>),
       TickOf(Bare, Bare, <<Set(Bare, <<>>)>>, << <<Seg("v", <<>>, <<>>, "k1")>>, <<>> >>) >>

Signalled == <<Rotating, InInits, Long, Shared, InFirstSegment>>

Keys == [p1 |-> {"k1"}, p2 |-> {"k2"}, p3 |-> {"k3"}]

Policy(renews, delay, duration, control, retry) ==
    [renews |-> renews, delay |-> delay, duration |-> duration, control |-> control, retry |-> retry]

\* A license of four; a renewal after one, with a key control block.
SomePolicies == {Policy(TRUE, NoTime, 4, 0, 1), Policy(TRUE, 1, 0, 10, 1)}
=============================================================================
