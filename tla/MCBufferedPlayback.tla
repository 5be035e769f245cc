------------------------- MODULE MCBufferedPlayback -------------------------
(* Instances of BufferedPlayback for TLC. *)
EXTENDS BufferedPlayback, TLC

CONSTANTS audio, video

\* The pause policies between which the host may change.
Scheduling(b) == [scheduleWhilePaused |-> b, cancelInflight |-> FALSE]

Show(cuts, seeks, policies) == [cuts |-> cuts, seekTimes |-> seeks, policies |-> policies]

Both(a, v) == audio :> a @@ video :> v

\* Audio and video of one length, in segments of two and one.
OneLength == Both(<<0, 2, 4, 6>>, <<0, 1, 2, 3, 4, 5, 6>>)

\* Audio ends early, by less than a full buffer.
ShortAudio == Both(<<0, 1, 3>>, <<0, 1, 2, 3, 4>>)

\* Periods of one segment.
OneEach == [p \in 1..5 |-> Both(<<p - 1, p>>, <<p - 1, p>>)]

\* The second Period has no audio.
Silent == << Both(<<0, 1, 2>>, <<0, 1, 2>>), Both(<<2>>, <<2, 3, 4>>) >>

LevelShows ==
    { Show(<<OneLength>>, {4}, {Scheduling(TRUE)}),
      Show(<<ShortAudio>>, {2}, {Scheduling(FALSE), Scheduling(TRUE)}),
      Show(OneEach, {1}, {Scheduling(TRUE)}),
      Show(Silent, {3}, {Scheduling(TRUE)}) }

\* A track that ends long before the other.
UnevenShows == { Show(<<Both(<<0, 1>>, <<0, 1, 2, 3, 4, 5, 6>>)>>, {}, {Scheduling(TRUE)}) }
=============================================================================
