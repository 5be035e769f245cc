-------------------------- MODULE MCPlaybackSession --------------------------
(* Instances of PlaybackSession for TLC. *)
EXTENDS PlaybackSession

\* Two media segments that follow each other.
SmallSpans == {<<0, 2>>, <<2, 3>>}

\* Segments behind, at and past the live edge.
LiveSpans == {<<0, 1>>, <<1, 2>>, <<3, 4>>}

\* The pause policies that differ in what pause() does.
AllPolicies ==
    { [scheduleWhilePaused |-> TRUE, cancelInflight |-> FALSE],
      [scheduleWhilePaused |-> FALSE, cancelInflight |-> TRUE] }
=============================================================================
