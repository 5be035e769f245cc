-------------------------- MODULE MCAdaptationStream --------------------------
(* Instances of AdaptationStream for TLC. *)
EXTENDS AdaptationStream

Policy(schedule, cancel) == [scheduleWhilePaused |-> schedule, cancelInflight |-> cancel]

\* PausePolicy::new
Scheduling == {Policy(TRUE, FALSE)}

\* PausePolicy::stop_and_cancel_inflight
Cancelling == {Policy(FALSE, TRUE)}

\* PausePolicy::stop_while_paused is the third.
AnyPolicy == Scheduling \cup {Policy(FALSE, FALSE)} \cup Cancelling

\* Whole segments, one quality, no pause, no failure.
Plain(last) ==
    [ last |-> last, chunks |-> 1, lowLatency |-> FALSE, top |-> 0, live |-> FALSE,
      openEnded |-> FALSE, delay |-> 0, sharedFile |-> FALSE, policies |-> Scheduling,
      seekTimes |-> {}, failures |-> FALSE, interrupts |-> 0, cancels |-> 0 ]

\* Static, with seeks.
Vod ==
    [Plain(4) EXCEPT !.top = 1, !.seekTimes = {0, 2}, !.failures = TRUE, !.interrupts = 2]

\* Static, paused under all three policies.
Paused ==
    [Plain(4) EXCEPT !.top = 1, !.policies = AnyPolicy, !.failures = TRUE, !.cancels = 2]

\* Live, refreshed while it is paused and sought in.
Edge ==
    [Plain(4) EXCEPT !.live = TRUE, !.delay = 1, !.policies = Cancelling, !.seekTimes = {0},
                     !.interrupts = 1, !.cancels = 1]

\* Low-latency: two chunks a segment, of a window that grows by itself.
Chunked ==
    [Edge EXCEPT !.last = 3, !.chunks = 2, !.lowLatency = TRUE, !.top = 1, !.openEnded = TRUE,
                 !.policies = AnyPolicy, !.failures = TRUE]

AllKinds == <<Vod, Paused, Edge, Chunked>>

OneFile == << [Plain(3) EXCEPT !.sharedFile = TRUE] >>

ShortChunked == << [Plain(2) EXCEPT !.chunks = 2, !.lowLatency = TRUE] >>

PausedOnly == << [Plain(3) EXCEPT !.policies = Cancelling, !.cancels = 2] >>

SoughtOnly == << [Plain(4) EXCEPT !.seekTimes = {0, 2}, !.interrupts = 2] >>
=============================================================================
