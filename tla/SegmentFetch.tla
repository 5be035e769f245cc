---------------------------- MODULE SegmentFetch ----------------------------
(***************************************************************************)
(* How the media of one track is fetched: every request with its retries   *)
(* (http/retry.rs), the failover from base URL to base URL past the        *)
(* blacklist (segment_fetcher.rs, segment_blacklist.rs, and                *)
(* mp4/partial_segment.rs for chunked segments), and the fallback from     *)
(* quality to quality around the Init and index a Representation needs     *)
(* (schedule/segment_fetch.rs), for the batches of the fragment loop.  The *)
(* media requests of a batch run in parallel; everything else is           *)
(* sequential.  AdaptationStream takes the outcome of all this as one      *)
(* nondeterministic step.                                                  *)
(***************************************************************************)
EXTENDS Integers, Sequences

CONSTANTS
    MaxAttempts,    \* HttpRetryPolicy.max_attempts
    Factor,         \* low_latency_multiply_factor
    MaxParallel,    \* MAX_PARALLEL_SEGMENT_FETCHES
    Presentations,  \* what the manifest may describe
    MaxCancels,     \* bound: fetch cancel generations
    MaxRuns         \* bound: runs of the stream

\* top: the highest quality of the ladder; bases: base URLs of a Representation;
\* last: its segments; singleFile: its Init, index and media are ranges of one file; indexed: an index says where
\* the segments are; chunked: they are fetched in CMAF chunks, and then
\* without an index.
ASSUME FetchAssumption ==
    /\ MaxAttempts \in Nat \ {0} /\ Factor \in Nat \ {0} /\ MaxParallel \in Nat \ {0}
    /\ MaxCancels \in Nat /\ MaxRuns \in Nat
    /\ Presentations \subseteq
           [ top : Nat, bases : Nat \ {0}, last : Nat \ {0},
             singleFile : BOOLEAN, indexed : BOOLEAN, chunked : BOOLEAN ]
    /\ \A m \in Presentations : m.chunked => ~m.indexed

VARIABLES
    mpd,        \* the presentation
    cancel,     \* fetch cancel generation of the playback controller
    blacklist,  \* URLs: shared by all that fetches, for the whole session
    session,    \* have_init, the runs so far and what the consumer received
    stream,     \* the stream: where it is, its batch, its Init bookkeeping
    fetch,      \* the requests under way, by slot: slot 1 unless parallel
    spent       \* URLs that failed the current batch for good

vars == <<mpd, cancel, blacklist, session, stream, fetch, spent>>

Qualities == 0 .. mpd.top

Slots == 1 .. MaxParallel

\* SegmentBase puts the Init, the index and all media in one file.
Resource(what, seg, q) ==
    IF mpd.singleFile THEN <<"file", 0, q>>
    ELSE <<what, IF what = "media" THEN seg ELSE 0, q>>

Resources ==
    {<<"file", 0, q>> : q \in Qualities}
    \cup {<<what, 0, q>> : what \in {"init", "index"}, q \in Qualities}
    \cup {<<"media", seg, q>> : seg \in 1 .. mpd.last, q \in Qualities}

Urls == Resources \X (1 .. mpd.bases)

UrlsOf(r) == {r} \X (1 .. mpd.bases)

Off == [at |-> "off", what |-> "media", seg |-> 0, quality |-> 0, base |-> 1,
        attempt |-> 0, guard |-> 0]

Request(what, item) ==
    [Off EXCEPT !.at = "base", !.what = what, !.seg = item.seg,
                !.quality = item.quality, !.guard = cancel]

ResourceOf(f) == Resource(fetch[f].what, fetch[f].seg, fetch[f].quality)

Url(f) == <<ResourceOf(f), fetch[f].base>>

Item == stream.batch[stream.item]

Fresh(to) ==
    [ at |-> to, task |-> "first", next |-> 1, batch |-> <<>>, item |-> 1,
      inits |-> {}, indexes |-> {}, signaled |-> {}, suppress |-> FALSE,
      started |-> FALSE ]

Init ==
    /\ mpd \in Presentations
    /\ cancel = 0
    /\ blacklist = {}
    /\ session = [haveInit |-> FALSE, runs |-> 0, seen |-> {}, withheld |-> {}]
    /\ stream = Fresh("start")
    /\ fetch = [f \in Slots |-> Off]
    /\ spent = {}

-----------------------------------------------------------------------------
(* One fetch: fetch_bytes_with_base_failover and with_retry.               *)

\* pause() cancelled requests since the guard was taken; the index is
\* fetched without one.
Cancelled(f) == fetch[f].what # "index" /\ fetch[f].guard # cancel

Limit(f) ==
    IF mpd.chunked /\ fetch[f].what = "media" THEN MaxAttempts * Factor ELSE MaxAttempts

Goes(f, where) == fetch' = [fetch EXCEPT ![f].at = where]

End(f, how) == fetch' = [fetch EXCEPT ![f] = [Off EXCEPT !.at = how]]

Ask(f) == fetch' = [fetch EXCEPT ![f].at = "inflight", ![f].attempt = @ + 1]

\* A slip: the first base that fails ends the fetch.
Failover_GivesUp(f) == End(f, "failed")

Failover(f) == fetch' = [fetch EXCEPT ![f].at = "base", ![f].base = @ + 1, ![f].attempt = 0]

\* A slip: the blacklist is not consulted.
NextBase_Unlisted(f) ==
    /\ fetch[f].at = "base"
    /\ IF fetch[f].base > mpd.bases THEN End(f, "failed")
       ELSE IF Cancelled(f) THEN End(f, "cancelled") ELSE Ask(f)
    /\ UNCHANGED <<mpd, cancel, blacklist, session, stream, spent>>

\* The next base URL is tried, unless it is blacklisted.
NextBase(f) ==
    /\ fetch[f].at = "base"
    /\ IF fetch[f].base > mpd.bases THEN End(f, "failed")
       ELSE IF Cancelled(f) THEN End(f, "cancelled")
       ELSE IF Url(f) \in blacklist THEN Failover(f)
       ELSE Ask(f)
    /\ UNCHANGED <<mpd, cancel, blacklist, session, stream, spent>>

Responds(f) ==
    /\ fetch[f].at = "inflight"
    /\ IF mpd.chunked /\ fetch[f].what = "media" THEN Goes(f, "body") ELSE End(f, "ok")
    /\ UNCHANGED <<mpd, cancel, blacklist, session, stream, spent>>

\* The select takes a response before a cancellation, an error after it.
Aborts(f) ==
    /\ fetch[f].at \in {"inflight", "sleep"}
    /\ Cancelled(f)
    /\ End(f, "cancelled")
    /\ UNCHANGED <<mpd, cancel, blacklist, session, stream, spent>>

\* An error that is worth another attempt: a transient status or no response.
Transient(f) ==
    /\ fetch[f].at = "inflight"
    /\ ~Cancelled(f)
    /\ fetch[f].attempt < Limit(f)
    /\ Goes(f, "sleep")
    /\ UNCHANGED <<mpd, cancel, blacklist, session, stream, spent>>

\* The last attempt gets no response: only a status blacklists a URL.
Unanswered(f) ==
    /\ fetch[f].at = "inflight"
    /\ ~Cancelled(f)
    /\ fetch[f].attempt = Limit(f)
    /\ Failover(f)
    /\ spent' = spent \cup {Url(f)}
    /\ UNCHANGED <<mpd, cancel, blacklist, session, stream>>

\* A slip: every failing status blacklists, a transient one too.
Refused_TooSoon(f) ==
    /\ fetch[f].at = "inflight"
    /\ ~Cancelled(f)
    /\ \E permanent \in BOOLEAN :
           spent' = IF permanent \/ fetch[f].attempt = Limit(f)
                    THEN spent \cup {Url(f)} ELSE spent
    /\ blacklist' = blacklist \cup {Url(f)}
    /\ Failover(f)
    /\ UNCHANGED <<mpd, cancel, session, stream>>

\* A permanent status, or a transient one at the last attempt.
Refused(f) ==
    /\ fetch[f].at = "inflight"
    /\ ~Cancelled(f)
    /\ \E permanent \in BOOLEAN : permanent \/ fetch[f].attempt = Limit(f)
    /\ spent' = spent \cup {Url(f)}
    /\ blacklist' = blacklist \cup {Url(f)}
    /\ Failover(f)
    /\ UNCHANGED <<mpd, cancel, session, stream>>

\* A slip: a cancelled fetch wakes up and goes on.
Retry_Uncancelled(f) ==
    /\ fetch[f].at = "sleep"
    /\ Ask(f)
    /\ UNCHANGED <<mpd, cancel, blacklist, session, stream, spent>>

\* A slip: the attempts are not counted.
Retry_Uncounted(f) ==
    /\ fetch[f].at = "sleep"
    /\ ~Cancelled(f)
    /\ fetch' = [fetch EXCEPT ![f].at = "inflight"]
    /\ UNCHANGED <<mpd, cancel, blacklist, session, stream, spent>>

\* The interval is over.
Retry(f) ==
    /\ fetch[f].at = "sleep"
    /\ ~Cancelled(f)
    /\ Ask(f)
    /\ UNCHANGED <<mpd, cancel, blacklist, session, stream, spent>>

\* The body of a chunked segment: read to its end, without a fragment in it,
\* or broken off.  Neither a retry nor a cancellation reaches it.
ReadBody(f) ==
    /\ fetch[f].at = "body"
    /\ \/ End(f, "ok") /\ UNCHANGED spent
       \/ End(f, "failed") /\ spent' = spent \cup UrlsOf(ResourceOf(f))
       \/ Failover(f) /\ spent' = spent \cup {Url(f)}
    /\ UNCHANGED <<mpd, cancel, blacklist, session, stream>>

FetchStep ==
    \E f \in Slots :
        \/ NextBase(f) \/ Responds(f) \/ Aborts(f) \/ Transient(f) \/ Unanswered(f)
        \/ Refused(f) \/ Retry(f) \/ ReadBody(f)

-----------------------------------------------------------------------------
(* The stream around it.                                                   *)

Goto(at) == stream' = [stream EXCEPT !.at = at]

Begin(what, at) ==
    /\ Goto(at)
    /\ fetch' = [fetch EXCEPT ![1] = Request(what, Item)]
    /\ UNCHANGED <<mpd, cancel, blacklist, session, spent>>

\* A step that sends nothing.
Quiet == UNCHANGED <<mpd, cancel, blacklist, fetch>>

\* A slip: the ladder has no end.
Lower_PastLowest(s, task) ==
    /\ stream' = [s EXCEPT !.at = "item", !.task = task, !.batch[s.item].quality = @ - 1]
    /\ UNCHANGED session

\* The next lower quality, or an error that ends the session; a stream that
\* fails to get its first Init releases it.
Lower(s, task) ==
    IF Item.quality > 0
    THEN /\ stream' = [s EXCEPT !.at = "item", !.task = task, !.batch[s.item].quality = @ - 1]
         /\ UNCHANGED session
    ELSE /\ stream' = [s EXCEPT !.at = "over"]
         /\ session' = [session EXCEPT !.haveInit = @ /\ s.task # "first"]

\* pause() under stop_and_cancel_inflight.
CancelFetches ==
    /\ cancel < MaxCancels
    /\ cancel' = cancel + 1
    /\ UNCHANGED <<mpd, blacklist, session, stream, fetch, spent>>

StartRun ==
    /\ stream.at = "start"
    /\ session' = [session EXCEPT !.haveInit = TRUE, !.runs = @ + 1]
    /\ IF session.haveInit
       THEN stream' = [Fresh("plan") EXCEPT !.next = stream.next, !.suppress = TRUE]
       ELSE \E q \in Qualities :
                stream' = [Fresh("item") EXCEPT !.next = stream.next,
                                                !.batch = <<[seg |-> 0, quality |-> q]>>]
    /\ Quiet /\ UNCHANGED spent

\* The stream returns: a refresh starts it again, a seek resets its session.
LeaveRun ==
    /\ stream.at \in {"plan", "use"}
    /\ session.runs <= MaxRuns
    /\ \/ stream' = [Fresh("start") EXCEPT !.next = stream.next] /\ UNCHANGED session
       \/ stream' = Fresh("start") /\ session' = [session EXCEPT !.haveInit = FALSE]
    /\ Quiet /\ UNCHANGED spent

MaxBatch == IF stream.started /\ ~mpd.chunked THEN MaxParallel ELSE 1

PlanBatch ==
    /\ stream.at = "plan"
    /\ \E n \in 1 .. MaxBatch :
           /\ stream.next + n - 1 <= mpd.last
           /\ \E qs \in [1 .. n -> Qualities] :
                  stream' = [stream EXCEPT
                      !.at = "item", !.item = 1,
                      !.task = IF mpd.chunked THEN "chunks" ELSE "prepare",
                      !.batch = [k \in 1 .. n |-> [seg |-> stream.next + k - 1,
                                                   quality |-> qs[k]]]]
    /\ fetch' = [f \in Slots |-> Off]
    /\ spent' = {}
    /\ UNCHANGED <<mpd, cancel, blacklist, session>>

\* take_emit: the event goes out at the first use of a Representation in a
\* run, but for the very first one of a continued session.
TakesEmit == Item.quality \notin stream.signaled

Signalled(s) ==
    [s EXCEPT !.inits = @ \cup {Item.quality}, !.signaled = @ \cup {Item.quality},
              !.suppress = @ /\ ~TakesEmit]

SignalInit ==
    /\ stream' = [Signalled(stream) EXCEPT !.at = "inited"]
    /\ session' = IF ~TakesEmit THEN session
                  ELSE IF stream.suppress
                  THEN [session EXCEPT !.withheld = @ \cup {Item.quality}]
                  ELSE [session EXCEPT !.seen = @ \cup {Item.quality}]

\* A slip: a fallback takes the Init for granted.
EnsureInit_NotInFallback ==
    /\ stream.at = "item"
    /\ IF stream.task = "fallback" THEN Goto("inited") /\ UNCHANGED session /\ Quiet /\ UNCHANGED spent
       ELSE IF Item.quality \notin stream.inits THEN Begin("init", "init")
       ELSE SignalInit /\ Quiet /\ UNCHANGED spent

EnsureInit ==
    /\ stream.at = "item"
    /\ IF Item.quality \notin stream.inits THEN Begin("init", "init")
       ELSE SignalInit /\ Quiet /\ UNCHANGED spent

InitResource == Resource("init", 0, Item.quality)

\* The cached Init cannot be decrypted for the consumer: its event is spent.
CachedInitFails ==
    /\ stream.at = "item"
    /\ Item.quality \in stream.inits
    /\ TakesEmit /\ ~stream.suppress
    /\ LET s == Signalled(stream) IN
       IF Item.quality > 0
       THEN /\ stream' = [s EXCEPT !.at = "item", !.batch[s.item].quality = @ - 1]
            /\ session' = [session EXCEPT !.withheld = @ \cup {Item.quality}]
       ELSE /\ stream' = [s EXCEPT !.at = "over"]
            /\ session' = [session EXCEPT !.withheld = @ \cup {Item.quality},
                                          !.haveInit = @ /\ s.task # "first"]
    /\ spent' = spent \cup UrlsOf(InitResource)
    /\ Quiet

InitArrives ==
    /\ stream.at = "init"
    /\ fetch[1].at = "ok"
    /\ SignalInit
    /\ Quiet /\ UNCHANGED spent

\* The Init is cached, but the DRM session of its keys cannot be had.
InitUnusable ==
    /\ stream.at = "init"
    /\ fetch[1].at = "ok"
    /\ Lower([stream EXCEPT !.inits = @ \cup {Item.quality}], stream.task)
    /\ spent' = spent \cup UrlsOf(InitResource)
    /\ Quiet

\* A slip: without an Init of the highest quality the lowest is tried next.
InitLost_ToLowest ==
    /\ stream.at = "init"
    /\ fetch[1].at \in {"failed", "cancelled"}
    /\ IF Item.quality > 0
       THEN /\ stream' = [stream EXCEPT !.at = "item", !.batch[stream.item].quality = 0]
            /\ UNCHANGED session
       ELSE Lower(stream, stream.task)
    /\ Quiet /\ UNCHANGED spent

\* A cancelled Init request is a failed one.
InitLost ==
    /\ stream.at = "init"
    /\ fetch[1].at \in {"failed", "cancelled"}
    /\ Lower(stream, stream.task)
    /\ Quiet /\ UNCHANGED spent

EnsureIndex ==
    /\ stream.at = "inited"
    /\ IF mpd.indexed /\ stream.task # "first" /\ Item.quality \notin stream.indexes
       THEN Begin("index", "index")
       ELSE Goto("ready") /\ Quiet /\ UNCHANGED <<session, spent>>

IndexArrives ==
    /\ stream.at = "index"
    /\ fetch[1].at = "ok"
    /\ stream' = [stream EXCEPT !.at = "ready", !.indexes = @ \cup {Item.quality}]
    /\ Quiet /\ UNCHANGED <<session, spent>>

\* The index goes on past its range: the rest is fetched, from the first base
\* on.  Bound: one such continuation.
IndexContinues ==
    /\ stream.at = "index"
    /\ fetch[1].at = "ok"
    /\ Begin("index", "extended")

IndexLost ==
    /\ stream.at \in {"index", "extended"}
    /\ \/ fetch[1].at = "failed" /\ UNCHANGED spent
       \/ fetch[1].at = "ok" /\ spent' = spent \cup UrlsOf(Resource("index", 0, Item.quality))
    /\ Lower(stream, stream.task)
    /\ Quiet

IndexCompleted ==
    /\ stream.at = "extended"
    /\ fetch[1].at = "ok"
    /\ stream' = [stream EXCEPT !.at = "ready", !.indexes = @ \cup {Item.quality}]
    /\ Quiet /\ UNCHANGED <<session, spent>>

\* The batch is done with, and the stream plans another.
Replan == [stream EXCEPT !.at = "plan", !.task = "prepare", !.batch = <<>>, !.item = 1]

\* Prepared: the next item, all downloads of the batch, or this one.
Proceed ==
    /\ stream.at = "ready"
    /\ \/ stream.task = "first" /\ stream' = Replan /\ UNCHANGED fetch
       \/ /\ stream.task = "prepare" /\ stream.item < Len(stream.batch)
          /\ stream' = [stream EXCEPT !.at = "item", !.item = @ + 1]
          /\ UNCHANGED fetch
       \/ /\ stream.task = "prepare" /\ stream.item = Len(stream.batch)
          /\ Goto("download")
          /\ fetch' = [f \in Slots |-> IF f \in DOMAIN stream.batch
                                       THEN Request("media", stream.batch[f]) ELSE Off]
       \/ /\ stream.task \in {"fallback", "chunks"}
          /\ Goto("media")
          /\ fetch' = [fetch EXCEPT ![1] = Request("media", Item)]
    /\ UNCHANGED <<mpd, cancel, blacklist, session, spent>>

Ended(f) == fetch[f].at \in {"ok", "failed", "cancelled"}

\* join_all
Downloaded ==
    /\ stream.at = "download"
    /\ \A f \in DOMAIN stream.batch : Ended(f)
    /\ stream' = [stream EXCEPT !.at = "use", !.item = 1]
    /\ Quiet /\ UNCHANGED <<session, spent>>

\* The item is decrypted and emitted; the next of the batch, or a new plan.
Deliver ==
    LET s == IF stream.item < Len(stream.batch)
             THEN [stream EXCEPT !.at = "use", !.item = @ + 1] ELSE Replan
    IN  stream' = [s EXCEPT !.next = Item.seg + 1, !.started = TRUE]

\* What became of an item: of the batch's download, or of its own.
UseResult ==
    /\ \/ stream.at = "use"
       \/ stream.at = "media" /\ Ended(1)
    /\ LET f == IF stream.at = "use" THEN stream.item ELSE 1 IN
       \/ fetch[f].at = "ok" /\ Deliver /\ UNCHANGED session
       \/ fetch[f].at = "cancelled" /\ stream' = Replan /\ UNCHANGED session
       \/ /\ fetch[f].at = "failed"
          /\ Lower(stream, IF mpd.chunked THEN "chunks" ELSE "fallback")
    /\ Quiet /\ UNCHANGED spent

StreamStep ==
    \/ StartRun \/ PlanBatch \/ EnsureInit \/ CachedInitFails \/ InitArrives \/ InitUnusable
    \/ InitLost \/ EnsureIndex \/ IndexArrives \/ IndexContinues \/ IndexLost
    \/ IndexCompleted \/ Proceed \/ Downloaded \/ UseResult

Next == CancelFetches \/ LeaveRun \/ FetchStep \/ StreamStep

\* Requests end, timers fire and the task is polled.
Fairness == WF_vars(FetchStep \/ StreamStep)

Spec == Init /\ [][Next]_vars

FairSpec == Spec /\ Fairness

-----------------------------------------------------------------------------
Places == {"start", "plan", "item", "init", "inited", "index", "extended", "ready",
           "download", "media", "use", "over"}

TypeOK ==
    /\ mpd \in Presentations /\ cancel \in Nat
    /\ blacklist \subseteq Urls /\ spent \subseteq Urls
    /\ session.haveInit \in BOOLEAN
    /\ stream.at \in Places
    /\ stream.next \in 1 .. mpd.last + 1
    /\ UNION {stream.inits, stream.indexes, stream.signaled} \subseteq Qualities
    /\ stream.at \notin {"start", "plan", "over"} => stream.item \in DOMAIN stream.batch
    /\ \A k \in DOMAIN stream.batch : stream.batch[k].quality \in Qualities
    /\ \A f \in Slots : fetch[f].base \in 1 .. mpd.bases + 1 /\ fetch[f].attempt \in 0 .. Limit(f)

\* Nothing more is to be had from any base.
Exhausted(what, seg, q) ==
    UrlsOf(Resource(what, seg, q)) \subseteq blacklist' \cup spent'

\* What is fetched for the item at its quality.
Needed == IF stream.task = "first" THEN {"init"} ELSE {"init", "index", "media"}

\* An item loses the quality it is at.
Falls ==
    /\ stream.at \notin {"start", "plan", "over"}
    /\ \/ stream'.at = "over"
       \/ stream'.at = "item" /\ stream'.batch # stream.batch

(* "After attempts are exhausted, callers fall through to BaseURL failover *)
(* and representation fallback" (http/retry.rs): no quality is given up,   *)
(* and the session does not fail, before every base URL of something the   *)
(* quality needs has failed for good or used up its attempts.  But for an  *)
(* Init request that a pause cancelled, which counts as a failure.         *)
FallbackIsLastResort ==
    [][ Falls =>
          \/ \E what \in Needed : Exhausted(what, Item.seg, Item.quality)
          \/ stream.at = "init" /\ fetch[1].at = "cancelled" ]_vars

(* Rungs are not skipped on the way down.                                  *)
RungByRung ==
    [][ Falls /\ stream'.at = "item" =>
            stream'.batch[stream.item].quality = Item.quality - 1 ]_vars

(* Every rung is reached, and left only when it has nothing more to give.  *)
NothingGivenUpEarly == FallbackIsLastResort /\ RungByRung

(* A URL is lost to the session only once it has answered with a permanent *)
(* status, or has used up its attempts; the silence of a server, or a      *)
(* cancellation, never blacklists.                                         *)
BlacklistIsEarned ==
    [][ \A u \in blacklist' \ blacklist : u \in spent' ]_vars

(* No parallel download, retry, fallback, refresh or seek asks a           *)
(* blacklisted URL again, but for the retry of a download that was under   *)
(* way when another one of the same file blacklisted it.                   *)
BlacklistedIsLeftAlone ==
    [][ \A f \in Slots :
            /\ fetch[f].at # "sleep" /\ fetch[f].at # "inflight"
            /\ fetch'[f].at = "inflight"
            => Url(f) \notin blacklist ]_vars

(* The blacklist takes what has earned it, and keeps it.                   *)
BlacklistIsFair == BlacklistIsEarned /\ BlacklistedIsLeftAlone

(* Once a pause has cancelled it, a fetch sends no request: not another    *)
(* attempt, not to another base.                                           *)
CancelledIsQuiet ==
    [][ \A f \in Slots :
            /\ fetch[f].at \in {"base", "inflight", "sleep"} /\ Cancelled(f)
            => fetch'[f].at # "inflight" \/ fetch'[f] = fetch[f] ]_vars

\* Media of the item is handed over.
Delivers == stream'.next > stream.next

(* Whatever fallback led to it, media follows an Init of its quality,      *)
(* unless the event of that Init was withheld: by the soft start of a run, *)
(* or by an error on the way.                                              *)
InitUnlessWithheld ==
    [][ Delivers => Item.quality \in session.seen \cup session.withheld ]_vars

(* Every batch ends, whatever the servers answer.                          *)
BatchEnds == []<>(stream.at \in {"start", "plan", "over"})

(* "emit when ABR switches to a Representation whose Init the consumer has *)
(* not seen" (schedule/adaptation_stream.rs), "before media from that      *)
(* Representation" (schedule/segment_fetch.rs).                            *)
InitBeforeMedia ==
    [][ Delivers => Item.quality \in session.seen ]_vars
=============================================================================
