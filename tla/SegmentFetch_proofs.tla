------------------------- MODULE SegmentFetch_proofs -------------------------
(***************************************************************************)
(* Fetching with retries, failover and fallback, for every ladder, every   *)
(* kind of presentation, every number of attempts, bases and parallel      *)
(* downloads.  Two invariants are carried along: which items of the batch  *)
(* have their Init signalled already (FetchInv), so that media follows the *)
(* Init of its quality unless that was withheld; and what each slot is     *)
(* fetching, for which item, past which bases (TypedInv and ServedInv), so *)
(* that nothing is given up before it is lost on every base.               *)
(***************************************************************************)
EXTENDS SegmentFetch, SequenceTheorems, TLAPS

Items == [seg : Nat, quality : Nat]

Tasks == {"first", "prepare", "fallback", "chunks"}

Streams ==
    [ at : Places, task : Tasks, next : Nat \ {0}, batch : Seq(Items), item : Nat,
      inits : SUBSET Nat, indexes : SUBSET Nat, signaled : SUBSET Nat,
      suppress : BOOLEAN, started : BOOLEAN ]

Sessions ==
    [ haveInit : BOOLEAN, runs : Nat, seen : SUBSET Nat, withheld : SUBSET Nat ]

Working(s) == s.at \notin {"start", "plan", "over"}

\* The Init of item k of the batch has been through take_emit.
Has(s, k) == s.batch[k].quality \in s.signaled

Announced(s) ==
    /\ Working(s) => s.item \in 1 .. Len(s.batch)
    /\ s.at \in {"inited", "index", "extended", "ready", "media"} => Has(s, s.item)
    /\ s.at \in {"item", "init", "inited", "index", "extended", "ready"} /\ s.task = "prepare"
           => \A k \in 1 .. Len(s.batch) : k < s.item => Has(s, k)
    /\ Working(s) /\ s.task \in {"fallback", "chunks"}
           => \A k \in 1 .. Len(s.batch) : k > s.item => Has(s, k)
    /\ s.at = "download" => \A k \in 1 .. Len(s.batch) : Has(s, k)
    /\ s.at = "use" => \A k \in 1 .. Len(s.batch) : k >= s.item => Has(s, k)
    /\ s.at = "media" => s.task \in {"fallback", "chunks"}

Accounted(s, ses) == s.signaled \subseteq ses.seen \cup ses.withheld

\* The inductive invariant.
FetchInv ==
    /\ stream \in Streams
    /\ session \in Sessions
    /\ Announced(stream)
    /\ Accounted(stream, session)

-----------------------------------------------------------------------------
(* The operators on the stream.                                            *)

\* What is known of an item that is being prepared, or fetched again.
ItemAnnounced(s) ==
    /\ s.item \in 1 .. Len(s.batch)
    /\ s.task = "prepare" => \A k \in 1 .. Len(s.batch) : k < s.item => Has(s, k)
    /\ s.task \in {"fallback", "chunks"}
           => \A k \in 1 .. Len(s.batch) : k > s.item => Has(s, k)

(* A quality above the lowest has one below it.                            *)
LEMMA LowerItem ==
    ASSUME NEW q \in Items, q.quality > 0
    PROVE  [q EXCEPT !.quality = @ - 1] \in Items
BY DEF Items

LEMMA Names ==
    /\ Places = {"start", "plan", "item", "init", "inited", "index", "extended", "ready",
                 "download", "media", "use", "over"}
    /\ Tasks = {"first", "prepare", "fallback", "chunks"}
BY DEF Places, Tasks

LEMMA NoItems == <<>> \in Seq(Items) /\ Len(<<>>) = 0
OBVIOUS

LEMMA ItemAnnouncedSuffices ==
    ASSUME NEW s \in Streams, s.at = "item", ItemAnnounced(s)
    PROVE  Announced(s)
BY DEF Announced, ItemAnnounced, Working

LEMMA IdleSuffices ==
    ASSUME NEW s \in Streams, ~Working(s)
    PROVE  Announced(s)
BY DEF Announced, Working

(* Falling to the next lower quality keeps what is known of the others.    *)
LEMMA LoweredIsAnnounced ==
    ASSUME NEW s \in Streams, s.at = "item", ItemAnnounced(s),
           s.batch[s.item].quality > 0,
           NEW d, d = [s EXCEPT !.batch[s.item].quality = @ - 1]
    PROVE  d \in Streams /\ Announced(d) /\ d.signaled = s.signaled /\ d.next = s.next
<1> DEFINE e == [s.batch[s.item] EXCEPT !.quality = @ - 1]
           b == [s.batch EXCEPT ![s.item] = e]
<1>1. s.batch \in Seq(Items) /\ s.batch[s.item] \in Items
  BY ElementOfSeq DEF Streams, ItemAnnounced
<1>2. e \in Items
  BY <1>1, LowerItem
<1> HIDE DEF e
<1>3. /\ b \in Seq(Items) /\ Len(b) = Len(s.batch)
      /\ \A k \in 1 .. Len(b) : k # s.item => b[k] = s.batch[k]
  BY <1>1, <1>2, ExceptSeq DEF ItemAnnounced
<1>4. d = [s EXCEPT !.batch = b]
  BY DEF Streams, e
<1> HIDE DEF b
<1>5. d \in Streams
  BY <1>3, <1>4 DEF Streams
<1>6. /\ d.at = "item" /\ d.task = s.task /\ d.batch = b /\ d.item = s.item
      /\ d.signaled = s.signaled /\ d.next = s.next
  BY <1>4 DEF Streams
<1>7. \A k \in 1 .. Len(b) : k # s.item => (Has(d, k) <=> Has(s, k))
  BY <1>3, <1>6 DEF Has
<1>8. ASSUME NEW k \in 1 .. Len(b), k < s.item \/ k > s.item
      PROVE  Has(d, k) <=> Has(s, k)
  <2>1. k # s.item
    BY <1>8 DEF Streams
  <2> QED BY <1>7, <2>1
<1>9. ItemAnnounced(d)
  BY <1>3, <1>6, <1>8 DEF ItemAnnounced
<1> QED BY <1>5, <1>6, <1>9, ItemAnnouncedSuffices

LEMMA LowerKeepsInv ==
    ASSUME FetchInv, NEW s \in Streams,
           s.batch = stream.batch, s.item = stream.item, s.signaled = stream.signaled,
           s.next = stream.next, NEW task \in Tasks,
           NEW t \in Streams, t = [s EXCEPT !.at = "item", !.task = task],
           ItemAnnounced(t), Lower(s, task)
    PROVE  FetchInv' /\ stream'.next = stream.next
<1>0. Item = s.batch[s.item]
  BY DEF Item
<1>1. CASE Item.quality > 0
  <2>1. /\ stream' = [s EXCEPT !.at = "item", !.task = task, !.batch[s.item].quality = @ - 1]
        /\ session' = session
    BY <1>1 DEF Lower
  <2>2. /\ t.at = "item" /\ t.task = task /\ t.item = s.item /\ t.batch = s.batch
        /\ t.signaled = s.signaled /\ t.next = s.next
    BY DEF Streams
  <2>3. stream' = [t EXCEPT !.batch[t.item].quality = @ - 1]
    BY <2>1, <2>2 DEF Streams
  <2>4. /\ stream' \in Streams /\ Announced(stream')
        /\ stream'.signaled = t.signaled /\ stream'.next = t.next
    BY <1>0, <1>1, <2>2, <2>3, LoweredIsAnnounced
  <2> QED BY <2>1, <2>2, <2>4 DEF FetchInv, Accounted
<1>2. CASE ~(Item.quality > 0)
  <2>1. /\ stream' = [s EXCEPT !.at = "over"]
        /\ session' = [session EXCEPT !.haveInit = @ /\ s.task # "first"]
    BY <1>2 DEF Lower
  <2>2. "over" \in Places
    BY Names
  <2>3. stream' \in Streams
    BY <2>1, <2>2 DEF Streams
  <2>4. stream'.at = "over" /\ stream'.signaled = s.signaled /\ stream'.next = s.next
    BY <2>1 DEF Streams
  <2>5. session' \in Sessions /\ session'.seen = session.seen
        /\ session'.withheld = session.withheld
    BY <2>1 DEF FetchInv, Sessions
  <2>6. Announced(stream')
    BY <2>3, <2>4, IdleSuffices DEF Working
  <2> QED BY <2>3, <2>4, <2>5, <2>6 DEF FetchInv, Accounted
<1> QED BY <1>1, <1>2

LEMMA FreshIsAStream ==
    ASSUME NEW at \in Places, NEW n \in Nat \ {0}
    PROVE  /\ [Fresh(at) EXCEPT !.next = n] \in Streams
           /\ [Fresh(at) EXCEPT !.next = n].at = at
           /\ [Fresh(at) EXCEPT !.next = n].signaled = {}
<1>1. Fresh(at) \in Streams
  BY NoItems, Names DEF Streams, Fresh
<1>2. Fresh(at).at = at /\ Fresh(at).signaled = {}
  BY DEF Fresh
<1> QED BY <1>1, <1>2 DEF Streams

LEMMA InitInv == Init => FetchInv
<1> SUFFICES ASSUME Init PROVE FetchInv
  OBVIOUS
<1>1. stream \in Streams
  BY NoItems, Names DEF Init, Fresh, Streams
<1>2. stream.at = "start" /\ stream.signaled = {}
  BY DEF Init, Fresh
<1>3. session \in Sessions
  BY DEF Init, Sessions
<1> QED BY <1>1, <1>2, <1>3, IdleSuffices DEF FetchInv, Accounted, Working

LEMMA StartRunKeepsInv == FetchInv /\ StartRun => FetchInv' /\ stream'.next = stream.next
<1> SUFFICES ASSUME FetchInv, StartRun PROVE FetchInv' /\ stream'.next = stream.next
  OBVIOUS
<1>1. session' \in Sessions
  <2> DEFINE r == session.runs + 1
  <2>1. r \in Nat
    BY DEF FetchInv, Sessions
  <2>2. session' = [session EXCEPT !.haveInit = TRUE, !.runs = r]
    BY DEF StartRun
  <2> HIDE DEF r
  <2> QED BY <2>1, <2>2 DEF FetchInv, Sessions
<1>2. stream.next \in Nat \ {0}
  BY DEF FetchInv, Streams
<1>3. CASE session.haveInit
  <2> DEFINE d == [Fresh("plan") EXCEPT !.next = stream.next]
  <2>1. stream' = [Fresh("plan") EXCEPT !.next = stream.next, !.suppress = TRUE]
    BY <1>3 DEF StartRun
  <2>2. d \in Streams /\ d.at = "plan" /\ d.signaled = {} /\ d.next = stream.next
    BY <1>2, FreshIsAStream, Names DEF Fresh
  <2>3. stream' = [d EXCEPT !.suppress = TRUE]
    BY <2>1 DEF Fresh
  <2> HIDE DEF d
  <2>4. stream' \in Streams
    BY <2>2, <2>3 DEF Streams
  <2>5. stream'.at = "plan" /\ stream'.signaled = {} /\ stream'.next = stream.next
    BY <2>2, <2>3 DEF Streams
  <2> QED BY <1>1, <2>4, <2>5, IdleSuffices DEF FetchInv, Accounted, Working
<1>4. CASE ~session.haveInit
  <2>1. PICK q \in Qualities :
            stream' = [Fresh("item") EXCEPT !.next = stream.next,
                                            !.batch = <<[seg |-> 0, quality |-> q]>>]
    BY <1>4 DEF StartRun
  <2> DEFINE i == [seg |-> 0, quality |-> q]
             b == <<i>>
             d == [Fresh("item") EXCEPT !.next = stream.next]
  <2>2. i \in Items
    BY DEF Items, Qualities
  <2> HIDE DEF i
  <2>3. b \in Seq(Items) /\ Len(b) = 1
    BY <2>2
  <2>4. stream' = [d EXCEPT !.batch = b]
    BY <2>1 DEF Fresh, i
  <2>5. /\ d \in Streams /\ d.at = "item" /\ d.signaled = {} /\ d.next = stream.next
        /\ d.task = "first" /\ d.item = 1
    BY <1>2, FreshIsAStream, Names DEF Fresh
  <2> HIDE DEF b, d
  <2>6. stream' \in Streams
    BY <2>3, <2>4, <2>5 DEF Streams
  <2>7. /\ stream'.at = "item" /\ stream'.signaled = {} /\ stream'.next = stream.next
        /\ stream'.task = "first" /\ stream'.item = 1 /\ stream'.batch = b
    BY <2>4, <2>5 DEF Streams
  <2>8. ItemAnnounced(stream')
    <3>1. Len(stream'.batch) = 1
      BY <2>3, <2>7
    <3>2. stream'.item \in 1 .. Len(stream'.batch)
      BY <2>7, <3>1
    <3>3. stream'.task \notin {"prepare", "fallback", "chunks"}
      BY <2>7
    <3> QED BY <3>2, <3>3 DEF ItemAnnounced
  <2>9. Announced(stream')
    BY <2>6, <2>7, <2>8, ItemAnnouncedSuffices
  <2> QED BY <1>1, <2>6, <2>7, <2>9 DEF FetchInv, Accounted
<1> QED BY <1>3, <1>4

LEMMA LeaveRunKeepsInv == FetchInv /\ LeaveRun => FetchInv' /\ stream'.next \in {1, stream.next}
<1> SUFFICES ASSUME FetchInv, LeaveRun PROVE FetchInv' /\ stream'.next \in {1, stream.next}
  OBVIOUS
<1>1. session' \in Sessions
  BY DEF FetchInv, LeaveRun, Sessions
<1>2. stream.next \in Nat \ {0} /\ 1 \in Nat \ {0}
  BY DEF FetchInv, Streams
<1>3. Fresh("start") = [Fresh("start") EXCEPT !.next = 1]
  BY DEF Fresh
<1>4. PICK n \in {1, stream.next} : stream' = [Fresh("start") EXCEPT !.next = n]
  BY <1>3 DEF LeaveRun
<1>5. stream' \in Streams /\ stream'.at = "start" /\ stream'.signaled = {}
  BY <1>2, <1>4, FreshIsAStream, Names
<1>6. stream'.next = n
  BY <1>4 DEF Fresh
<1> QED BY <1>1, <1>5, <1>6, IdleSuffices DEF FetchInv, Accounted, Working

LEMMA PlanBatchKeepsInv == FetchInv /\ PlanBatch => FetchInv' /\ stream'.next = stream.next
<1> SUFFICES ASSUME FetchInv, PlanBatch PROVE FetchInv' /\ stream'.next = stream.next
  OBVIOUS
<1>0. MaxBatch \in Nat \ {0} /\ (mpd.chunked => MaxBatch = 1)
  BY FetchAssumption DEF MaxBatch
<1>a. PICK n \in 1 .. MaxBatch : \E qs \in [1 .. n -> Qualities] :
          stream' = [stream EXCEPT
              !.at = "item", !.item = 1,
              !.task = IF mpd.chunked THEN "chunks" ELSE "prepare",
              !.batch = [k \in 1 .. n |-> [seg |-> stream.next + k - 1, quality |-> qs[k]]]]
  BY DEF PlanBatch
<1>1. PICK qs \in [1 .. n -> Qualities] :
          stream' = [stream EXCEPT
              !.at = "item", !.item = 1,
              !.task = IF mpd.chunked THEN "chunks" ELSE "prepare",
              !.batch = [k \in 1 .. n |-> [seg |-> stream.next + k - 1, quality |-> qs[k]]]]
  BY <1>a
<1> DEFINE b == [k \in 1 .. n |-> [seg |-> stream.next + k - 1, quality |-> qs[k]]]
           t == IF mpd.chunked THEN "chunks" ELSE "prepare"
<1>2. n \in Nat \ {0} /\ stream.next \in Nat \ {0}
  BY <1>0 DEF FetchInv, Streams
<1>3. b \in Seq(Items) /\ Len(b) = n
  <2>1. \A k \in 1 .. n : [seg |-> stream.next + k - 1, quality |-> qs[k]] \in Items
    BY <1>2 DEF Items, Qualities
  <2> QED BY <1>2, <2>1
<1>4. stream' = [stream EXCEPT !.at = "item", !.item = 1, !.task = t, !.batch = b]
  BY <1>1
<1>5. t \in Tasks /\ t \in {"chunks", "prepare"} /\ (t = "chunks" => n = 1)
  BY <1>0, Names
<1>6. "item" \in Places
  BY Names
<1> HIDE DEF b, t
<1>7. stream' \in Streams
  BY <1>3, <1>4, <1>5, <1>6 DEF FetchInv, Streams
<1>8. /\ stream'.at = "item" /\ stream'.signaled = stream.signaled
      /\ stream'.next = stream.next /\ stream'.task = t /\ stream'.item = 1
      /\ stream'.batch = b
  BY <1>4 DEF FetchInv, Streams
<1>9. ItemAnnounced(stream')
  BY <1>2, <1>3, <1>5, <1>8 DEF ItemAnnounced
<1>10. session' = session
  BY DEF PlanBatch
<1> QED BY <1>7, <1>8, <1>9, <1>10, ItemAnnouncedSuffices DEF FetchInv, Accounted


(* take_emit accounts for the Init it signals.                             *)
LEMMA SignalledIsAStream ==
    ASSUME stream \in Streams, Item.quality \in Nat
    PROVE  /\ Signalled(stream) \in Streams
           /\ Signalled(stream).signaled = stream.signaled \cup {Item.quality}
           /\ Signalled(stream).batch = stream.batch
           /\ Signalled(stream).item = stream.item
           /\ Signalled(stream).task = stream.task
           /\ Signalled(stream).next = stream.next
<1> DEFINE q == Item.quality
           u == stream.suppress /\ ~TakesEmit
           i == stream.inits \cup {q}
           g == stream.signaled \cup {q}
<1>1. i \in SUBSET Nat /\ g \in SUBSET Nat
  BY DEF Streams
<1>2. u \in BOOLEAN
  OBVIOUS
<1>3. Signalled(stream) = [stream EXCEPT !.inits = i, !.signaled = g, !.suppress = u]
  BY DEF Signalled
<1> HIDE DEF i, g, u
<1>4. Signalled(stream) \in Streams
  BY <1>1, <1>2, <1>3 DEF Streams
<1>5. /\ Signalled(stream).signaled = g
      /\ Signalled(stream).batch = stream.batch
      /\ Signalled(stream).item = stream.item
      /\ Signalled(stream).task = stream.task
      /\ Signalled(stream).next = stream.next
  BY <1>3 DEF Streams
<1> QED BY <1>4, <1>5 DEF g

LEMMA ItemIsAnItem ==
    ASSUME stream \in Streams, stream.item \in 1 .. Len(stream.batch)
    PROVE  Item \in Items /\ Item.quality \in Nat
<1>1. stream.batch \in Seq(Items)
  BY DEF Streams
<1>2. Item \in Items
  BY <1>1, ElementOfSeq DEF Item
<1> QED BY <1>2 DEF Items

(* From one phase of an item to the next, once its Init is signalled.      *)
LEMMA MoveKeepsInv ==
    ASSUME FetchInv, session' \in Sessions, stream' \in Streams,
           stream'.batch = stream.batch, stream'.item = stream.item,
           stream'.task = stream.task, stream.signaled \subseteq stream'.signaled,
           Accounted(stream', session'),
           stream.at \in {"item", "init", "inited", "index", "extended"},
           stream'.at \in {"init", "inited", "index", "extended", "ready"},
           stream'.at # "init" => Has(stream', stream'.item)
    PROVE  FetchInv'
<1>1. \A k : Has(stream, k) => Has(stream', k)
  BY DEF Has
<1>2. Announced(stream')
  BY <1>1 DEF FetchInv, Announced, Working
<1> QED BY <1>2 DEF FetchInv

LEMMA SignalInitKeepsInv ==
    ASSUME FetchInv, stream.at \in {"item", "init"}, SignalInit
    PROVE  FetchInv' /\ stream'.next = stream.next
<1> DEFINE s == Signalled(stream)
<1>1. stream.item \in 1 .. Len(stream.batch)
  BY DEF FetchInv, Announced, Working
<1>2. Item.quality \in Nat
  BY <1>1, ItemIsAnItem DEF FetchInv
<1>3. /\ s \in Streams /\ s.signaled = stream.signaled \cup {Item.quality}
      /\ s.batch = stream.batch /\ s.item = stream.item /\ s.task = stream.task
      /\ s.next = stream.next
  BY <1>2, SignalledIsAStream DEF FetchInv
<1>4. stream' = [s EXCEPT !.at = "inited"]
  BY DEF SignalInit
<1> HIDE DEF s
<1>5. stream' \in Streams
  BY <1>3, <1>4, Names DEF Streams
<1>6. /\ stream'.at = "inited" /\ stream'.signaled = stream.signaled \cup {Item.quality}
      /\ stream'.batch = stream.batch /\ stream'.item = stream.item
      /\ stream'.task = stream.task /\ stream'.next = stream.next
  BY <1>3, <1>4 DEF Streams
<1>7. session' \in Sessions /\ Accounted(stream', session')
  <2>1. CASE ~TakesEmit
    BY <1>6, <2>1 DEF SignalInit, FetchInv, Accounted, TakesEmit
  <2>2. CASE TakesEmit /\ stream.suppress
    <3>1. session' = [session EXCEPT !.withheld = @ \cup {Item.quality}]
      BY <2>2 DEF SignalInit
    <3> QED BY <1>2, <1>6, <3>1 DEF FetchInv, Accounted, Sessions
  <2>3. CASE TakesEmit /\ ~stream.suppress
    <3>1. session' = [session EXCEPT !.seen = @ \cup {Item.quality}]
      BY <2>3 DEF SignalInit
    <3> QED BY <1>2, <1>6, <3>1 DEF FetchInv, Accounted, Sessions
  <2> QED BY <2>1, <2>2, <2>3
<1>8. Has(stream', stream'.item)
  BY <1>6 DEF Has, Item
<1> QED BY <1>5, <1>6, <1>7, <1>8, MoveKeepsInv

LEMMA GotoIsAStream ==
    ASSUME stream \in Streams, NEW at \in Places, Goto(at)
    PROVE  /\ stream' \in Streams /\ stream'.at = at
           /\ stream'.batch = stream.batch /\ stream'.item = stream.item
           /\ stream'.task = stream.task /\ stream'.next = stream.next
           /\ stream'.signaled = stream.signaled
<1>1. stream' = [stream EXCEPT !.at = at]
  BY DEF Goto
<1>2. stream' \in Streams
  BY <1>1 DEF Streams
<1> QED BY <1>1, <1>2 DEF Streams

(* A phase that sends a request, or has nothing to send.                   *)
LEMMA GotoKeepsInv ==
    ASSUME FetchInv, session' = session,
           NEW at \in {"init", "inited", "index", "extended", "ready"}, Goto(at),
           stream.at \in {"item", "inited", "index", "extended"},
           stream.at = "item" => at = "init"
    PROVE  FetchInv' /\ stream'.next = stream.next
<1>1. at \in Places
  BY Names
<1>2. /\ stream' \in Streams /\ stream'.at = at
      /\ stream'.batch = stream.batch /\ stream'.item = stream.item
      /\ stream'.task = stream.task /\ stream'.next = stream.next
      /\ stream'.signaled = stream.signaled
  BY <1>1, GotoIsAStream DEF FetchInv
<1>3. session' \in Sessions /\ Accounted(stream', session')
  BY <1>2 DEF FetchInv, Accounted
<1>4. stream'.at # "init" => Has(stream', stream'.item)
  BY <1>2 DEF FetchInv, Announced, Has
<1> QED BY <1>2, <1>3, <1>4, MoveKeepsInv

LEMMA EnsureInitKeepsInv == FetchInv /\ EnsureInit => FetchInv' /\ stream'.next = stream.next
<1> SUFFICES ASSUME FetchInv, EnsureInit PROVE FetchInv' /\ stream'.next = stream.next
  OBVIOUS
<1>1. stream.at = "item"
  BY DEF EnsureInit
<1>2. CASE Item.quality \notin stream.inits
  <2>1. Goto("init") /\ session' = session
    BY <1>2 DEF EnsureInit, Begin
  <2> QED BY <1>1, <2>1, GotoKeepsInv
<1>3. CASE Item.quality \in stream.inits
  <2>1. SignalInit
    BY <1>3 DEF EnsureInit
  <2> QED BY <1>1, <2>1, SignalInitKeepsInv
<1> QED BY <1>2, <1>3

LEMMA InitArrivesKeepsInv == FetchInv /\ InitArrives => FetchInv' /\ stream'.next = stream.next
BY SignalInitKeepsInv DEF InitArrives

LEMMA EnsureIndexKeepsInv == FetchInv /\ EnsureIndex => FetchInv' /\ stream'.next = stream.next
<1> SUFFICES ASSUME FetchInv, EnsureIndex PROVE FetchInv' /\ stream'.next = stream.next
  OBVIOUS
<1>1. stream.at = "inited" /\ session' = session /\ (Goto("index") \/ Goto("ready"))
  BY DEF EnsureIndex, Begin
<1> QED BY <1>1, GotoKeepsInv

LEMMA IndexContinuesKeepsInv ==
    FetchInv /\ IndexContinues => FetchInv' /\ stream'.next = stream.next
BY GotoKeepsInv DEF IndexContinues, Begin

(* An index leaves the Init bookkeeping alone.                             *)
LEMMA IndexKeepsInv ==
    FetchInv /\ (IndexArrives \/ IndexCompleted) => FetchInv' /\ stream'.next = stream.next
<1> SUFFICES ASSUME FetchInv, IndexArrives \/ IndexCompleted
             PROVE  FetchInv' /\ stream'.next = stream.next
  OBVIOUS
<1> DEFINE i == stream.indexes \cup {Item.quality}
<1>1. /\ stream.at \in {"index", "extended"} /\ session' = session
      /\ stream' = [stream EXCEPT !.at = "ready", !.indexes = i]
  BY DEF IndexArrives, IndexCompleted
<1>2. stream.item \in 1 .. Len(stream.batch)
  BY <1>1 DEF FetchInv, Announced, Working
<1>3. i \in SUBSET Nat
  BY <1>2, ItemIsAnItem DEF FetchInv, Streams
<1> HIDE DEF i
<1>4. stream' \in Streams
  BY <1>1, <1>3, Names DEF FetchInv, Streams
<1>5. /\ stream'.at = "ready" /\ stream'.batch = stream.batch
      /\ stream'.item = stream.item /\ stream'.task = stream.task
      /\ stream'.next = stream.next /\ stream'.signaled = stream.signaled
  BY <1>1 DEF FetchInv, Streams
<1>6. session' \in Sessions /\ Accounted(stream', session')
  BY <1>1, <1>5 DEF FetchInv, Accounted
<1>7. Has(stream', stream'.item)
  BY <1>1, <1>5 DEF FetchInv, Announced, Has
<1> QED BY <1>1, <1>4, <1>5, <1>6, <1>7, MoveKeepsInv

LEMMA FallingItemIsAnnounced ==
    ASSUME FetchInv, stream.at \in {"item", "init", "index", "extended"},
           NEW t \in Streams, t.task = stream.task,
           t.batch = stream.batch, t.item = stream.item,
           stream.signaled \subseteq t.signaled
    PROVE  ItemAnnounced(t)
<1>1. \A k : Has(stream, k) => Has(t, k)
  BY DEF Has
<1> QED BY <1>1 DEF FetchInv, Announced, ItemAnnounced, Working

(* The task is gone on with at a lower quality.                            *)
LEMMA FallKeepsInv ==
    ASSUME FetchInv, stream.at \in {"init", "index", "extended"}, NEW s \in Streams,
           s.batch = stream.batch, s.item = stream.item, s.signaled = stream.signaled,
           s.next = stream.next, Lower(s, stream.task)
    PROVE  FetchInv' /\ stream'.next = stream.next
<1> DEFINE t == [s EXCEPT !.at = "item", !.task = stream.task]
<1>1. stream.task \in Tasks /\ "item" \in Places
  BY Names DEF FetchInv, Streams
<1>2. t \in Streams
  BY <1>1 DEF Streams
<1>3. /\ t.task = stream.task /\ t.batch = stream.batch /\ t.item = stream.item
      /\ t.signaled = stream.signaled
  BY DEF Streams
<1>4. ItemAnnounced(t)
  BY <1>2, <1>3, FallingItemIsAnnounced
<1>5. Working(stream)
  BY DEF Working
<1> QED BY <1>1, <1>2, <1>4, <1>5, LowerKeepsInv

LEMMA InitUnusableKeepsInv ==
    FetchInv /\ InitUnusable => FetchInv' /\ stream'.next = stream.next
<1> SUFFICES ASSUME FetchInv, InitUnusable PROVE FetchInv' /\ stream'.next = stream.next
  OBVIOUS
<1> DEFINE i == stream.inits \cup {Item.quality}
           s == [stream EXCEPT !.inits = i]
<1>1. stream.at = "init" /\ Lower(s, stream.task)
  BY DEF InitUnusable
<1>2. stream.item \in 1 .. Len(stream.batch)
  BY <1>1 DEF FetchInv, Announced, Working
<1>3. i \in SUBSET Nat
  BY <1>2, ItemIsAnItem DEF FetchInv, Streams
<1> HIDE DEF i
<1>4. /\ s \in Streams /\ s.batch = stream.batch /\ s.item = stream.item
      /\ s.signaled = stream.signaled /\ s.next = stream.next
  BY <1>3 DEF FetchInv, Streams
<1> HIDE DEF s
<1> QED BY <1>1, <1>4, FallKeepsInv

LEMMA InitLostKeepsInv == FetchInv /\ InitLost => FetchInv' /\ stream'.next = stream.next
BY FallKeepsInv DEF InitLost, FetchInv

LEMMA IndexLostKeepsInv == FetchInv /\ IndexLost => FetchInv' /\ stream'.next = stream.next
BY FallKeepsInv DEF IndexLost, FetchInv

LEMMA CachedInitFailsKeepsInv ==
    FetchInv /\ CachedInitFails => FetchInv' /\ stream'.next = stream.next
<1> SUFFICES ASSUME FetchInv, CachedInitFails PROVE FetchInv' /\ stream'.next = stream.next
  OBVIOUS
<1> DEFINE s == Signalled(stream)
           t == [s EXCEPT !.at = "item"]
<1>1. stream.at = "item"
  BY DEF CachedInitFails
<1>2. stream.item \in 1 .. Len(stream.batch)
  BY <1>1 DEF FetchInv, Announced, Working
<1>3. Item.quality \in Nat
  BY <1>2, ItemIsAnItem DEF FetchInv
<1>4. /\ s \in Streams /\ s.signaled = stream.signaled \cup {Item.quality}
      /\ s.batch = stream.batch /\ s.item = stream.item /\ s.task = stream.task
      /\ s.next = stream.next
  BY <1>3, SignalledIsAStream DEF FetchInv
<1>5. CASE Item.quality > 0
  <2>1. /\ stream' = [s EXCEPT !.at = "item", !.batch[s.item].quality = @ - 1]
        /\ session' = [session EXCEPT !.withheld = @ \cup {Item.quality}]
    BY <1>5 DEF CachedInitFails
  <2> HIDE DEF s
  <2>2. t \in Streams
    BY <1>4, Names DEF Streams
  <2>3. /\ t.at = "item" /\ t.task = stream.task /\ t.batch = stream.batch
        /\ t.item = stream.item /\ t.next = stream.next /\ t.signaled = s.signaled
    BY <1>4 DEF Streams
  <2>4. stream' = [t EXCEPT !.batch[t.item].quality = @ - 1]
    BY <1>4, <2>1, <2>3 DEF Streams
  <2>5. ItemAnnounced(t)
    BY <1>1, <1>4, <2>2, <2>3, FallingItemIsAnnounced
  <2>6. t.batch[t.item].quality > 0
    BY <1>5, <2>3 DEF Item
  <2> HIDE DEF t
  <2>7. /\ stream' \in Streams /\ Announced(stream')
        /\ stream'.signaled = s.signaled /\ stream'.next = stream.next
    BY <2>2, <2>3, <2>4, <2>5, <2>6, LoweredIsAnnounced
  <2>8. session' \in Sessions /\ session'.seen = session.seen
        /\ session'.withheld = session.withheld \cup {Item.quality}
    BY <1>3, <2>1 DEF FetchInv, Sessions
  <2> QED BY <1>4, <2>7, <2>8 DEF FetchInv, Accounted
<1>6. CASE ~(Item.quality > 0)
  <2>1. /\ stream' = [s EXCEPT !.at = "over"]
        /\ session' = [session EXCEPT !.withheld = @ \cup {Item.quality},
                                      !.haveInit = @ /\ s.task # "first"]
    BY <1>6 DEF CachedInitFails
  <2> HIDE DEF s
  <2>2. stream' \in Streams
    BY <1>4, <2>1, Names DEF Streams
  <2>3. stream'.at = "over" /\ stream'.signaled = s.signaled /\ stream'.next = s.next
    BY <1>4, <2>1 DEF Streams
  <2>4. session' \in Sessions /\ session'.seen = session.seen
        /\ session'.withheld = session.withheld \cup {Item.quality}
    <3> DEFINE w == session.withheld \cup {Item.quality}
               h == session.haveInit /\ s.task # "first"
    <3>1. w \in SUBSET Nat
      BY <1>3 DEF FetchInv, Sessions
    <3>2. h \in BOOLEAN
      OBVIOUS
    <3>3. session' = [session EXCEPT !.withheld = w, !.haveInit = h]
      BY <2>1
    <3> HIDE DEF w, h
    <3>4. session' \in Sessions /\ session'.seen = session.seen /\ session'.withheld = w
      BY <3>1, <3>2, <3>3 DEF FetchInv, Sessions
    <3> QED BY <3>4 DEF w
  <2> QED BY <1>4, <2>2, <2>3, <2>4, IdleSuffices DEF FetchInv, Accounted, Working
<1> QED BY <1>5, <1>6

(* A batch that is prepared has every Init signalled.                      *)
LEMMA ProceedKeepsInv == FetchInv /\ Proceed => FetchInv' /\ stream'.next = stream.next
<1> SUFFICES ASSUME FetchInv, Proceed PROVE FetchInv' /\ stream'.next = stream.next
  OBVIOUS
<1>1. stream.at = "ready" /\ session' = session /\ stream \in Streams
  BY DEF Proceed, FetchInv
<1>2. /\ stream.item \in 1 .. Len(stream.batch) /\ Has(stream, stream.item)
      /\ stream.item \in Nat /\ Len(stream.batch) \in Nat
  BY <1>1 DEF FetchInv, Announced, Working, Streams
<1>3. CASE stream.task = "first" /\ stream' = Replan
  <2>1. stream' \in Streams
    BY <1>1, <1>3, NoItems, Names DEF Replan, Streams
  <2>2. /\ stream'.at = "plan" /\ stream'.signaled = stream.signaled
        /\ stream'.next = stream.next
    BY <1>1, <1>3 DEF Replan, Streams
  <2> QED BY <1>1, <2>1, <2>2, IdleSuffices DEF FetchInv, Accounted, Working
<1>4. CASE /\ stream.task = "prepare" /\ stream.item < Len(stream.batch)
           /\ stream' = [stream EXCEPT !.at = "item", !.item = @ + 1]
  <2> DEFINE i == stream.item + 1
  <2>1. i \in 1 .. Len(stream.batch) /\ i \in Nat
    BY <1>2, <1>4
  <2>2. stream' = [stream EXCEPT !.at = "item", !.item = i]
    BY <1>4
  <2>3. \A k \in 1 .. Len(stream.batch) : k < i => k < stream.item \/ k = stream.item
    BY <1>2
  <2> HIDE DEF i
  <2>4. stream' \in Streams
    BY <1>1, <2>1, <2>2, Names DEF Streams
  <2>5. /\ stream'.at = "item" /\ stream'.task = "prepare" /\ stream'.item = i
        /\ stream'.batch = stream.batch /\ stream'.next = stream.next
        /\ stream'.signaled = stream.signaled
    BY <1>1, <1>4, <2>2 DEF Streams
  <2>6. \A k \in 1 .. Len(stream.batch) : k < i => Has(stream', k)
    BY <1>1, <1>2, <1>4, <2>3, <2>5 DEF FetchInv, Announced, Has
  <2>7. ItemAnnounced(stream')
    BY <2>1, <2>5, <2>6 DEF ItemAnnounced
  <2> QED BY <1>1, <2>4, <2>5, <2>7, ItemAnnouncedSuffices DEF FetchInv, Accounted
<1>5. CASE stream.task = "prepare" /\ stream.item = Len(stream.batch) /\ Goto("download")
  <2>1. /\ stream' \in Streams /\ stream'.at = "download" /\ stream'.task = "prepare"
        /\ stream'.batch = stream.batch /\ stream'.item = stream.item
        /\ stream'.next = stream.next /\ stream'.signaled = stream.signaled
    BY <1>1, <1>5, GotoIsAStream, Names
  <2>2. \A k \in 1 .. Len(stream.batch) : k < stream.item \/ k = stream.item
    BY <1>2, <1>5
  <2>3. \A k \in 1 .. Len(stream.batch) : Has(stream', k)
    BY <1>1, <1>2, <1>5, <2>1, <2>2 DEF FetchInv, Announced, Has
  <2>4. Announced(stream')
    BY <1>2, <2>1, <2>3 DEF Announced
  <2> QED BY <1>1, <2>1, <2>4 DEF FetchInv, Accounted
<1>6. CASE stream.task \in {"fallback", "chunks"} /\ Goto("media")
  <2>1. /\ stream' \in Streams /\ stream'.at = "media" /\ stream'.task = stream.task
        /\ stream'.batch = stream.batch /\ stream'.item = stream.item
        /\ stream'.next = stream.next /\ stream'.signaled = stream.signaled
    BY <1>1, <1>6, GotoIsAStream, Names
  <2>2. \A k : Has(stream', k) <=> Has(stream, k)
    BY <2>1 DEF Has
  <2>3. Announced(stream')
    BY <1>1, <1>2, <1>6, <2>1, <2>2 DEF FetchInv, Announced, Working
  <2> QED BY <1>1, <2>1, <2>3 DEF FetchInv, Accounted
<1> QED BY <1>3, <1>4, <1>5, <1>6 DEF Proceed

LEMMA DownloadedKeepsInv == FetchInv /\ Downloaded => FetchInv' /\ stream'.next = stream.next
<1> SUFFICES ASSUME FetchInv, Downloaded PROVE FetchInv' /\ stream'.next = stream.next
  OBVIOUS
<1>1. /\ stream.at = "download" /\ stream' = [stream EXCEPT !.at = "use", !.item = 1]
      /\ session' = session /\ stream \in Streams
  BY DEF Downloaded, FetchInv
<1>2. 1 \in 1 .. Len(stream.batch)
  BY <1>1 DEF FetchInv, Announced, Working, Streams
<1>3. stream' \in Streams
  BY <1>1, Names DEF Streams
<1>4. /\ stream'.at = "use" /\ stream'.item = 1 /\ stream'.task = stream.task
      /\ stream'.batch = stream.batch /\ stream'.next = stream.next
      /\ stream'.signaled = stream.signaled
  BY <1>1 DEF Streams
<1>5. \A k \in 1 .. Len(stream.batch) : Has(stream', k)
  BY <1>1, <1>4 DEF FetchInv, Announced, Has
<1>6. Announced(stream')
  BY <1>2, <1>4, <1>5 DEF Announced
<1> QED BY <1>1, <1>3, <1>4, <1>6 DEF FetchInv, Accounted

\* The item at hand has its Init signalled, and so have those after it.
LEMMA UsedItemIsAnnounced ==
    ASSUME FetchInv, stream.at \in {"use", "media"}
    PROVE  /\ stream.item \in 1 .. Len(stream.batch) /\ Has(stream, stream.item)
           /\ \A k \in 1 .. Len(stream.batch) : k > stream.item => Has(stream, k)
<1>1. stream.item \in 1 .. Len(stream.batch) /\ stream.item \in Nat
  BY DEF FetchInv, Announced, Working, Streams
<1>2. CASE stream.at = "use"
  BY <1>1, <1>2 DEF FetchInv, Announced
<1>3. CASE stream.at = "media"
  BY <1>1, <1>3 DEF FetchInv, Announced, Working
<1> QED BY <1>2, <1>3

LEMMA DeliverKeepsInv ==
    ASSUME FetchInv, stream.at \in {"use", "media"}, Deliver, session' = session
    PROVE  FetchInv'
<1> DEFINE n == Item.seg + 1
           i == stream.item + 1
<1>1. /\ stream.item \in 1 .. Len(stream.batch)
      /\ \A k \in 1 .. Len(stream.batch) : k > stream.item => Has(stream, k)
  BY UsedItemIsAnnounced
<1>2. n \in Nat \ {0} /\ stream \in Streams
  BY <1>1, ItemIsAnItem DEF FetchInv, Items
<1>3. Len(stream.batch) \in Nat
  BY <1>2 DEF Streams
<1>4. CASE stream.item < Len(stream.batch)
  <2>1. i \in 1 .. Len(stream.batch) /\ i \in Nat
    BY <1>1, <1>3, <1>4
  <2>2. stream' = [stream EXCEPT !.at = "use", !.item = i, !.next = n, !.started = TRUE]
    BY <1>2, <1>4 DEF Deliver, Streams
  <2>3. \A k \in 1 .. Len(stream.batch) : k >= i => k > stream.item
    BY <1>1
  <2> HIDE DEF i, n
  <2>4. stream' \in Streams
    BY <1>2, <2>1, <2>2, Names DEF Streams
  <2>5. /\ stream'.at = "use" /\ stream'.item = i /\ stream'.task = stream.task
        /\ stream'.batch = stream.batch /\ stream'.signaled = stream.signaled
    BY <1>2, <2>2 DEF Streams
  <2>6. \A k \in 1 .. Len(stream.batch) : k >= i => Has(stream', k)
    BY <1>1, <2>3, <2>5 DEF Has
  <2>7. \A k \in 1 .. Len(stream.batch) : k > i => Has(stream', k)
    BY <2>1, <2>6
  <2>8. Announced(stream')
    BY <2>1, <2>5, <2>6, <2>7 DEF Announced
  <2> QED BY <2>4, <2>5, <2>8 DEF FetchInv, Accounted
<1>5. CASE ~(stream.item < Len(stream.batch))
  <2>1. stream' = [Replan EXCEPT !.next = n, !.started = TRUE]
    BY <1>5 DEF Deliver
  <2>2. Replan \in Streams /\ Replan.at = "plan" /\ Replan.signaled = stream.signaled
    BY <1>2, NoItems, Names DEF Replan, Streams
  <2> HIDE DEF n
  <2>3. stream' \in Streams
    BY <1>2, <2>1, <2>2 DEF Streams
  <2>4. stream'.at = "plan" /\ stream'.signaled = stream.signaled
    BY <2>1, <2>2 DEF Streams
  <2> QED BY <2>3, <2>4, IdleSuffices DEF FetchInv, Accounted, Working
<1> QED BY <1>4, <1>5

LEMMA UseResultKeepsInv == FetchInv /\ UseResult => FetchInv'
<1> SUFFICES ASSUME FetchInv, UseResult PROVE FetchInv'
  OBVIOUS
<1> DEFINE task == IF mpd.chunked THEN "chunks" ELSE "fallback"
<1>1. stream.at \in {"use", "media"} /\ stream \in Streams
  BY DEF UseResult, FetchInv
<1>2. CASE Deliver /\ session' = session
  BY <1>1, <1>2, DeliverKeepsInv
<1>3. CASE stream' = Replan /\ session' = session
  <2>1. stream' \in Streams /\ stream'.at = "plan" /\ stream'.signaled = stream.signaled
    BY <1>1, <1>3, NoItems, Names DEF Replan, Streams
  <2> QED BY <1>3, <2>1, IdleSuffices DEF FetchInv, Accounted, Working
<1>4. CASE Lower(stream, task)
  <2> DEFINE t == [stream EXCEPT !.at = "item", !.task = task]
  <2>1. task \in Tasks /\ task \in {"fallback", "chunks"} /\ "item" \in Places
    BY Names
  <2> HIDE DEF task
  <2>2. /\ stream.item \in 1 .. Len(stream.batch)
        /\ \A k \in 1 .. Len(stream.batch) : k > stream.item => Has(stream, k)
    BY <1>1, UsedItemIsAnnounced
  <2>3. t \in Streams
    BY <1>1, <2>1 DEF Streams
  <2>4. /\ t.task = task /\ t.batch = stream.batch /\ t.item = stream.item
        /\ t.signaled = stream.signaled
    BY <1>1 DEF Streams
  <2>5. ItemAnnounced(t)
    BY <2>1, <2>2, <2>4 DEF ItemAnnounced, Has
  <2>6. Working(stream)
    BY <1>1 DEF Working
  <2> QED BY <1>1, <1>4, <2>1, <2>3, <2>5, <2>6, LowerKeepsInv
<1> QED BY <1>2, <1>3, <1>4 DEF UseResult

-----------------------------------------------------------------------------
\* A fetch, and a cancellation, do not touch the stream.
LEMMA FetchStepKeepsInv ==
    FetchInv /\ (FetchStep \/ CancelFetches \/ UNCHANGED vars)
        => FetchInv' /\ stream'.next = stream.next
<1> SUFFICES ASSUME FetchInv, FetchStep \/ CancelFetches \/ UNCHANGED vars
             PROVE  FetchInv' /\ stream'.next = stream.next
  OBVIOUS
<1>1. stream' = stream /\ session' = session
  BY DEF FetchStep, NextBase, Responds, Aborts, Transient, Unanswered, Refused, Retry,
         ReadBody, CancelFetches, vars
<1> QED BY <1>1 DEF FetchInv

LEMMA NextKeepsInv ==
    ASSUME FetchInv, [Next]_vars
    PROVE  /\ FetchInv'
           /\ Delivers => stream.at \in {"use", "media"}
<1>1. CASE UseResult
  BY <1>1, UseResultKeepsInv DEF UseResult
<1>2. CASE LeaveRun
  <2>1. FetchInv' /\ stream'.next \in {1, stream.next}
    BY <1>2, LeaveRunKeepsInv
  <2>2. stream.next \in Nat \ {0}
    BY DEF FetchInv, Streams
  <2> QED BY <2>1, <2>2 DEF Delivers
<1>3. CASE ~UseResult /\ ~LeaveRun
  <2>1. FetchInv' /\ stream'.next = stream.next
    BY <1>3, StartRunKeepsInv, PlanBatchKeepsInv, EnsureInitKeepsInv,
       CachedInitFailsKeepsInv, InitArrivesKeepsInv, InitUnusableKeepsInv,
       InitLostKeepsInv, EnsureIndexKeepsInv, IndexKeepsInv, IndexContinuesKeepsInv,
       IndexLostKeepsInv, ProceedKeepsInv, DownloadedKeepsInv, FetchStepKeepsInv
    DEF Next, StreamStep
  <2>2. stream.next \in Nat
    BY DEF FetchInv, Streams
  <2> QED BY <2>1, <2>2 DEF Delivers
<1> QED BY <1>1, <1>2, <1>3

(* The bookkeeping of Inits around fallback, cache and soft start is kept  *)
(* by every step.                                                          *)
THEOREM FetchInvariant == Spec => []FetchInv
<1>1. FetchInv /\ [Next]_vars => FetchInv'
  BY NextKeepsInv
<1> QED BY <1>1, InitInv, PTL DEF Spec

(* Media follows an Init of its quality, or one that was withheld, whatever *)
(* fallback, cancellation or continued session led to it.                  *)
THEOREM MediaFollowsItsInit == Spec => InitUnlessWithheld
<1>1. ASSUME FetchInv, [Next]_vars
      PROVE  [Delivers => Item.quality \in session.seen \cup session.withheld]_vars
  <2>1. CASE Delivers
    <3>1. stream.at \in {"use", "media"}
      BY <1>1, <2>1, NextKeepsInv
    <3>2. Has(stream, stream.item)
      BY <1>1, <3>1, UsedItemIsAnnounced
    <3> QED BY <1>1, <3>2 DEF FetchInv, Accounted, Has, Item
  <2>2. CASE ~Delivers
    BY <2>2
  <2> QED BY <2>1, <2>2
<1> QED BY <1>1, FetchInvariant, PTL DEF Spec, InitUnlessWithheld

-----------------------------------------------------------------------------
(* What is being fetched, and for which item.  What the invariants say is  *)
(* said of values, so that a step can be argued about before and after.    *)

Whats == {"init", "index", "media"}

Underway == {"base", "inflight", "sleep", "body"}

Requests ==
    [ at : Underway \cup {"off", "ok", "failed", "cancelled"}, what : Whats,
      seg : Nat, quality : Nat, base : Nat \ {0}, attempt : Nat, guard : Nat ]

\* The operators of the model, for a presentation m.
ResourceIn(m, what, seg, q) ==
    IF m.singleFile THEN <<"file", 0, q>>
    ELSE <<what, IF what = "media" THEN seg ELSE 0, q>>

UrlsIn(m, what, seg, q) == {ResourceIn(m, what, seg, q)} \X (1 .. m.bases)

LimitIn(m, what) == IF m.chunked /\ what = "media" THEN MaxAttempts * Factor ELSE MaxAttempts

\* Something the presentation has.
Exists(m, what, seg, q) == q <= m.top /\ (what = "media" => seg \in 1 .. m.last)

RequestTyped(m, r) ==
    /\ r.base <= m.bases + 1
    /\ r.attempt <= LimitIn(m, r.what)
    /\ r.at \in Underway => Exists(m, r.what, r.seg, r.quality)
    /\ r.at = "base" => r.attempt = 0
    /\ r.at \in {"inflight", "sleep", "body"} => r.base <= m.bases
    /\ r.at = "sleep" => r.attempt < LimitIn(m, r.what)

ItemTyped(m, task, i) == i.quality <= m.top /\ i.seg <= m.last /\ (task # "first" => i.seg >= 1)

StreamTyped(m, s) ==
    /\ s.next <= m.last + 1
    /\ s.inits \cup s.indexes \cup s.signaled \subseteq 0 .. m.top
    /\ Len(s.batch) <= MaxParallel
    /\ \A k \in 1 .. Len(s.batch) : ItemTyped(m, s.task, s.batch[k])
    /\ s.at \in {"index", "extended", "download", "media", "use"} => s.task # "first"

TypedInv ==
    /\ mpd \in Presentations /\ cancel \in Nat
    /\ blacklist \subseteq Urls /\ spent \subseteq Urls
    /\ fetch \in [Slots -> Requests]
    /\ \A f \in Slots : RequestTyped(mpd, fetch[f])
    /\ StreamTyped(mpd, stream)

\* The request r is the one for what the item i needs, and every base it is
\* past is lost; without an answer, all are.
Serves(m, lost, r, what, i) ==
    /\ r.at \in Underway =>
           /\ r.what = what /\ r.seg = i.seg /\ r.quality = i.quality
           /\ \A b \in 1 .. m.bases :
                  b < r.base => <<ResourceIn(m, what, i.seg, i.quality), b>> \in lost
    /\ r.at = "failed" => UrlsIn(m, what, i.seg, i.quality) \subseteq lost

\* What each slot is used for.  A fallback uses slot 1 for its own requests,
\* and leaves the downloads of the items after it where they are.
Served(m, lost, fs, s) ==
    /\ s.at = "init" => Serves(m, lost, fs[1], "init", s.batch[s.item])
    /\ s.at \in {"index", "extended"} => Serves(m, lost, fs[1], "index", s.batch[s.item])
    /\ s.at = "media" => Serves(m, lost, fs[1], "media", s.batch[s.item])
    /\ \A k \in 1 .. Len(s.batch) :
           \/ s.at = "download"
           \/ s.at = "use" /\ k >= s.item
           \/ Working(s) /\ s.task \in {"fallback", "chunks"} /\ k > s.item
           => Serves(m, lost, fs[k], "media", s.batch[k])

Lost == blacklist \cup spent

ServedInv == Served(mpd, Lost, fetch, stream)

(* ------------------------- One request --------------------------------- *)

LEMMA MpdFacts ==
    ASSUME NEW m \in Presentations
    PROVE  /\ m.top \in Nat /\ m.bases \in Nat \ {0} /\ m.last \in Nat \ {0}
           /\ m.singleFile \in BOOLEAN /\ m.chunked \in BOOLEAN
BY FetchAssumption

LEMMA LimitIsPositive ==
    ASSUME NEW m \in Presentations, NEW what
    PROVE  LimitIn(m, what) \in Nat /\ LimitIn(m, what) >= 1
<1>1. MaxAttempts * Factor \in Nat /\ MaxAttempts * Factor >= 1
  BY FetchAssumption
<1> QED BY <1>1, FetchAssumption DEF LimitIn

LEMMA SameResource ==
    ASSUME NEW what, NEW seg, NEW q
    PROVE  /\ Resource(what, seg, q) = ResourceIn(mpd, what, seg, q)
           /\ UrlsOf(Resource(what, seg, q)) = UrlsIn(mpd, what, seg, q)
BY DEF Resource, ResourceIn, UrlsOf, UrlsIn

(* Every URL asked for is one the presentation has.                        *)
LEMMA UrlsExist ==
    ASSUME mpd \in Presentations, NEW what \in Whats, NEW seg \in Nat, NEW q \in Nat,
           Exists(mpd, what, seg, q)
    PROVE  UrlsIn(mpd, what, seg, q) \subseteq Urls
<1>1. ResourceIn(mpd, what, seg, q) \in Resources
  <2>1. q \in Qualities
    BY MpdFacts DEF Exists, Qualities
  <2>2. CASE mpd.singleFile
    BY <2>1, <2>2 DEF ResourceIn, Resources
  <2>3. CASE ~mpd.singleFile /\ what = "media"
    <3>1. seg \in 1 .. mpd.last
      BY <2>3 DEF Exists
    <3> QED BY <2>1, <2>3, <3>1 DEF ResourceIn, Resources
  <2>4. CASE ~mpd.singleFile /\ what # "media"
    BY <2>1, <2>4 DEF ResourceIn, Resources, Whats
  <2> QED BY <2>2, <2>3, <2>4
<1> QED BY <1>1 DEF UrlsIn, Urls

\* How a request under way goes on, and what is lost with it.
Moves(m, more, r, t) ==
    \/ t.at \in {"ok", "cancelled"}
    \/ t.at = "failed" /\ r.base > m.bases
    \/ t.at = "failed" /\ UrlsIn(m, r.what, r.seg, r.quality) \subseteq more
    \/ /\ t.at \in Underway
       /\ t.what = r.what /\ t.seg = r.seg /\ t.quality = r.quality
       /\ \/ t.base = r.base
          \/ /\ t.base = r.base + 1
             /\ <<ResourceIn(m, r.what, r.seg, r.quality), r.base>> \in more

(* A request that goes on serves what it served: bases are left behind and *)
(* given up only when they are lost.                                       *)
LEMMA MovesServe ==
    ASSUME NEW m \in Presentations, NEW lost, NEW more, lost \subseteq more,
           NEW r \in Requests, NEW t \in Requests, r.at \in Underway,
           Moves(m, more, r, t), NEW what, NEW i, Serves(m, lost, r, what, i)
    PROVE  Serves(m, more, t, what, i)
<1>1. /\ r.what = what /\ r.seg = i.seg /\ r.quality = i.quality
      /\ \A b \in 1 .. m.bases :
             b < r.base => <<ResourceIn(m, what, i.seg, i.quality), b>> \in more
  BY DEF Serves
<1>2. m.bases \in Nat /\ r.base \in Nat /\ t.base \in Nat
  BY MpdFacts DEF Requests
<1>3. CASE t.at \in {"ok", "cancelled"}
  BY <1>3 DEF Serves, Underway
<1>4. CASE t.at = "failed" /\ r.base > m.bases
  <2>1. \A b \in 1 .. m.bases : <<ResourceIn(m, what, i.seg, i.quality), b>> \in more
    BY <1>1, <1>2, <1>4
  <2>2. UrlsIn(m, what, i.seg, i.quality) \subseteq more
    BY <2>1 DEF UrlsIn
  <2> QED BY <1>4, <2>2 DEF Serves, Underway
<1>5. CASE t.at = "failed" /\ UrlsIn(m, r.what, r.seg, r.quality) \subseteq more
  BY <1>1, <1>5 DEF Serves, Underway
<1>6. CASE /\ t.at \in Underway
           /\ t.what = r.what /\ t.seg = r.seg /\ t.quality = r.quality
           /\ \/ t.base = r.base
              \/ /\ t.base = r.base + 1
                 /\ <<ResourceIn(m, r.what, r.seg, r.quality), r.base>> \in more
  <2>1. ASSUME NEW b \in 1 .. m.bases, b < t.base
        PROVE  <<ResourceIn(m, what, i.seg, i.quality), b>> \in more
    <3>1. b < r.base \/ (b = r.base /\ t.base = r.base + 1)
      BY <1>2, <1>6, <2>1
    <3> QED BY <1>1, <1>2, <1>6, <3>1
  <2>2. t.at # "failed"
    BY <1>6 DEF Underway
  <2> QED BY <1>1, <1>6, <2>1, <2>2 DEF Serves
<1> QED BY <1>3, <1>4, <1>5, <1>6 DEF Moves

(* What is lost stays lost.                                                *)
LEMMA ServesStill ==
    ASSUME NEW m, NEW lost, NEW more, lost \subseteq more, NEW r, NEW what, NEW i,
           Serves(m, lost, r, what, i)
    PROVE  Serves(m, more, r, what, i)
BY DEF Serves

(* A new request has not been anywhere.                                    *)
LEMMA NewRequest ==
    ASSUME NEW m \in Presentations, cancel \in Nat, NEW lost, NEW i \in Items, NEW what \in Whats,
           Exists(m, what, i.seg, i.quality)
    PROVE  /\ Request(what, i) \in Requests
           /\ RequestTyped(m, Request(what, i))
           /\ Serves(m, lost, Request(what, i), what, i)
           /\ Request(what, i).at = "base"
<1> DEFINE r == Request(what, i)
<1>1. /\ r.at = "base" /\ r.what = what /\ r.seg = i.seg /\ r.quality = i.quality
      /\ r.base = 1 /\ r.attempt = 0
  BY DEF Request, Off
<1>2. r \in Requests
  <2> DEFINE o == [Off EXCEPT !.at = "base"]
  <2>1. o \in Requests
    BY DEF Off, Requests, Underway, Whats
  <2>2. i.seg \in Nat /\ i.quality \in Nat
    BY DEF Items
  <2>3. r = [o EXCEPT !.what = what, !.seg = i.seg, !.quality = i.quality, !.guard = cancel]
    BY DEF Request
  <2> HIDE DEF o, r
  <2> QED BY <2>1, <2>2, <2>3 DEF Requests
<1> HIDE DEF r
<1>3. RequestTyped(m, r)
  BY <1>1, MpdFacts, LimitIsPositive DEF RequestTyped, Underway
<1>4. Serves(m, lost, r, what, i)
  BY <1>1, MpdFacts DEF Serves
<1> QED BY <1>1, <1>2, <1>3, <1>4 DEF r

LEMMA EndedRequest ==
    ASSUME NEW m \in Presentations, NEW how \in {"off", "ok", "failed", "cancelled"}
    PROVE  /\ [Off EXCEPT !.at = how] \in Requests
           /\ RequestTyped(m, [Off EXCEPT !.at = how])
           /\ [Off EXCEPT !.at = how].at = how
<1> DEFINE r == [Off EXCEPT !.at = how]
<1>1. r.at = how /\ r.what = "media" /\ r.base = 1 /\ r.attempt = 0
  BY DEF Off
<1>2. r \in Requests
  BY DEF Off, Requests, Whats
<1> HIDE DEF r
<1>3. RequestTyped(m, r)
  BY <1>1, MpdFacts, LimitIsPositive DEF RequestTyped, Underway
<1> QED BY <1>1, <1>2, <1>3 DEF r

(* A slot's step is a move of its request, and leaves the other slots and  *)
(* what was lost alone.                                                    *)
SlotMoves(f) ==
    /\ fetch[f].at \in Underway
    /\ \E t \in Requests :
           /\ fetch' = [fetch EXCEPT ![f] = t]
           /\ RequestTyped(mpd, t)
           /\ Moves(mpd, Lost', fetch[f], t)
    /\ blacklist \subseteq blacklist' /\ spent \subseteq spent'
    /\ blacklist' \subseteq Urls /\ spent' \subseteq Urls
    /\ UNCHANGED <<mpd, cancel, session, stream>>

LEMMA UrlFacts ==
    ASSUME TypedInv, NEW f \in Slots, fetch[f].at \in Underway
    PROVE  /\ ResourceOf(f) = ResourceIn(mpd, fetch[f].what, fetch[f].seg, fetch[f].quality)
           /\ UrlsOf(ResourceOf(f)) = UrlsIn(mpd, fetch[f].what, fetch[f].seg, fetch[f].quality)
           /\ UrlsOf(ResourceOf(f)) \subseteq Urls
           /\ fetch[f].base <= mpd.bases => Url(f) \in Urls
           /\ Limit(f) = LimitIn(mpd, fetch[f].what)
<1>1. /\ fetch[f] \in Requests /\ RequestTyped(mpd, fetch[f]) /\ mpd \in Presentations
  BY DEF TypedInv
<1>2. /\ fetch[f].what \in Whats /\ fetch[f].seg \in Nat /\ fetch[f].quality \in Nat
      /\ fetch[f].base \in Nat \ {0}
  BY <1>1 DEF Requests
<1>3. /\ ResourceOf(f) = ResourceIn(mpd, fetch[f].what, fetch[f].seg, fetch[f].quality)
      /\ UrlsOf(ResourceOf(f)) = UrlsIn(mpd, fetch[f].what, fetch[f].seg, fetch[f].quality)
  BY SameResource DEF ResourceOf
<1>4. UrlsOf(ResourceOf(f)) \subseteq Urls
  BY <1>1, <1>2, <1>3, UrlsExist DEF RequestTyped
<1>5. fetch[f].base <= mpd.bases => Url(f) \in Urls
  <2>1. fetch[f].base <= mpd.bases => Url(f) \in UrlsOf(ResourceOf(f))
    BY <1>1, <1>2, MpdFacts DEF Url, UrlsOf
  <2> QED BY <1>4, <2>1
<1>6. Limit(f) = LimitIn(mpd, fetch[f].what)
  BY DEF Limit, LimitIn
<1> QED BY <1>3, <1>4, <1>5, <1>6

LEMMA EndMoves ==
    ASSUME TypedInv, NEW f \in Slots, fetch[f].at \in Underway,
           NEW how \in {"ok", "failed", "cancelled"}, End(f, how),
           blacklist \subseteq blacklist', spent \subseteq spent',
           blacklist' \subseteq Urls, spent' \subseteq Urls,
           UNCHANGED <<mpd, cancel, session, stream>>,
           how = "failed" => \/ fetch[f].base > mpd.bases
                             \/ UrlsOf(ResourceOf(f)) \subseteq Lost'
    PROVE  SlotMoves(f)
<1> DEFINE t == [Off EXCEPT !.at = how]
<1>1. t \in Requests /\ RequestTyped(mpd, t) /\ t.at = how
  BY EndedRequest DEF TypedInv
<1>2. fetch' = [fetch EXCEPT ![f] = t]
  BY DEF End
<1> HIDE DEF t
<1>3. Moves(mpd, Lost', fetch[f], t)
  BY <1>1, UrlFacts DEF Moves
<1> QED BY <1>1, <1>2, <1>3 DEF SlotMoves

LEMMA FailoverMoves ==
    ASSUME TypedInv, NEW f \in Slots, fetch[f].at \in Underway, Failover(f),
           fetch[f].base <= mpd.bases, Url(f) \in Lost',
           blacklist \subseteq blacklist', spent \subseteq spent',
           blacklist' \subseteq Urls, spent' \subseteq Urls,
           UNCHANGED <<mpd, cancel, session, stream>>
    PROVE  SlotMoves(f)
<1> DEFINE r == fetch[f]
           n == r.base + 1
           t == [r EXCEPT !.at = "base", !.base = n, !.attempt = 0]
<1>1. r \in Requests /\ RequestTyped(mpd, r) /\ mpd \in Presentations
  BY DEF TypedInv
<1>2. fetch' = [fetch EXCEPT ![f] = t]
  BY DEF Failover, TypedInv
<1>3. n \in Nat \ {0} /\ n <= mpd.bases + 1
  BY <1>1, MpdFacts DEF Requests
<1>4. Url(f) = <<ResourceIn(mpd, r.what, r.seg, r.quality), r.base>>
  BY UrlFacts DEF Url
<1>5. n = r.base + 1 /\ r.at \in Underway
  OBVIOUS
<1> HIDE DEF n, r
<1>6. t \in Requests
  BY <1>1, <1>3 DEF Requests, Underway
<1>7. /\ t.at = "base" /\ t.base = n /\ t.attempt = 0
      /\ t.what = r.what /\ t.seg = r.seg /\ t.quality = r.quality
  BY <1>1 DEF Requests
<1> HIDE DEF t
<1>8. RequestTyped(mpd, t)
  BY <1>1, <1>3, <1>5, <1>7, LimitIsPositive DEF RequestTyped, Underway
<1>9. Moves(mpd, Lost', r, t)
  BY <1>4, <1>5, <1>7 DEF Moves, Underway
<1> QED BY <1>2, <1>6, <1>8, <1>9 DEF SlotMoves, r

LEMMA GoesMoves ==
    ASSUME TypedInv, NEW f \in Slots, fetch[f].at \in Underway,
           NEW where \in {"sleep", "body", "inflight"}, NEW n \in Nat,
           fetch' = [fetch EXCEPT ![f] = [@ EXCEPT !.at = where, !.attempt = n]],
           fetch[f].base <= mpd.bases, n <= Limit(f), where = "sleep" => n < Limit(f),
           UNCHANGED <<mpd, cancel, blacklist, session, stream, spent>>
    PROVE  SlotMoves(f)
<1> DEFINE r == fetch[f]
           t == [r EXCEPT !.at = where, !.attempt = n]
<1>1. r \in Requests /\ RequestTyped(mpd, r) /\ r.at \in Underway /\ r.base <= mpd.bases
  BY DEF TypedInv
<1>2. fetch' = [fetch EXCEPT ![f] = t]
  BY DEF TypedInv
<1>3. n <= LimitIn(mpd, r.what) /\ (where = "sleep" => n < LimitIn(mpd, r.what))
  BY UrlFacts
<1>4. blacklist \subseteq Urls /\ spent \subseteq Urls
  BY DEF TypedInv
<1> HIDE DEF r
<1>5. t \in Requests
  BY <1>1 DEF Requests, Underway
<1>6. /\ t.at = where /\ t.base = r.base /\ t.attempt = n
      /\ t.what = r.what /\ t.seg = r.seg /\ t.quality = r.quality
  BY <1>1 DEF Requests
<1> HIDE DEF t
<1>7. RequestTyped(mpd, t)
  BY <1>1, <1>3, <1>6 DEF RequestTyped, Underway
<1>8. Moves(mpd, Lost', r, t)
  BY <1>6 DEF Moves, Underway
<1> QED BY <1>2, <1>4, <1>5, <1>7, <1>8 DEF SlotMoves, r

LEMMA StepMoves ==
    ASSUME TypedInv, NEW f \in Slots,
           \/ NextBase(f) \/ Responds(f) \/ Aborts(f) \/ Transient(f) \/ Unanswered(f)
           \/ Refused(f) \/ Retry(f) \/ ReadBody(f)
    PROVE  SlotMoves(f)
<1> DEFINE r == fetch[f]
<1>1. /\ r \in Requests /\ RequestTyped(mpd, r) /\ mpd \in Presentations
      /\ blacklist \subseteq Urls /\ spent \subseteq Urls
      /\ fetch \in [Slots -> Requests]
  BY DEF TypedInv
<1>2. r.attempt \in Nat /\ r.base \in Nat /\ mpd.bases \in Nat
  BY <1>1, MpdFacts DEF Requests
<1>3. r.at \in Underway
  BY DEF NextBase, Responds, Aborts, Transient, Unanswered, Refused, Retry, ReadBody, Underway
<1>4. r.at \in {"inflight", "sleep", "body"} => r.base <= mpd.bases /\ Url(f) \in Urls
  BY <1>1, <1>3, UrlFacts DEF RequestTyped
<1>5. Limit(f) = LimitIn(mpd, r.what) /\ Limit(f) \in Nat /\ Limit(f) >= 1 /\ r.attempt <= Limit(f)
  BY <1>1, <1>3, UrlFacts, LimitIsPositive DEF RequestTyped
<1>a. UrlsOf(ResourceOf(f)) \subseteq Urls
  BY <1>3, UrlFacts
<1>6. CASE NextBase(f)
  <2>1. /\ r.at = "base" /\ UNCHANGED <<mpd, cancel, blacklist, session, stream, spent>>
    BY <1>6 DEF NextBase
  <2>2. CASE r.base > mpd.bases
    BY <1>1, <1>3, <1>6, <2>1, <2>2, EndMoves DEF NextBase
  <2>3. CASE ~(r.base > mpd.bases) /\ Cancelled(f)
    BY <1>1, <1>3, <1>6, <2>1, <2>3, EndMoves DEF NextBase
  <2>4. CASE ~(r.base > mpd.bases) /\ ~Cancelled(f) /\ Url(f) \in blacklist
    <3>1. Failover(f) /\ r.base <= mpd.bases /\ Url(f) \in Lost'
      BY <1>2, <1>6, <2>1, <2>4 DEF NextBase, Lost
    <3> QED BY <1>1, <1>3, <2>1, <3>1, FailoverMoves
  <2>5. CASE ~(r.base > mpd.bases) /\ ~Cancelled(f) /\ Url(f) \notin blacklist
    <3> DEFINE n == r.attempt + 1
    <3>1. r.attempt = 0
      BY <1>1, <2>1 DEF RequestTyped
    <3>2. n \in Nat /\ n <= Limit(f) /\ r.base <= mpd.bases
      BY <1>2, <1>5, <2>5, <3>1
    <3>3. fetch' = [fetch EXCEPT ![f] = [@ EXCEPT !.at = "inflight", !.attempt = n]]
      BY <1>1, <1>6, <2>5 DEF NextBase, Ask
    <3> HIDE DEF n
    <3> QED BY <1>3, <2>1, <3>2, <3>3, GoesMoves
  <2> QED BY <2>2, <2>3, <2>4, <2>5
<1>7. CASE Responds(f)
  <2>1. /\ r.at = "inflight" /\ UNCHANGED <<mpd, cancel, blacklist, session, stream, spent>>
    BY <1>7 DEF Responds
  <2>2. CASE Goes(f, "body")
    <3>1. fetch' = [fetch EXCEPT ![f] = [@ EXCEPT !.at = "body", !.attempt = r.attempt]]
      BY <1>1, <2>2 DEF Goes, Requests
    <3> QED BY <1>2, <1>3, <1>4, <1>5, <2>1, <3>1, GoesMoves
  <2>3. CASE End(f, "ok")
    BY <1>1, <1>3, <2>1, <2>3, EndMoves
  <2> QED BY <1>7, <2>2, <2>3 DEF Responds
<1>8. CASE Aborts(f)
  BY <1>1, <1>3, <1>8, EndMoves DEF Aborts
<1>9. CASE Transient(f)
  <2>1. /\ r.at = "inflight" /\ r.attempt < Limit(f) /\ Goes(f, "sleep")
        /\ UNCHANGED <<mpd, cancel, blacklist, session, stream, spent>>
    BY <1>9 DEF Transient
  <2>2. fetch' = [fetch EXCEPT ![f] = [@ EXCEPT !.at = "sleep", !.attempt = r.attempt]]
    BY <1>1, <2>1 DEF Goes, Requests
  <2> QED BY <1>2, <1>3, <1>4, <1>5, <2>1, <2>2, GoesMoves
<1>10. CASE Unanswered(f) \/ Refused(f)
  <2>1. /\ r.at = "inflight" /\ Failover(f) /\ spent' = spent \cup {Url(f)}
        /\ blacklist' \in {blacklist, blacklist \cup {Url(f)}}
        /\ UNCHANGED <<mpd, cancel, session, stream>>
    BY <1>10 DEF Unanswered, Refused
  <2>2. Url(f) \in Lost'
    BY <2>1 DEF Lost
  <2>3. spent' \subseteq Urls /\ blacklist' \subseteq Urls
    BY <1>1, <1>4, <2>1
  <2> QED BY <1>3, <1>4, <2>1, <2>2, <2>3, FailoverMoves
<1>11. CASE Retry(f)
  <2> DEFINE n == r.attempt + 1
  <2>1. /\ r.at = "sleep" /\ UNCHANGED <<mpd, cancel, blacklist, session, stream, spent>>
    BY <1>11 DEF Retry
  <2>2. r.attempt < Limit(f)
    BY <1>1, <1>5, <2>1 DEF RequestTyped
  <2>3. n \in Nat /\ n <= Limit(f)
    BY <1>2, <1>5, <2>2
  <2>4. fetch' = [fetch EXCEPT ![f] = [@ EXCEPT !.at = "inflight", !.attempt = n]]
    BY <1>1, <1>11 DEF Retry, Ask
  <2> HIDE DEF n
  <2> QED BY <1>3, <1>4, <2>1, <2>3, <2>4, GoesMoves
<1>12. CASE ReadBody(f)
  <2>1. r.at = "body" /\ UNCHANGED <<mpd, cancel, blacklist, session, stream>>
    BY <1>12 DEF ReadBody
  <2>2. CASE End(f, "ok") /\ UNCHANGED spent
    BY <1>1, <1>3, <2>1, <2>2, EndMoves
  <2>3. CASE End(f, "failed") /\ spent' = spent \cup UrlsOf(ResourceOf(f))
    BY <1>1, <1>3, <1>a, <2>1, <2>3, EndMoves DEF Lost
  <2>4. CASE Failover(f) /\ spent' = spent \cup {Url(f)}
    BY <1>1, <1>3, <1>4, <2>1, <2>4, FailoverMoves DEF Lost
  <2> QED BY <1>12, <2>2, <2>3, <2>4 DEF ReadBody
<1> QED BY <1>6, <1>7, <1>8, <1>9, <1>10, <1>11, <1>12

(* ------------------------- The slots of a batch ------------------------ *)

SupplyInv == FetchInv /\ TypedInv /\ ServedInv

LEMMA AllServed ==
    ASSUME NEW m, NEW lost, NEW more, NEW fs, NEW gs, NEW s \in Streams,
           Working(s) => s.item \in 1 .. Len(s.batch), Len(s.batch) <= MaxParallel,
           \A f \in Slots : \A what, i : Serves(m, lost, fs[f], what, i) => Serves(m, more, gs[f], what, i),
           Served(m, lost, fs, s)
    PROVE  Served(m, more, gs, s)
<1>1. /\ MaxParallel \in Nat /\ 1 \in Slots /\ Len(s.batch) \in Nat
  BY FetchAssumption DEF Slots, Streams
<1>2. \A k \in 1 .. Len(s.batch) : k \in Slots
  BY <1>1 DEF Slots
<1> QED BY <1>1, <1>2 DEF Served

LEMMA IdleIsServed ==
    ASSUME NEW m, NEW lost, NEW fs, NEW s, ~Working(s)
    PROVE  Served(m, lost, fs, s)
BY DEF Served, Working

(* An item that is prepared, or fetched on its own, leaves the downloads   *)
(* of the items after it alone.                                            *)
LEMMA OwnIsServed ==
    ASSUME NEW m, NEW lost, NEW more, NEW fs, NEW gs, NEW s \in Streams, NEW t \in Streams,
           lost \subseteq more, Served(m, lost, fs, s),
           s.item \in 1 .. Len(s.batch), t.item = s.item, Len(t.batch) = Len(s.batch),
           t.at \in {"item", "init", "inited", "index", "extended", "ready", "media"},
           t.task \in {"fallback", "chunks"}
               => s.at = "use" \/ (Working(s) /\ s.task \in {"fallback", "chunks"}),
           \A k \in 1 .. Len(s.batch) :
               k > s.item => gs[k] = fs[k] /\ t.batch[k] = s.batch[k],
           t.at = "init" => Serves(m, more, gs[1], "init", t.batch[t.item]),
           t.at \in {"index", "extended"} => Serves(m, more, gs[1], "index", t.batch[t.item]),
           t.at = "media" => Serves(m, more, gs[1], "media", t.batch[t.item])
    PROVE  Served(m, more, gs, t)
<1>1. ASSUME NEW k \in 1 .. Len(t.batch), t.task \in {"fallback", "chunks"}, k > t.item
      PROVE  Serves(m, more, gs[k], "media", t.batch[k])
  <2>1. k \in 1 .. Len(s.batch) /\ k > s.item /\ k >= s.item
    BY <1>1 DEF Streams
  <2>2. Serves(m, lost, fs[k], "media", s.batch[k])
    BY <1>1, <2>1 DEF Served
  <2>3. Serves(m, more, fs[k], "media", s.batch[k])
    BY <2>2, ServesStill
  <2> QED BY <2>1, <2>3
<1>2. t.at # "download" /\ t.at # "use"
  OBVIOUS
<1> QED BY <1>1, <1>2 DEF Served

(* Items are typed as long as a batch and its task are.                    *)
LEMMA SameBatchIsTyped ==
    ASSUME NEW m, NEW s, NEW t, StreamTyped(m, s),
           t.batch = s.batch, t.next = s.next, t.task = s.task,
           t.inits \cup t.indexes \cup t.signaled \subseteq 0 .. m.top,
           t.at \in {"index", "extended", "download", "media", "use"} => t.task # "first"
    PROVE  StreamTyped(m, t)
BY DEF StreamTyped

LEMMA NoBatchIsTyped ==
    ASSUME NEW m, NEW t, t.batch = <<>>, t.next <= m.last + 1,
           t.inits \cup t.indexes \cup t.signaled \subseteq 0 .. m.top,
           ~Working(t)
    PROVE  StreamTyped(m, t)
<1>1. Len(t.batch) = 0 /\ 0 <= MaxParallel
  BY NoItems, FetchAssumption
<1>2. \A k \in 1 .. Len(t.batch) : ItemTyped(m, t.task, t.batch[k])
  BY <1>1
<1> QED BY <1>1, <1>2 DEF StreamTyped, Working

\* The item at hand.
LEMMA ItemFacts ==
    ASSUME SupplyInv, Working(stream)
    PROVE  /\ stream \in Streams /\ mpd \in Presentations /\ cancel \in Nat
           /\ stream.item \in 1 .. Len(stream.batch) /\ stream.item \in Nat
           /\ Len(stream.batch) \in Nat /\ Len(stream.batch) <= MaxParallel
           /\ Item \in Items /\ Item.quality \in 0 .. mpd.top /\ Item.seg \in Nat
           /\ ItemTyped(mpd, stream.task, Item)
           /\ Exists(mpd, "init", Item.seg, Item.quality)
           /\ Exists(mpd, "index", Item.seg, Item.quality)
           /\ stream.task # "first" => Exists(mpd, "media", Item.seg, Item.quality)
           /\ UrlsOf(InitResource) \subseteq Urls
           /\ UrlsOf(Resource("index", 0, Item.quality)) \subseteq Urls
           /\ 1 \in Slots /\ \A k \in 1 .. Len(stream.batch) : k \in Slots
<1>1. stream \in Streams /\ mpd \in Presentations /\ cancel \in Nat
  BY DEF SupplyInv, FetchInv, TypedInv
<1>2. stream.item \in 1 .. Len(stream.batch)
  BY DEF SupplyInv, FetchInv, Announced
<1>3. /\ stream.item \in Nat /\ Len(stream.batch) \in Nat /\ Len(stream.batch) <= MaxParallel
  BY <1>1 DEF Streams, SupplyInv, TypedInv, StreamTyped
<1>4. Item \in Items /\ Item.quality \in Nat
  BY <1>1, <1>2, ItemIsAnItem
<1>5. ItemTyped(mpd, stream.task, Item)
  BY <1>2 DEF SupplyInv, TypedInv, StreamTyped, Item
<1>6. Item.seg \in Nat /\ Item.quality \in 0 .. mpd.top
  BY <1>1, <1>4, <1>5, MpdFacts DEF Items, ItemTyped
<1>7. /\ Exists(mpd, "init", Item.seg, Item.quality) /\ Exists(mpd, "index", Item.seg, Item.quality)
      /\ Exists(mpd, "init", 0, Item.quality) /\ Exists(mpd, "index", 0, Item.quality)
      /\ stream.task # "first" => Exists(mpd, "media", Item.seg, Item.quality)
  BY <1>1, <1>5, <1>6, MpdFacts DEF Exists, ItemTyped
<1>8. /\ UrlsOf(InitResource) \subseteq Urls
      /\ UrlsOf(Resource("index", 0, Item.quality)) \subseteq Urls
  BY <1>1, <1>4, <1>7, UrlsExist, SameResource DEF InitResource, Whats
<1>9. 1 \in Slots /\ \A k \in 1 .. Len(stream.batch) : k \in Slots
  BY <1>3, FetchAssumption DEF Slots
<1> QED BY <1>1, <1>2, <1>3, <1>4, <1>5, <1>6, <1>7, <1>8, <1>9

LEMMA SlotMovesKeepSupply ==
    ASSUME SupplyInv, NEW f \in Slots, SlotMoves(f)
    PROVE  TypedInv' /\ ServedInv'
<1>1. PICK t \in Requests :
          fetch' = [fetch EXCEPT ![f] = t] /\ RequestTyped(mpd, t) /\ Moves(mpd, Lost', fetch[f], t)
  BY DEF SlotMoves
<1>2. /\ fetch[f].at \in Underway /\ UNCHANGED <<mpd, cancel, session, stream>>
      /\ blacklist' \subseteq Urls /\ spent' \subseteq Urls /\ Lost \subseteq Lost'
  BY DEF SlotMoves, Lost
<1>3. /\ fetch \in [Slots -> Requests] /\ mpd \in Presentations /\ cancel \in Nat
      /\ \A g \in Slots : RequestTyped(mpd, fetch[g])
      /\ StreamTyped(mpd, stream) /\ stream \in Streams
  BY DEF SupplyInv, TypedInv, FetchInv
<1>4. Urls' = Urls
  BY <1>2 DEF Urls, Resources, Qualities
<1>5. fetch' \in [Slots -> Requests] /\ \A g \in Slots : RequestTyped(mpd, fetch'[g])
  BY <1>1, <1>3
<1>6. TypedInv'
  BY <1>2, <1>3, <1>4, <1>5 DEF TypedInv, Slots
<1>7. ASSUME NEW g \in Slots, NEW what, NEW i, Serves(mpd, Lost, fetch[g], what, i)
      PROVE  Serves(mpd, Lost', fetch'[g], what, i)
  <2>1. CASE g = f
    <3>1. fetch'[g] = t /\ fetch[g] = fetch[f]
      BY <1>1, <1>3, <2>1
    <3> QED BY <1>1, <1>2, <1>3, <1>7, <3>1, MovesServe
  <2>2. CASE g # f
    <3>1. fetch'[g] = fetch[g]
      BY <1>1, <1>3, <2>2
    <3> QED BY <1>2, <1>7, <3>1, ServesStill
  <2> QED BY <2>1, <2>2
<1>8. Served(mpd, Lost', fetch', stream)
  <2>1. Working(stream) => stream.item \in 1 .. Len(stream.batch)
    BY DEF SupplyInv, FetchInv, Announced
  <2>2. Len(stream.batch) <= MaxParallel /\ Served(mpd, Lost, fetch, stream)
    BY DEF SupplyInv, TypedInv, StreamTyped, ServedInv
  <2> QED BY <1>3, <1>7, <2>1, <2>2, AllServed
<1> QED BY <1>2, <1>6, <1>8 DEF ServedInv

LEMMA FetchStepKeepsSupply ==
    ASSUME SupplyInv, FetchStep
    PROVE  TypedInv' /\ ServedInv'
<1>1. PICK f \in Slots :
          \/ NextBase(f) \/ Responds(f) \/ Aborts(f) \/ Transient(f) \/ Unanswered(f)
          \/ Refused(f) \/ Retry(f) \/ ReadBody(f)
  BY DEF FetchStep
<1> QED BY <1>1, StepMoves, SlotMovesKeepSupply DEF SupplyInv

(* ------------------------- The stream around them ---------------------- *)

(* From one phase of an item to the next, with or without a request.       *)
LEMMA MoveKeepsSupply ==
    ASSUME SupplyInv, Working(stream), stream' \in Streams,
           stream'.batch = stream.batch, stream'.item = stream.item,
           stream'.task = stream.task, stream'.next = stream.next,
           stream'.inits \subseteq stream.inits \cup {Item.quality},
           stream'.indexes \subseteq stream.indexes \cup {Item.quality},
           stream'.signaled \subseteq stream.signaled \cup {Item.quality},
           UNCHANGED <<mpd, cancel, blacklist, spent>>,
           NEW what \in Whats,
           \/ stream'.at \in {"inited", "ready"} /\ fetch' = fetch
           \/ /\ stream'.at \in {"init", "index", "extended", "media"}
              /\ fetch' = [fetch EXCEPT ![1] = Request(what, Item)]
              /\ stream'.at = "init" <=> what = "init"
              /\ stream'.at \in {"index", "extended"} <=> what = "index"
              /\ what # "init" => stream.task # "first"
    PROVE  TypedInv' /\ ServedInv'
<1> DEFINE r == Request(what, Item)
<1>1. /\ mpd \in Presentations /\ cancel \in Nat /\ StreamTyped(mpd, stream)
      /\ blacklist \subseteq Urls /\ spent \subseteq Urls
      /\ fetch \in [Slots -> Requests] /\ \A f \in Slots : RequestTyped(mpd, fetch[f])
  BY DEF SupplyInv, TypedInv
<1>2. /\ stream.item \in 1 .. Len(stream.batch) /\ stream.item \in Nat /\ 1 \in Slots
      /\ Len(stream.batch) \in Nat /\ stream \in Streams
      /\ \A k \in 1 .. Len(stream.batch) : k \in Slots
      /\ Item \in Items /\ Item.quality \in 0 .. mpd.top
  BY ItemFacts
<1>3. Urls' = Urls /\ Lost' = Lost
  BY DEF Urls, Resources, Qualities, Lost
<1>4. CASE stream'.at \in {"inited", "ready"} /\ fetch' = fetch
  <2>1. StreamTyped(mpd, stream')
    <3>1. stream'.inits \cup stream'.indexes \cup stream'.signaled \subseteq 0 .. mpd.top
      BY <1>1, <1>2 DEF StreamTyped
    <3> QED BY <1>1, <1>4, <3>1, SameBatchIsTyped
  <2>2. TypedInv'
    BY <1>1, <1>3, <1>4, <2>1 DEF TypedInv, Slots
  <2>3. Served(mpd, Lost, fetch, stream)
    BY DEF SupplyInv, ServedInv
  <2>4. Served(mpd, Lost, fetch', stream')
    BY <1>2, <1>4, <2>3, OwnIsServed
  <2> QED BY <1>3, <2>2, <2>4 DEF ServedInv
<1>5. CASE /\ stream'.at \in {"init", "index", "extended", "media"}
           /\ fetch' = [fetch EXCEPT ![1] = r]
           /\ stream'.at = "init" <=> what = "init"
           /\ stream'.at \in {"index", "extended"} <=> what = "index"
           /\ what # "init" => stream.task # "first"
  <2>1. Exists(mpd, what, Item.seg, Item.quality)
    BY <1>5, ItemFacts DEF Whats
  <2>2. r \in Requests /\ RequestTyped(mpd, r) /\ Serves(mpd, Lost, r, what, Item)
    BY <1>1, <1>2, <2>1, NewRequest
  <2> HIDE DEF r
  <2>3. fetch' \in [Slots -> Requests] /\ \A f \in Slots : RequestTyped(mpd, fetch'[f])
    BY <1>1, <1>5, <2>2
  <2>4. StreamTyped(mpd, stream')
    <3>1. stream'.inits \cup stream'.indexes \cup stream'.signaled \subseteq 0 .. mpd.top
      BY <1>1, <1>2 DEF StreamTyped
    <3>2. stream'.at \in {"index", "extended", "download", "media", "use"} => stream'.task # "first"
      BY <1>5
    <3> QED BY <1>1, <3>1, <3>2, SameBatchIsTyped
  <2>5. TypedInv'
    BY <1>1, <1>3, <2>3, <2>4 DEF TypedInv, Slots
  <2>6. Served(mpd, Lost, fetch, stream)
    BY DEF SupplyInv, ServedInv
  <2>7. \A k \in 1 .. Len(stream.batch) :
            k > stream.item => fetch'[k] = fetch[k] /\ stream'.batch[k] = stream.batch[k]
    <3>1. ASSUME NEW k \in 1 .. Len(stream.batch), k > stream.item PROVE k # 1 /\ k \in Slots
      BY <1>2, <3>1
    <3> QED BY <1>1, <1>5, <3>1
  <2>8. Serves(mpd, Lost, fetch'[1], what, stream'.batch[stream'.item])
    <3>1. fetch'[1] = r /\ stream'.batch[stream'.item] = Item
      BY <1>1, <1>2, <1>5 DEF Item
    <3> QED BY <2>2, <3>1
  <2>9. /\ stream'.at = "init" => what = "init"
        /\ stream'.at \in {"index", "extended"} => what = "index"
        /\ stream'.at = "media" => what = "media"
    BY <1>5 DEF Whats
  <2>10. /\ stream'.at \in {"item", "init", "inited", "index", "extended", "ready", "media"}
         /\ Len(stream'.batch) = Len(stream.batch)
    BY <1>5
  <2>11. Served(mpd, Lost, fetch', stream')
    BY <1>2, <2>6, <2>7, <2>8, <2>9, <2>10, OwnIsServed
  <2> QED BY <1>3, <2>5, <2>11 DEF ServedInv
<1> QED BY <1>4, <1>5

(* The stream goes somewhere else, and sends nothing.                      *)
LEMMA QuietKeepsTyped ==
    ASSUME SupplyInv, stream' \in Streams, StreamTyped(mpd, stream'),
           UNCHANGED <<mpd, cancel, blacklist, fetch>>, spent' \subseteq Urls
    PROVE  TypedInv'
<1>1. Urls' = Urls
  BY DEF Urls, Resources, Qualities
<1> QED BY <1>1 DEF SupplyInv, TypedInv, Slots

(* An item falls to the next lower quality, or the session fails.          *)
LowersTo(s, task) ==
    \/ /\ Item.quality > 0
       /\ stream' = [s EXCEPT !.at = "item", !.task = task, !.batch[s.item].quality = @ - 1]
    \/ stream' = [s EXCEPT !.at = "over"]

LEMMA LowerKeepsSupply ==
    ASSUME SupplyInv, Working(stream), stream' \in Streams, NEW s \in Streams,
           s.batch = stream.batch, s.item = stream.item, s.next = stream.next,
           s.task = stream.task,
           s.inits \subseteq stream.inits \cup {Item.quality},
           s.indexes = stream.indexes,
           s.signaled \subseteq stream.signaled \cup {Item.quality},
           UNCHANGED <<mpd, cancel, blacklist, fetch>>,
           spent \subseteq spent', spent' \subseteq Urls,
           NEW task \in Tasks, LowersTo(s, task),
           stream.task = "first" => task = "first",
           task \in {"fallback", "chunks"}
               => stream.at = "use" \/ stream.task \in {"fallback", "chunks"}
    PROVE  TypedInv' /\ ServedInv'
<1>1. /\ stream.item \in 1 .. Len(stream.batch) /\ stream.item \in Nat
      /\ Len(stream.batch) \in Nat /\ stream \in Streams /\ mpd \in Presentations
      /\ Item \in Items /\ Item.quality \in 0 .. mpd.top
      /\ stream.batch[stream.item] = Item
  BY ItemFacts DEF Item
<1>2. /\ StreamTyped(mpd, stream) /\ Served(mpd, Lost, fetch, stream)
  BY DEF SupplyInv, TypedInv, ServedInv
<1>3. s.inits \cup s.indexes \cup s.signaled \subseteq 0 .. mpd.top
  BY <1>1, <1>2 DEF StreamTyped
<1>4. Lost \subseteq Lost'
  BY DEF Lost
<1>5. CASE stream' = [s EXCEPT !.at = "over"]
  <2>1. /\ stream'.at = "over" /\ stream'.batch = s.batch /\ stream'.next = s.next
        /\ stream'.task = s.task /\ stream'.inits = s.inits /\ stream'.indexes = s.indexes
        /\ stream'.signaled = s.signaled
    BY <1>5 DEF Streams
  <2>2. StreamTyped(mpd, stream')
    BY <1>2, <1>3, <2>1, SameBatchIsTyped
  <2>3. ~Working(stream')
    BY <2>1 DEF Working
  <2> QED BY <2>2, <2>3, QuietKeepsTyped, IdleIsServed DEF ServedInv
<1>6. CASE /\ Item.quality > 0
           /\ stream' = [s EXCEPT !.at = "item", !.task = task, !.batch[s.item].quality = @ - 1]
  <2> DEFINE e == [Item EXCEPT !.quality = @ - 1]
             b == [stream.batch EXCEPT ![stream.item] = e]
  <2>1. e \in Items /\ e.quality <= mpd.top /\ e.seg = Item.seg
    <3>1. e \in Items
      BY <1>1, <1>6, LowerItem
    <3>2. e.quality = Item.quality - 1 /\ e.seg = Item.seg
      BY <1>1 DEF Items
    <3> QED BY <1>1, <3>1, <3>2, MpdFacts
  <2>2. stream' = [s EXCEPT !.at = "item", !.task = task, !.batch = b]
    BY <1>1, <1>6 DEF Streams
  <2> HIDE DEF e
  <2>3. /\ b \in Seq(Items) /\ Len(b) = Len(stream.batch)
        /\ \A k \in 1 .. Len(b) : b[k] = IF k = stream.item THEN e ELSE stream.batch[k]
    <3>1. stream.batch \in Seq(Items)
      BY <1>1 DEF Streams
    <3> QED BY <1>1, <2>1, <3>1, ExceptSeq
  <2> HIDE DEF b
  <2>4. /\ stream'.at = "item" /\ stream'.task = task /\ stream'.batch = b
        /\ stream'.item = stream.item /\ stream'.next = stream.next
        /\ stream'.inits = s.inits /\ stream'.indexes = s.indexes
        /\ stream'.signaled = s.signaled
    BY <2>2 DEF Streams
  <2>5. \A k \in 1 .. Len(b) : ItemTyped(mpd, task, b[k])
    <3>1. ASSUME NEW k \in 1 .. Len(b) PROVE ItemTyped(mpd, task, b[k])
      <4>1. ItemTyped(mpd, stream.task, stream.batch[k])
        BY <1>2, <2>3 DEF StreamTyped
      <4>2. CASE k = stream.item
        <5>1. b[k] = e /\ stream.batch[k] = Item
          BY <1>1, <2>3, <4>2
        <5> QED BY <2>1, <4>1, <5>1 DEF ItemTyped
      <4>3. CASE k # stream.item
        BY <2>3, <4>1, <4>3 DEF ItemTyped
      <4> QED BY <4>2, <4>3
    <3> QED BY <3>1
  <2>6. StreamTyped(mpd, stream')
    BY <1>2, <1>3, <2>3, <2>4, <2>5 DEF StreamTyped
  <2>7. \A k \in 1 .. Len(stream.batch) :
            k > stream.item => fetch'[k] = fetch[k] /\ stream'.batch[k] = stream.batch[k]
    <3>1. ASSUME NEW k \in 1 .. Len(stream.batch), k > stream.item PROVE k # stream.item
      BY <1>1, <3>1
    <3> QED BY <2>3, <2>4, <3>1
  <2>8. /\ Served(mpd, Lost, fetch, stream) /\ Len(stream'.batch) = Len(stream.batch)
        /\ stream'.at \in {"item", "init", "inited", "index", "extended", "ready", "media"}
        /\ stream'.at \notin {"init", "index", "extended", "media"}
        /\ stream'.task \in {"fallback", "chunks"}
               => stream.at = "use" \/ (Working(stream) /\ stream.task \in {"fallback", "chunks"})
    <3>1. Served(mpd, Lost, fetch, stream)
      BY <1>2
    <3>2. Len(stream'.batch) = Len(stream.batch) /\ stream'.at = "item" /\ stream'.task = task
      BY <2>3, <2>4
    <3> QED BY <3>1, <3>2
  <2>9. Served(mpd, Lost', fetch, stream')
    <3>1. \A k \in 1 .. Len(stream.batch) :
              k > stream.item => fetch[k] = fetch[k] /\ stream'.batch[k] = stream.batch[k]
      BY <2>7
    <3> QED BY <1>1, <1>4, <2>4, <2>8, <3>1, OwnIsServed
  <2> QED BY <2>6, <2>9, QuietKeepsTyped DEF ServedInv
<1> QED BY <1>5, <1>6 DEF LowersTo

(* The stream is left, starts again, or plans another batch.               *)
LEMMA IdleKeepsSupply ==
    ASSUME SupplyInv, stream' \in Streams, ~Working(stream'), stream'.batch = <<>>,
           stream'.next <= mpd.last + 1,
           stream'.inits \cup stream'.indexes \cup stream'.signaled \subseteq 0 .. mpd.top,
           UNCHANGED <<mpd, cancel, blacklist, fetch, spent>>
    PROVE  TypedInv' /\ ServedInv'
<1>1. StreamTyped(mpd, stream')
  BY NoBatchIsTyped
<1>2. spent' \subseteq Urls
  BY DEF SupplyInv, TypedInv
<1> QED BY <1>1, <1>2, QuietKeepsTyped, IdleIsServed DEF ServedInv

LEMMA FreshFacts ==
    ASSUME NEW at, NEW n
    PROVE  LET s == [Fresh(at) EXCEPT !.next = n] IN
           /\ s.at = at /\ s.task = "first" /\ s.next = n /\ s.batch = <<>> /\ s.item = 1
           /\ s.inits = {} /\ s.indexes = {} /\ s.signaled = {}
BY DEF Fresh

(* Items that are being prepared for the first time are owed nothing.      *)
LEMMA PreparedIsServed ==
    ASSUME NEW m, NEW lost, NEW fs, NEW s, s.at = "item",
           s.task \notin {"fallback", "chunks"} \/ (Len(s.batch) = 1 /\ s.item = 1)
    PROVE  Served(m, lost, fs, s)
<1>1. \A k \in 1 .. 1 : ~(k > 1)
  OBVIOUS
<1> QED BY <1>1 DEF Served

LEMMA StartRunKeepsSupply ==
    ASSUME SupplyInv, StartRun, stream' \in Streams
    PROVE  TypedInv' /\ ServedInv'
<1>1. /\ UNCHANGED <<mpd, cancel, blacklist, fetch, spent>>
      /\ mpd \in Presentations /\ StreamTyped(mpd, stream) /\ spent \subseteq Urls
  BY DEF StartRun, Quiet, SupplyInv, TypedInv
<1>2. CASE session.haveInit
  <2> DEFINE d == [Fresh("plan") EXCEPT !.next = stream.next]
  <2>1. stream' = [d EXCEPT !.suppress = TRUE]
    BY <1>2 DEF StartRun, Fresh
  <2>2. /\ d.at = "plan" /\ d.next = stream.next /\ d.batch = <<>>
        /\ d.inits = {} /\ d.indexes = {} /\ d.signaled = {}
    BY FreshFacts
  <2>3. /\ stream'.at = "plan" /\ stream'.next = stream.next /\ stream'.batch = <<>>
        /\ stream'.inits = {} /\ stream'.indexes = {} /\ stream'.signaled = {}
    BY <2>1, <2>2 DEF Fresh
  <2> HIDE DEF d
  <2> QED BY <1>1, <2>3, IdleKeepsSupply DEF Working, StreamTyped
<1>3. CASE ~session.haveInit
  <2>1. PICK q \in Qualities :
            stream' = [Fresh("item") EXCEPT !.next = stream.next,
                                            !.batch = <<[seg |-> 0, quality |-> q]>>]
    BY <1>3 DEF StartRun
  <2> DEFINE i == [seg |-> 0, quality |-> q]
             b == <<i>>
  <2>2. /\ stream'.at = "item" /\ stream'.task = "first" /\ stream'.next = stream.next
        /\ stream'.batch = b /\ stream'.inits = {} /\ stream'.indexes = {}
        /\ stream'.signaled = {}
    BY <2>1 DEF Fresh
  <2>3. ItemTyped(mpd, "first", i)
    BY <1>1, MpdFacts DEF ItemTyped, Qualities
  <2> HIDE DEF i
  <2>4. Len(b) = 1 /\ \A k \in 1 .. Len(b) : b[k] = i
    OBVIOUS
  <2> HIDE DEF b
  <2>5. 1 <= MaxParallel
    BY FetchAssumption
  <2>6. StreamTyped(mpd, stream')
    BY <1>1, <2>2, <2>3, <2>4, <2>5 DEF StreamTyped
  <2>7. Served(mpd, Lost', fetch', stream')
    BY <2>2, PreparedIsServed
  <2> QED BY <1>1, <2>6, <2>7, QuietKeepsTyped DEF ServedInv
<1> QED BY <1>2, <1>3

LEMMA LeaveRunKeepsSupply ==
    ASSUME SupplyInv, LeaveRun, stream' \in Streams
    PROVE  TypedInv' /\ ServedInv'
<1>1. /\ UNCHANGED <<mpd, cancel, blacklist, fetch, spent>>
      /\ mpd \in Presentations /\ StreamTyped(mpd, stream)
  BY DEF LeaveRun, Quiet, SupplyInv, TypedInv
<1>2. Fresh("start") = [Fresh("start") EXCEPT !.next = 1]
  BY DEF Fresh
<1>3. PICK n \in {1, stream.next} : stream' = [Fresh("start") EXCEPT !.next = n]
  BY <1>2 DEF LeaveRun
<1>4. /\ stream'.at = "start" /\ stream'.next = n /\ stream'.batch = <<>>
      /\ stream'.inits = {} /\ stream'.indexes = {} /\ stream'.signaled = {}
  BY <1>3, FreshFacts
<1>5. n <= mpd.last + 1
  BY <1>1, MpdFacts DEF StreamTyped
<1> QED BY <1>1, <1>4, <1>5, IdleKeepsSupply DEF Working

LEMMA PlanBatchKeepsSupply ==
    ASSUME SupplyInv, PlanBatch, stream' \in Streams
    PROVE  TypedInv' /\ ServedInv'
<1>1. /\ UNCHANGED <<mpd, cancel, blacklist>> /\ spent' = {}
      /\ mpd \in Presentations /\ cancel \in Nat /\ blacklist \subseteq Urls
      /\ StreamTyped(mpd, stream) /\ stream \in Streams
  BY DEF PlanBatch, SupplyInv, TypedInv, FetchInv
<1>2. /\ MaxBatch \in Nat /\ MaxBatch <= MaxParallel /\ MaxParallel \in Nat
      /\ mpd.chunked => MaxBatch = 1
  BY SMTT(30), FetchAssumption DEF MaxBatch
<1>3. PICK n \in 1 .. MaxBatch :
          /\ stream.next + n - 1 <= mpd.last
          /\ \E qs \in [1 .. n -> Qualities] :
                 stream' = [stream EXCEPT
                     !.at = "item", !.item = 1,
                     !.task = IF mpd.chunked THEN "chunks" ELSE "prepare",
                     !.batch = [k \in 1 .. n |-> [seg |-> stream.next + k - 1,
                                                  quality |-> qs[k]]]]
  BY DEF PlanBatch
<1>4. PICK qs \in [1 .. n -> Qualities] :
          stream' = [stream EXCEPT
              !.at = "item", !.item = 1,
              !.task = IF mpd.chunked THEN "chunks" ELSE "prepare",
              !.batch = [k \in 1 .. n |-> [seg |-> stream.next + k - 1, quality |-> qs[k]]]]
  BY <1>3
<1> DEFINE b == [k \in 1 .. n |-> [seg |-> stream.next + k - 1, quality |-> qs[k]]]
           t == IF mpd.chunked THEN "chunks" ELSE "prepare"
<1>5. n \in Nat /\ stream.next \in Nat \ {0} /\ n <= MaxParallel
  <2>1. stream.next \in Nat \ {0}
    BY <1>1 DEF Streams
  <2> QED BY <1>2, <2>1
<1>6. b \in Seq(Items) /\ Len(b) = n
  <2>1. \A k \in 1 .. n : [seg |-> stream.next + k - 1, quality |-> qs[k]] \in Items
    BY <1>5 DEF Items, Qualities
  <2> QED BY <1>5, <2>1
<1>7. \A k \in 1 .. n : ItemTyped(mpd, t, b[k])
  <2>1. ASSUME NEW k \in 1 .. n PROVE ItemTyped(mpd, t, b[k])
    <3>1. b[k].seg = stream.next + k - 1 /\ b[k].quality = qs[k] /\ qs[k] \in 0 .. mpd.top
      BY DEF Qualities
    <3> HIDE DEF b, t
    <3>2. b[k].seg >= 1 /\ b[k].seg <= mpd.last /\ b[k].quality <= mpd.top
      BY <1>1, <1>3, <1>5, <3>1, MpdFacts
    <3> QED BY <3>2 DEF ItemTyped
  <2> QED BY <2>1
<1>8. t # "first" /\ (t = "chunks" => n = 1) /\ t \in {"prepare", "chunks"}
  BY <1>2
<1>9. stream' = [stream EXCEPT !.at = "item", !.item = 1, !.task = t, !.batch = b]
  BY <1>4
<1> HIDE DEF b, t
<1>10. /\ stream'.at = "item" /\ stream'.task = t /\ stream'.batch = b /\ stream'.item = 1
       /\ stream'.next = stream.next /\ stream'.inits = stream.inits
       /\ stream'.indexes = stream.indexes /\ stream'.signaled = stream.signaled
  BY <1>1, <1>9 DEF Streams
<1>11. StreamTyped(mpd, stream')
  BY <1>1, <1>5, <1>6, <1>7, <1>8, <1>10 DEF StreamTyped
<1>12. fetch' \in [Slots -> Requests] /\ \A f \in Slots : RequestTyped(mpd, fetch'[f])
  <2>1. Off \in Requests /\ RequestTyped(mpd, Off)
    <3>1. Off = [Off EXCEPT !.at = "off"]
      BY DEF Off
    <3> QED BY <1>1, <3>1, EndedRequest
  <2>2. fetch' = [f \in Slots |-> Off]
    BY DEF PlanBatch
  <2> QED BY <2>1, <2>2
<1>13. TypedInv'
  <2>1. Urls' = Urls
    BY <1>1 DEF Urls, Resources, Qualities
  <2> QED BY <1>1, <1>11, <1>12, <2>1 DEF TypedInv, Slots
<1>14. Served(mpd, Lost', fetch', stream')
  BY <1>6, <1>8, <1>10, PreparedIsServed
<1> QED BY <1>1, <1>13, <1>14 DEF ServedInv

\* What take_emit does to the stream.
LEMMA SignalledFacts ==
    ASSUME stream \in Streams
    PROVE  /\ Signalled(stream).inits = stream.inits \cup {Item.quality}
           /\ Signalled(stream).signaled = stream.signaled \cup {Item.quality}
           /\ Signalled(stream).indexes = stream.indexes
           /\ Signalled(stream).batch = stream.batch
           /\ Signalled(stream).item = stream.item
           /\ Signalled(stream).task = stream.task
           /\ Signalled(stream).next = stream.next
           /\ Signalled(stream).at = stream.at
<1> DEFINE i == stream.inits \cup {Item.quality}
           g == stream.signaled \cup {Item.quality}
           u == stream.suppress /\ ~TakesEmit
<1>1. Signalled(stream) = [stream EXCEPT !.inits = i, !.signaled = g, !.suppress = u]
  BY DEF Signalled
<1> HIDE DEF i, g, u
<1>2. /\ Signalled(stream).inits = i /\ Signalled(stream).signaled = g
      /\ Signalled(stream).indexes = stream.indexes
      /\ Signalled(stream).batch = stream.batch /\ Signalled(stream).item = stream.item
      /\ Signalled(stream).task = stream.task /\ Signalled(stream).next = stream.next
      /\ Signalled(stream).at = stream.at
  BY <1>1 DEF Streams
<1> QED BY <1>2 DEF i, g

LEMMA SignalInitKeepsSupply ==
    ASSUME SupplyInv, Working(stream), SignalInit, stream' \in Streams,
           UNCHANGED <<mpd, cancel, blacklist, fetch, spent>>
    PROVE  TypedInv' /\ ServedInv'
<1> DEFINE s == Signalled(stream)
<1>1. stream \in Streams
  BY ItemFacts
<1>2. stream' = [s EXCEPT !.at = "inited"] /\ s \in Streams
  BY <1>1, ItemFacts, SignalledIsAStream DEF SignalInit, Items
<1> HIDE DEF s
<1>3. /\ stream'.at = "inited" /\ stream'.batch = s.batch /\ stream'.item = s.item
      /\ stream'.task = s.task /\ stream'.next = s.next /\ stream'.inits = s.inits
      /\ stream'.indexes = s.indexes /\ stream'.signaled = s.signaled
  BY <1>2 DEF Streams
<1>4. /\ s.batch = stream.batch /\ s.item = stream.item /\ s.task = stream.task
      /\ s.next = stream.next /\ s.inits = stream.inits \cup {Item.quality}
      /\ s.indexes = stream.indexes /\ s.signaled = stream.signaled \cup {Item.quality}
  BY <1>1, SignalledFacts DEF s
<1>5. "init" \in Whats
  BY DEF Whats
<1> QED BY <1>3, <1>4, <1>5, MoveKeepsSupply

LEMMA GotoFacts ==
    ASSUME stream \in Streams, NEW at, Goto(at)
    PROVE  /\ stream'.at = at /\ stream'.batch = stream.batch /\ stream'.item = stream.item
           /\ stream'.task = stream.task /\ stream'.next = stream.next
           /\ stream'.inits = stream.inits /\ stream'.indexes = stream.indexes
           /\ stream'.signaled = stream.signaled
BY DEF Goto, Streams

LEMMA BeginKeepsSupply ==
    ASSUME SupplyInv, Working(stream), NEW what \in Whats, NEW at, Begin(what, at),
           stream' \in Streams,
           <<what, at>> \in {<<"init", "init">>, <<"index", "index">>, <<"index", "extended">>},
           what # "init" => stream.task # "first"
    PROVE  TypedInv' /\ ServedInv'
<1>1. stream \in Streams
  BY ItemFacts
<1>2. /\ stream'.at = at /\ stream'.batch = stream.batch /\ stream'.item = stream.item
      /\ stream'.task = stream.task /\ stream'.next = stream.next
      /\ stream'.inits = stream.inits /\ stream'.indexes = stream.indexes
      /\ stream'.signaled = stream.signaled
  BY <1>1, GotoFacts DEF Begin
<1>3. /\ fetch' = [fetch EXCEPT ![1] = Request(what, Item)]
      /\ UNCHANGED <<mpd, cancel, blacklist, spent>>
  BY DEF Begin
<1>4. /\ at \in {"init", "index", "extended", "media"}
      /\ at = "init" <=> what = "init"
      /\ at \in {"index", "extended"} <=> what = "index"
  OBVIOUS
<1> QED BY <1>2, <1>3, <1>4, MoveKeepsSupply

LEMMA EnsureInitKeepsSupply ==
    ASSUME SupplyInv, EnsureInit, stream' \in Streams
    PROVE  TypedInv' /\ ServedInv'
<1>1. Working(stream)
  BY DEF EnsureInit, Working
<1>2. CASE Item.quality \notin stream.inits
  <2>1. Begin("init", "init")
    BY <1>2 DEF EnsureInit
  <2> QED BY <1>1, <2>1, BeginKeepsSupply DEF Whats
<1>3. CASE Item.quality \in stream.inits
  <2>1. SignalInit /\ UNCHANGED <<mpd, cancel, blacklist, fetch, spent>>
    BY <1>3 DEF EnsureInit, Quiet
  <2> QED BY <1>1, <2>1, SignalInitKeepsSupply
<1> QED BY <1>2, <1>3

LEMMA InitArrivesKeepsSupply ==
    ASSUME SupplyInv, InitArrives, stream' \in Streams
    PROVE  TypedInv' /\ ServedInv'
<1>1. Working(stream) /\ SignalInit /\ UNCHANGED <<mpd, cancel, blacklist, fetch, spent>>
  BY DEF InitArrives, Working, Quiet
<1> QED BY <1>1, SignalInitKeepsSupply

LEMMA EnsureIndexKeepsSupply ==
    ASSUME SupplyInv, EnsureIndex, stream' \in Streams
    PROVE  TypedInv' /\ ServedInv'
<1>1. Working(stream)
  BY DEF EnsureIndex, Working
<1>2. CASE Begin("index", "index") /\ stream.task # "first"
  BY <1>1, <1>2, BeginKeepsSupply DEF Whats
<1>3. CASE Goto("ready") /\ Quiet /\ UNCHANGED <<session, spent>>
  <2>1. stream \in Streams
    BY <1>1, ItemFacts
  <2>2. /\ stream'.at = "ready" /\ stream'.batch = stream.batch /\ stream'.item = stream.item
        /\ stream'.task = stream.task /\ stream'.next = stream.next
        /\ stream'.inits = stream.inits /\ stream'.indexes = stream.indexes
        /\ stream'.signaled = stream.signaled
    BY <1>3, <2>1, GotoFacts
  <2>3. UNCHANGED <<mpd, cancel, blacklist, fetch, spent>> /\ "index" \in Whats
    BY <1>3 DEF Quiet, Whats
  <2> QED BY <1>1, <2>2, <2>3, MoveKeepsSupply
<1> QED BY <1>2, <1>3 DEF EnsureIndex

LEMMA IndexContinuesKeepsSupply ==
    ASSUME SupplyInv, IndexContinues, stream' \in Streams
    PROVE  TypedInv' /\ ServedInv'
<1>1. Working(stream) /\ Begin("index", "extended") /\ stream.at = "index"
  BY DEF IndexContinues, Working
<1>2. stream.task # "first"
  BY <1>1 DEF SupplyInv, TypedInv, StreamTyped
<1> QED BY <1>1, <1>2, BeginKeepsSupply DEF Whats

LEMMA IndexKeepsSupply ==
    ASSUME SupplyInv, IndexArrives \/ IndexCompleted, stream' \in Streams
    PROVE  TypedInv' /\ ServedInv'
<1> DEFINE i == stream.indexes \cup {Item.quality}
<1>1. /\ Working(stream) /\ UNCHANGED <<mpd, cancel, blacklist, fetch, spent>>
      /\ stream' = [stream EXCEPT !.at = "ready", !.indexes = i]
  BY DEF IndexArrives, IndexCompleted, Working, Quiet
<1>2. stream \in Streams /\ "index" \in Whats
  BY <1>1, ItemFacts DEF Whats
<1> HIDE DEF i
<1>3. /\ stream'.at = "ready" /\ stream'.batch = stream.batch /\ stream'.item = stream.item
      /\ stream'.task = stream.task /\ stream'.next = stream.next
      /\ stream'.inits = stream.inits /\ stream'.indexes = i
      /\ stream'.signaled = stream.signaled
  BY <1>1, <1>2 DEF Streams
<1>4. stream'.indexes \subseteq stream.indexes \cup {Item.quality}
  BY <1>3 DEF i
<1> QED BY <1>1, <1>2, <1>3, <1>4, MoveKeepsSupply

\* Lower is LowersTo, whatever it does to the session.
LEMMA LowerLowers ==
    ASSUME NEW s, NEW task, Lower(s, task)
    PROVE  LowersTo(s, task)
BY DEF Lower, LowersTo

LEMMA CachedInitFailsKeepsSupply ==
    ASSUME SupplyInv, CachedInitFails, stream' \in Streams
    PROVE  TypedInv' /\ ServedInv'
<1> DEFINE s == Signalled(stream)
<1>1. /\ Working(stream) /\ UNCHANGED <<mpd, cancel, blacklist, fetch>>
      /\ spent' = spent \cup UrlsOf(InitResource)
  BY DEF CachedInitFails, Working, Quiet
<1>2. /\ stream \in Streams /\ s \in Streams
  BY <1>1, ItemFacts, SignalledIsAStream DEF Items
<1>3. /\ s.batch = stream.batch /\ s.item = stream.item /\ s.task = stream.task
      /\ s.next = stream.next /\ s.inits = stream.inits \cup {Item.quality}
      /\ s.indexes = stream.indexes /\ s.signaled = stream.signaled \cup {Item.quality}
  BY <1>2, SignalledFacts
<1>4. LowersTo(s, stream.task)
  <2>1. CASE Item.quality > 0
    <3>1. stream' = [s EXCEPT !.at = "item", !.batch[s.item].quality = @ - 1]
      BY <2>1 DEF CachedInitFails
    <3> HIDE DEF s
    <3>2. stream' = [s EXCEPT !.at = "item", !.task = stream.task, !.batch[s.item].quality = @ - 1]
      BY <1>2, <1>3, <3>1 DEF Streams
    <3> QED BY <2>1, <3>2 DEF LowersTo
  <2>2. CASE ~(Item.quality > 0)
    BY <2>2 DEF CachedInitFails, LowersTo
  <2> QED BY <2>1, <2>2
<1> HIDE DEF s
<1>5. spent \subseteq spent' /\ spent' \subseteq Urls
  BY <1>1, ItemFacts DEF SupplyInv, TypedInv
<1>6. stream.task \in Tasks
  BY <1>2 DEF Streams
<1> QED BY <1>1, <1>2, <1>3, <1>4, <1>5, <1>6, LowerKeepsSupply

LEMMA InitUnusableKeepsSupply ==
    ASSUME SupplyInv, InitUnusable, stream' \in Streams
    PROVE  TypedInv' /\ ServedInv'
<1> DEFINE i == stream.inits \cup {Item.quality}
           s == [stream EXCEPT !.inits = i]
<1>1. /\ Working(stream) /\ UNCHANGED <<mpd, cancel, blacklist, fetch>>
      /\ spent' = spent \cup UrlsOf(InitResource) /\ Lower(s, stream.task)
  BY DEF InitUnusable, Working, Quiet
<1>2. stream \in Streams /\ i \in SUBSET Nat
  BY <1>1, ItemFacts DEF Streams, Items
<1> HIDE DEF i
<1>3. /\ s \in Streams /\ s.batch = stream.batch /\ s.item = stream.item
      /\ s.task = stream.task /\ s.next = stream.next /\ s.inits = i
      /\ s.indexes = stream.indexes /\ s.signaled = stream.signaled
  BY <1>2 DEF Streams
<1>4. LowersTo(s, stream.task)
  BY <1>1, LowerLowers
<1> HIDE DEF s
<1>5. spent \subseteq spent' /\ spent' \subseteq Urls
  BY <1>1, ItemFacts DEF SupplyInv, TypedInv
<1>6. stream.task \in Tasks /\ s.inits \subseteq stream.inits \cup {Item.quality}
  BY <1>2, <1>3 DEF Streams, i
<1> QED BY <1>1, <1>3, <1>4, <1>5, <1>6, LowerKeepsSupply

LEMMA InitLostKeepsSupply ==
    ASSUME SupplyInv, InitLost, stream' \in Streams
    PROVE  TypedInv' /\ ServedInv'
<1>1. /\ Working(stream) /\ UNCHANGED <<mpd, cancel, blacklist, fetch, spent>>
      /\ LowersTo(stream, stream.task)
  BY LowerLowers DEF InitLost, Working, Quiet
<1>2. stream \in Streams /\ stream.task \in Tasks /\ spent' \subseteq Urls
  BY <1>1, ItemFacts DEF Streams, SupplyInv, TypedInv
<1> QED BY <1>1, <1>2, LowerKeepsSupply

LEMMA IndexLostKeepsSupply ==
    ASSUME SupplyInv, IndexLost, stream' \in Streams
    PROVE  TypedInv' /\ ServedInv'
<1>1. /\ Working(stream) /\ UNCHANGED <<mpd, cancel, blacklist, fetch>>
      /\ LowersTo(stream, stream.task)
  BY LowerLowers DEF IndexLost, Working, Quiet
<1>2. stream \in Streams /\ stream.task \in Tasks
  BY <1>1, ItemFacts DEF Streams
<1>3. spent \subseteq spent' /\ spent' \subseteq Urls
  <2>1. spent' = spent \/ spent' = spent \cup UrlsOf(Resource("index", 0, Item.quality))
    BY DEF IndexLost
  <2> QED BY <1>1, <2>1, ItemFacts DEF SupplyInv, TypedInv
<1> QED BY <1>1, <1>2, <1>3, LowerKeepsSupply

LEMMA ProceedKeepsSupply ==
    ASSUME SupplyInv, Proceed, stream' \in Streams
    PROVE  TypedInv' /\ ServedInv'
<1>1. /\ stream.at = "ready" /\ UNCHANGED <<mpd, cancel, blacklist, spent>> /\ Working(stream)
  BY DEF Proceed, Working
<1>2. /\ stream \in Streams /\ mpd \in Presentations /\ cancel \in Nat
      /\ stream.item \in 1 .. Len(stream.batch) /\ stream.item \in Nat
      /\ Len(stream.batch) \in Nat /\ Len(stream.batch) <= MaxParallel
      /\ \A k \in 1 .. Len(stream.batch) : k \in Slots
  BY <1>1, ItemFacts
<1>3. /\ StreamTyped(mpd, stream) /\ Served(mpd, Lost, fetch, stream)
      /\ blacklist \subseteq Urls /\ spent \subseteq Urls
      /\ fetch \in [Slots -> Requests] /\ \A f \in Slots : RequestTyped(mpd, fetch[f])
  BY DEF SupplyInv, TypedInv, ServedInv
<1>4. Urls' = Urls /\ Lost' = Lost
  BY <1>1 DEF Urls, Resources, Qualities, Lost
<1>5. CASE stream.task = "first" /\ stream' = Replan /\ UNCHANGED fetch
  <2>1. /\ stream'.at = "plan" /\ stream'.batch = <<>> /\ stream'.next = stream.next
        /\ stream'.inits = stream.inits /\ stream'.indexes = stream.indexes
        /\ stream'.signaled = stream.signaled
    BY <1>2, <1>5 DEF Replan, Streams
  <2> QED BY <1>1, <1>3, <1>5, <2>1, IdleKeepsSupply DEF StreamTyped, Working
<1>6. CASE /\ stream.task = "prepare" /\ stream.item < Len(stream.batch)
           /\ stream' = [stream EXCEPT !.at = "item", !.item = @ + 1]
           /\ UNCHANGED fetch
  <2>1. /\ stream'.at = "item" /\ stream'.batch = stream.batch /\ stream'.next = stream.next
        /\ stream'.task = "prepare"
        /\ stream'.inits = stream.inits /\ stream'.indexes = stream.indexes
        /\ stream'.signaled = stream.signaled
    BY <1>2, <1>6 DEF Streams
  <2>2. StreamTyped(mpd, stream')
    BY <1>3, <1>6, <2>1 DEF StreamTyped
  <2>3. Served(mpd, Lost', fetch', stream')
    BY <2>1, PreparedIsServed
  <2> QED BY <1>1, <1>3, <1>6, <2>2, <2>3, QuietKeepsTyped DEF ServedInv
<1>7. CASE /\ stream.task = "prepare" /\ stream.item = Len(stream.batch)
           /\ Goto("download")
           /\ fetch' = [f \in Slots |-> IF f \in DOMAIN stream.batch
                                        THEN Request("media", stream.batch[f]) ELSE Off]
  <2>1. /\ stream'.at = "download" /\ stream'.batch = stream.batch
        /\ stream'.item = stream.item
        /\ stream'.task = "prepare" /\ stream'.next = stream.next
        /\ stream'.inits = stream.inits /\ stream'.indexes = stream.indexes
        /\ stream'.signaled = stream.signaled
    BY <1>2, <1>7, GotoFacts
  <2>2. stream.batch \in Seq(Items) /\ DOMAIN stream.batch = 1 .. Len(stream.batch)
    BY <1>2 DEF Streams
  <2>3. ASSUME NEW k \in 1 .. Len(stream.batch)
        PROVE  /\ fetch'[k] = Request("media", stream.batch[k])
               /\ fetch'[k] \in Requests /\ RequestTyped(mpd, fetch'[k])
               /\ Serves(mpd, Lost, fetch'[k], "media", stream.batch[k])
    <3>1. fetch'[k] = Request("media", stream.batch[k])
      BY <1>2, <1>7, <2>2
    <3>2. stream.batch[k] \in Items
      BY <2>2, ElementOfSeq
    <3>3. ItemTyped(mpd, "prepare", stream.batch[k])
      BY <1>3, <1>7 DEF StreamTyped
    <3>4. Exists(mpd, "media", stream.batch[k].seg, stream.batch[k].quality)
      BY <1>2, <3>2, <3>3, MpdFacts DEF Exists, ItemTyped, Items
    <3> QED BY <1>2, <3>1, <3>2, <3>4, NewRequest DEF Whats
  <2>4. Off \in Requests /\ RequestTyped(mpd, Off)
    <3>1. Off = [Off EXCEPT !.at = "off"]
      BY DEF Off
    <3> QED BY <1>2, <3>1, EndedRequest
  <2>5. ASSUME NEW f \in Slots PROVE fetch'[f] \in Requests /\ RequestTyped(mpd, fetch'[f])
    <3>1. CASE f \in 1 .. Len(stream.batch)
      BY <2>3, <3>1
    <3>2. CASE f \notin 1 .. Len(stream.batch)
      <4>1. fetch'[f] = Off
        BY <1>7, <2>2, <3>2
      <4> QED BY <2>4, <4>1
    <3> QED BY <3>1, <3>2
  <2>6. fetch' \in [Slots -> Requests]
    <3>1. fetch' = [f \in Slots |-> fetch'[f]]
      BY <1>7
    <3> QED BY <2>5, <3>1
  <2>7. StreamTyped(mpd, stream')
    BY <1>3, <1>7, <2>1 DEF StreamTyped
  <2>8. TypedInv'
    BY <1>1, <1>2, <1>3, <1>4, <2>5, <2>6, <2>7 DEF TypedInv, Slots
  <2>9. Served(mpd, Lost, fetch', stream')
    BY <2>1, <2>3 DEF Served
  <2> QED BY <1>1, <1>4, <2>8, <2>9 DEF ServedInv
<1>8. CASE /\ stream.task \in {"fallback", "chunks"} /\ Goto("media")
           /\ fetch' = [fetch EXCEPT ![1] = Request("media", Item)]
  <2>1. /\ stream'.at = "media" /\ stream'.batch = stream.batch
        /\ stream'.item = stream.item
        /\ stream'.task = stream.task /\ stream'.next = stream.next
        /\ stream'.inits = stream.inits /\ stream'.indexes = stream.indexes
        /\ stream'.signaled = stream.signaled
    BY <1>2, <1>8, GotoFacts
  <2>2. /\ "media" \in Whats /\ stream.task # "first"
    BY <1>8 DEF Whats
  <2> QED BY <1>1, <1>8, <2>1, <2>2, MoveKeepsSupply
<1> QED BY <1>5, <1>6, <1>7, <1>8 DEF Proceed

LEMMA DownloadedKeepsSupply ==
    ASSUME SupplyInv, Downloaded, stream' \in Streams
    PROVE  TypedInv' /\ ServedInv'
<1>1. /\ stream.at = "download" /\ stream' = [stream EXCEPT !.at = "use", !.item = 1]
      /\ UNCHANGED <<mpd, cancel, blacklist, fetch, spent>> /\ Working(stream)
  BY DEF Downloaded, Quiet, Working
<1>2. stream \in Streams
  BY <1>1, ItemFacts
<1>3. /\ stream'.at = "use" /\ stream'.item = 1 /\ stream'.batch = stream.batch
      /\ stream'.task = stream.task /\ stream'.next = stream.next
      /\ stream'.inits = stream.inits /\ stream'.indexes = stream.indexes
      /\ stream'.signaled = stream.signaled
  BY <1>1, <1>2 DEF Streams
<1>4. /\ StreamTyped(mpd, stream) /\ Served(mpd, Lost, fetch, stream) /\ spent \subseteq Urls
  BY DEF SupplyInv, TypedInv, ServedInv
<1>5. stream.task # "first"
  BY <1>1, <1>4 DEF StreamTyped
<1>6. StreamTyped(mpd, stream')
  BY <1>3, <1>4, <1>5 DEF StreamTyped
<1>7. Lost' = Lost
  BY <1>1 DEF Lost
<1>8. \A k \in 1 .. Len(stream.batch) : Serves(mpd, Lost, fetch[k], "media", stream.batch[k])
  BY <1>1, <1>4 DEF Served
<1>9. Served(mpd, Lost', fetch', stream')
  BY <1>1, <1>3, <1>7, <1>8 DEF Served
<1> QED BY <1>1, <1>4, <1>6, <1>9, QuietKeepsTyped DEF ServedInv

\* The downloads of the items that are left are where they were.
LEMMA LeftAreServed ==
    ASSUME SupplyInv, stream.at \in {"use", "media"},
           NEW k \in 1 .. Len(stream.batch), k > stream.item
    PROVE  Serves(mpd, Lost, fetch[k], "media", stream.batch[k])
<1>1. k >= stream.item /\ Working(stream)
  <2>1. Working(stream)
    BY DEF Working
  <2> QED BY <2>1, ItemFacts
<1>2. Served(mpd, Lost, fetch, stream)
  BY DEF SupplyInv, ServedInv
<1>3. stream.at = "media" => stream.task \in {"fallback", "chunks"}
  BY DEF SupplyInv, FetchInv, Announced
<1> QED BY <1>1, <1>2, <1>3 DEF Served

LEMMA DeliverKeepsSupply ==
    ASSUME SupplyInv, stream.at \in {"use", "media"}, Deliver, stream' \in Streams,
           UNCHANGED <<mpd, cancel, blacklist, fetch, spent>>
    PROVE  TypedInv' /\ ServedInv'
<1> DEFINE n == Item.seg + 1
           i == stream.item + 1
<1>1. Working(stream)
  BY DEF Working
<1>2. /\ stream \in Streams /\ mpd \in Presentations /\ stream.item \in Nat
      /\ Item.seg \in Nat /\ ItemTyped(mpd, stream.task, Item)
  BY <1>1, ItemFacts
<1>3. n <= mpd.last + 1 /\ n \in Nat
  BY <1>2, MpdFacts DEF ItemTyped
<1>4. /\ StreamTyped(mpd, stream) /\ spent \subseteq Urls /\ Lost' = Lost
  BY DEF SupplyInv, TypedInv, Lost
<1>5. CASE stream.item < Len(stream.batch)
  <2>1. stream' = [stream EXCEPT !.at = "use", !.item = i, !.next = n, !.started = TRUE]
    BY <1>2, <1>5 DEF Deliver, Streams
  <2>2. \A k \in 1 .. Len(stream.batch) : k >= i => k > stream.item
    BY <1>2
  <2>3. i > stream.item /\ i \in Nat
    BY <1>2
  <2> HIDE DEF i, n
  <2>4. /\ stream'.at = "use" /\ stream'.item = i /\ stream'.batch = stream.batch
        /\ stream'.task = stream.task /\ stream'.next = n
        /\ stream'.inits = stream.inits /\ stream'.indexes = stream.indexes
        /\ stream'.signaled = stream.signaled
    BY <1>2, <2>1 DEF Streams
  <2>5. stream.task # "first"
    BY <1>4 DEF StreamTyped
  <2>6. StreamTyped(mpd, stream')
    BY <1>3, <1>4, <2>4, <2>5 DEF StreamTyped
  <2>7. ASSUME NEW k \in 1 .. Len(stream'.batch), k >= stream'.item \/ k > stream'.item
        PROVE  Serves(mpd, Lost, fetch'[k], "media", stream'.batch[k])
    <3>1. k \in 1 .. Len(stream.batch) /\ k > stream.item
      BY <1>2, <2>3, <2>4, <2>7
    <3> QED BY <2>4, <3>1, LeftAreServed
  <2>8. Served(mpd, Lost, fetch', stream')
    BY <2>4, <2>7 DEF Served
  <2> QED BY <1>4, <2>6, <2>8, QuietKeepsTyped DEF ServedInv
<1>6. CASE ~(stream.item < Len(stream.batch))
  <2>1. stream' = [Replan EXCEPT !.next = n, !.started = TRUE]
    BY <1>6 DEF Deliver
  <2> HIDE DEF n
  <2>2. /\ stream'.at = "plan" /\ stream'.batch = <<>> /\ stream'.next = n
        /\ stream'.inits = stream.inits /\ stream'.indexes = stream.indexes
        /\ stream'.signaled = stream.signaled
    BY <1>2, <2>1 DEF Replan, Streams
  <2> QED BY <1>3, <1>4, <2>2, IdleKeepsSupply DEF StreamTyped, Working
<1> QED BY <1>5, <1>6

LEMMA UseResultKeepsSupply ==
    ASSUME SupplyInv, UseResult, stream' \in Streams
    PROVE  TypedInv' /\ ServedInv'
<1> DEFINE task == IF mpd.chunked THEN "chunks" ELSE "fallback"
<1>1. /\ stream.at \in {"use", "media"} /\ Working(stream)
      /\ UNCHANGED <<mpd, cancel, blacklist, fetch, spent>>
  BY DEF UseResult, Quiet, Working
<1>2. /\ stream \in Streams /\ StreamTyped(mpd, stream) /\ spent' \subseteq Urls
  BY <1>1, ItemFacts DEF SupplyInv, TypedInv
<1>3. CASE Deliver
  BY <1>1, <1>3, DeliverKeepsSupply
<1>4. CASE stream' = Replan
  <2>1. /\ stream'.at = "plan" /\ stream'.batch = <<>> /\ stream'.next = stream.next
        /\ stream'.inits = stream.inits /\ stream'.indexes = stream.indexes
        /\ stream'.signaled = stream.signaled
    BY <1>2, <1>4 DEF Replan, Streams
  <2> QED BY <1>1, <1>2, <2>1, IdleKeepsSupply DEF StreamTyped, Working
<1>5. CASE Lower(stream, task)
  <2>1. LowersTo(stream, task) /\ task \in Tasks
    BY <1>5, LowerLowers, Names
  <2>2. /\ stream.task # "first"
        /\ stream.at = "use" \/ stream.task \in {"fallback", "chunks"}
    BY <1>1, <1>2 DEF StreamTyped, SupplyInv, FetchInv, Announced
  <2> HIDE DEF task
  <2> QED BY <1>1, <1>2, <2>1, <2>2, LowerKeepsSupply
<1> QED BY <1>3, <1>4, <1>5 DEF UseResult

-----------------------------------------------------------------------------
LEMMA CancelKeepsSupply ==
    ASSUME SupplyInv, CancelFetches \/ UNCHANGED vars
    PROVE  TypedInv' /\ ServedInv'
<1>1. /\ UNCHANGED <<mpd, blacklist, stream, fetch, spent>> /\ cancel' \in {cancel, cancel + 1}
  BY DEF CancelFetches, vars
<1>2. cancel' \in Nat
  BY <1>1 DEF SupplyInv, TypedInv
<1>3. Urls' = Urls /\ Lost' = Lost
  BY <1>1 DEF Urls, Resources, Qualities, Lost
<1> QED BY <1>1, <1>2, <1>3 DEF SupplyInv, TypedInv, ServedInv, Slots

LEMMA NextKeepsSupply ==
    ASSUME SupplyInv, [Next]_vars
    PROVE  SupplyInv'
<1>1. FetchInv'
  BY NextKeepsInv DEF SupplyInv
<1>2. stream' \in Streams
  BY <1>1 DEF FetchInv
<1>3. TypedInv' /\ ServedInv'
  BY <1>2, CancelKeepsSupply, LeaveRunKeepsSupply, FetchStepKeepsSupply, StartRunKeepsSupply,
     PlanBatchKeepsSupply, EnsureInitKeepsSupply, CachedInitFailsKeepsSupply,
     InitArrivesKeepsSupply, InitUnusableKeepsSupply, InitLostKeepsSupply,
     EnsureIndexKeepsSupply, IndexKeepsSupply, IndexContinuesKeepsSupply,
     IndexLostKeepsSupply, ProceedKeepsSupply, DownloadedKeepsSupply, UseResultKeepsSupply
  DEF Next, StreamStep
<1> QED BY <1>1, <1>3 DEF SupplyInv

LEMMA InitSupply == Init => SupplyInv
<1> SUFFICES ASSUME Init PROVE SupplyInv
  OBVIOUS
<1>1. FetchInv
  BY InitInv
<1>2. /\ mpd \in Presentations /\ cancel = 0 /\ blacklist = {} /\ spent = {}
      /\ stream = Fresh("start") /\ fetch = [f \in Slots |-> Off]
  BY DEF Init
<1>3. /\ stream.at = "start" /\ stream.next = 1 /\ stream.batch = <<>>
      /\ stream.inits = {} /\ stream.indexes = {} /\ stream.signaled = {}
  BY <1>2 DEF Fresh
<1>4. ~Working(stream) /\ StreamTyped(mpd, stream)
  BY <1>2, <1>3, MpdFacts, NoBatchIsTyped DEF Working
<1>5. Off \in Requests /\ RequestTyped(mpd, Off)
  <2>1. Off = [Off EXCEPT !.at = "off"]
    BY DEF Off
  <2> QED BY <1>2, <2>1, EndedRequest
<1>6. TypedInv
  BY <1>2, <1>4, <1>5 DEF TypedInv
<1> QED BY <1>1, <1>4, <1>6, IdleIsServed DEF SupplyInv, ServedInv

(* What is asked for exists, and no base is left behind before it is lost: *)
(* kept by every step, however downloads, fallbacks and cancellations      *)
(* interleave.                                                             *)
THEOREM SupplyInvariant == Spec => []SupplyInv
BY InitSupply, NextKeepsSupply, PTL DEF Spec

(* What the model says of its types: among others, that a request is never *)
(* for something the presentation does not have, that no more attempts are *)
(* made than the policy allows, and that no base past the last is asked.   *)
THEOREM FetchTypes == Spec => []TypeOK
<1>1. SupplyInv => TypeOK
  <2> SUFFICES ASSUME SupplyInv PROVE TypeOK
    OBVIOUS
  <2>1. /\ stream \in Streams /\ session \in Sessions /\ StreamTyped(mpd, stream)
        /\ mpd \in Presentations /\ cancel \in Nat
        /\ blacklist \subseteq Urls /\ spent \subseteq Urls
        /\ fetch \in [Slots -> Requests] /\ \A f \in Slots : RequestTyped(mpd, fetch[f])
    BY DEF SupplyInv, FetchInv, TypedInv
  <2>2. stream.at \in Places /\ session.haveInit \in BOOLEAN
    BY <2>1 DEF Streams, Sessions
  <2>3. stream.next \in 1 .. mpd.last + 1
    <3>1. stream.next \in Nat \ {0} /\ stream.next <= mpd.last + 1
      BY <2>1 DEF Streams, StreamTyped
    <3> QED BY <2>1, <3>1, MpdFacts
  <2>4. UNION {stream.inits, stream.indexes, stream.signaled} \subseteq Qualities
    BY <2>1 DEF StreamTyped, Qualities
  <2>5. DOMAIN stream.batch = 1 .. Len(stream.batch) /\ stream.batch \in Seq(Items)
    BY <2>1 DEF Streams
  <2>6. stream.at \notin {"start", "plan", "over"} => stream.item \in DOMAIN stream.batch
    BY <2>5 DEF SupplyInv, FetchInv, Announced, Working
  <2>7. ASSUME NEW k \in DOMAIN stream.batch PROVE stream.batch[k].quality \in Qualities
    <3>1. stream.batch[k] \in Items /\ ItemTyped(mpd, stream.task, stream.batch[k])
      BY <2>1, <2>5, ElementOfSeq DEF StreamTyped
    <3> QED BY <2>1, <3>1, MpdFacts DEF Items, ItemTyped, Qualities
  <2>8. ASSUME NEW f \in Slots
        PROVE  fetch[f].base \in 1 .. mpd.bases + 1 /\ fetch[f].attempt \in 0 .. Limit(f)
    <3>1. fetch[f].base \in Nat \ {0} /\ fetch[f].attempt \in Nat
      BY <2>1 DEF Requests
    <3>2. Limit(f) = LimitIn(mpd, fetch[f].what)
      BY DEF Limit, LimitIn
    <3>3. fetch[f].base <= mpd.bases + 1 /\ fetch[f].attempt <= Limit(f)
      BY <2>1, <3>2 DEF RequestTyped
    <3> QED BY <2>1, <3>1, <3>2, <3>3, MpdFacts, LimitIsPositive
  <2> QED BY <2>1, <2>2, <2>3, <2>4, <2>6, <2>7, <2>8 DEF TypeOK
<1> QED BY <1>1, SupplyInvariant, PTL

-----------------------------------------------------------------------------
(* What makes an item fall.                                                *)

\* The item falls for want of what it needed.
FallsFor(s, task, what) ==
    /\ what \in Needed
    /\ s \in Streams /\ s.batch = stream.batch /\ s.item = stream.item
    /\ LowersTo(s, task)
    /\ \/ Exhausted(what, Item.seg, Item.quality)
       \/ stream.at = "init" /\ fetch[1].at = "cancelled"

LEMMA ServedFailed ==
    ASSUME SupplyInv, NEW r, NEW what, NEW i, Serves(mpd, Lost, r, what, i), r.at = "failed",
           i = Item, blacklist \subseteq blacklist', spent \subseteq spent'
    PROVE  Exhausted(what, Item.seg, Item.quality)
<1>1. UrlsIn(mpd, what, Item.seg, Item.quality) \subseteq Lost
  BY DEF Serves
<1>2. UrlsOf(Resource(what, Item.seg, Item.quality)) \subseteq blacklist' \cup spent'
  BY <1>1, SameResource DEF Lost
<1> QED BY <1>2 DEF Exhausted

LEMMA InitFalls ==
    ASSUME SupplyInv, InitUnusable \/ InitLost \/ CachedInitFails
    PROVE  \E s, task : FallsFor(s, task, "init")
<1>1. "init" \in Needed
  BY DEF Needed
<1>2. Resource("init", Item.seg, Item.quality) = InitResource
  BY DEF Resource, InitResource
<1>3. Working(stream)
  BY DEF InitUnusable, InitLost, CachedInitFails, Working
<1>4. stream \in Streams /\ Item.quality \in Nat
  BY <1>3, ItemFacts DEF Items
<1>5. CASE InitUnusable
  <2> DEFINE i == stream.inits \cup {Item.quality}
             s == [stream EXCEPT !.inits = i]
  <2>1. Lower(s, stream.task) /\ spent' = spent \cup UrlsOf(InitResource)
    BY <1>5 DEF InitUnusable
  <2>2. i \in SUBSET Nat
    BY <1>4 DEF Streams
  <2> HIDE DEF i
  <2>3. s \in Streams /\ s.batch = stream.batch /\ s.item = stream.item
    BY <1>4, <2>2 DEF Streams
  <2>4. LowersTo(s, stream.task)
    BY <2>1, LowerLowers
  <2>5. Exhausted("init", Item.seg, Item.quality)
    BY <1>2, <2>1 DEF Exhausted
  <2> HIDE DEF s
  <2> QED BY <1>1, <2>3, <2>4, <2>5 DEF FallsFor
<1>6. CASE InitLost
  <2>1. /\ stream.at = "init" /\ fetch[1].at \in {"failed", "cancelled"}
        /\ UNCHANGED <<blacklist, spent>> /\ LowersTo(stream, stream.task)
    BY <1>6, LowerLowers DEF InitLost, Quiet
  <2>2. Serves(mpd, Lost, fetch[1], "init", stream.batch[stream.item])
    BY <2>1 DEF SupplyInv, ServedInv, Served
  <2>3. CASE fetch[1].at = "failed"
    <3>1. Exhausted("init", Item.seg, Item.quality)
      BY <2>1, <2>2, <2>3, ServedFailed DEF Item
    <3> QED BY <1>1, <1>4, <2>1, <3>1 DEF FallsFor
  <2>4. CASE fetch[1].at = "cancelled"
    BY <1>1, <1>4, <2>1, <2>4 DEF FallsFor
  <2> QED BY <2>1, <2>3, <2>4
<1>7. CASE CachedInitFails
  <2> DEFINE s == Signalled(stream)
  <2>1. spent' = spent \cup UrlsOf(InitResource)
    BY <1>7 DEF CachedInitFails
  <2>2. s \in Streams /\ s.batch = stream.batch /\ s.item = stream.item /\ s.task = stream.task
    BY <1>4, SignalledIsAStream
  <2>3. LowersTo(s, stream.task)
    <3>1. CASE Item.quality > 0
      <4>1. stream' = [s EXCEPT !.at = "item", !.batch[s.item].quality = @ - 1]
        BY <1>7, <3>1 DEF CachedInitFails
      <4> HIDE DEF s
      <4>2. stream' = [s EXCEPT !.at = "item", !.task = stream.task,
                                !.batch[s.item].quality = @ - 1]
        BY <2>2, <4>1 DEF Streams
      <4> QED BY <3>1, <4>2 DEF LowersTo
    <3>2. CASE ~(Item.quality > 0)
      BY <1>7, <3>2 DEF CachedInitFails, LowersTo
    <3> QED BY <3>1, <3>2
  <2>4. Exhausted("init", Item.seg, Item.quality)
    BY <1>2, <2>1 DEF Exhausted
  <2> HIDE DEF s
  <2> QED BY <1>1, <2>2, <2>3, <2>4 DEF FallsFor
<1> QED BY <1>5, <1>6, <1>7

LEMMA IndexFalls ==
    ASSUME SupplyInv, IndexLost
    PROVE  \E s, task : FallsFor(s, task, "index")
<1>1. /\ stream.at \in {"index", "extended"} /\ blacklist' = blacklist
      /\ LowersTo(stream, stream.task) /\ Working(stream)
  BY LowerLowers DEF IndexLost, Quiet, Working
<1>2. "index" \in Needed
  BY <1>1 DEF Needed, SupplyInv, TypedInv, StreamTyped
<1>3. stream \in Streams
  BY <1>1, ItemFacts
<1>4. Resource("index", Item.seg, Item.quality) = Resource("index", 0, Item.quality)
  BY DEF Resource
<1>5. CASE fetch[1].at = "failed" /\ UNCHANGED spent
  <2>1. Serves(mpd, Lost, fetch[1], "index", stream.batch[stream.item])
    BY <1>1 DEF SupplyInv, ServedInv, Served
  <2>2. Exhausted("index", Item.seg, Item.quality)
    BY <1>1, <1>5, <2>1, ServedFailed DEF Item
  <2> QED BY <1>1, <1>2, <1>3, <2>2 DEF FallsFor
<1>6. CASE spent' = spent \cup UrlsOf(Resource("index", 0, Item.quality))
  <2>1. Exhausted("index", Item.seg, Item.quality)
    BY <1>4, <1>6 DEF Exhausted
  <2> QED BY <1>1, <1>2, <1>3, <2>1 DEF FallsFor
<1> QED BY <1>5, <1>6 DEF IndexLost

LEMMA MediaFalls ==
    ASSUME SupplyInv, UseResult, Falls
    PROVE  \E s, task : FallsFor(s, task, "media")
<1>1. /\ stream.at \in {"use", "media"} /\ UNCHANGED <<blacklist, spent>> /\ Working(stream)
  BY DEF UseResult, Quiet, Working
<1>2. stream \in Streams /\ stream.item \in 1 .. Len(stream.batch) /\ stream.item \in Nat
  BY <1>1, ItemFacts
<1>3. ~Deliver /\ stream' # Replan
  <2>1. stream' = Replan => stream'.at = "plan"
    BY <1>2 DEF Replan, Streams
  <2>2. Deliver => stream'.at \in {"use", "plan"}
    BY <1>2 DEF Deliver, Replan, Streams
  <2> QED BY <2>1, <2>2 DEF Falls
<1> DEFINE f == IF stream.at = "use" THEN stream.item ELSE 1
           task == IF mpd.chunked THEN "chunks" ELSE "fallback"
<1>4. fetch[f].at = "failed" /\ LowersTo(stream, task)
  BY <1>3, LowerLowers DEF UseResult
<1>5. Serves(mpd, Lost, fetch[f], "media", stream.batch[stream.item])
  <2>1. Served(mpd, Lost, fetch, stream)
    BY DEF SupplyInv, ServedInv
  <2>2. CASE stream.at = "use"
    BY <1>2, <2>1, <2>2 DEF Served
  <2>3. CASE stream.at = "media"
    BY <2>1, <2>3 DEF Served
  <2> QED BY <1>1, <2>2, <2>3
<1> HIDE DEF f, task
<1>6. Exhausted("media", Item.seg, Item.quality)
  BY <1>1, <1>4, <1>5, ServedFailed DEF Item
<1>7. "media" \in Needed
  BY <1>1 DEF Needed, SupplyInv, TypedInv, StreamTyped
<1> QED BY <1>1, <1>2, <1>4, <1>6, <1>7 DEF FallsFor

(* Nothing else makes an item fall.                                        *)
LEMMA OthersDoNotFall ==
    ASSUME SupplyInv, Falls, [Next]_vars
    PROVE  \/ InitUnusable \/ InitLost \/ CachedInitFails \/ IndexLost \/ UseResult
<1>1. Working(stream) /\ stream \in Streams
  BY DEF Falls, Working, SupplyInv, FetchInv
<1>2. CASE FetchStep \/ CancelFetches \/ UNCHANGED vars
  <2>1. stream' = stream
    BY <1>2 DEF FetchStep, NextBase, Responds, Aborts, Transient, Unanswered, Refused, Retry,
                ReadBody, CancelFetches, vars
  <2> QED BY <2>1 DEF Falls
<1>3. CASE StartRun \/ PlanBatch
  BY <1>3 DEF Falls, StartRun, PlanBatch
<1>4. CASE LeaveRun
  <2>1. stream'.at = "start"
    BY <1>4 DEF LeaveRun, Fresh
  <2> QED BY <2>1 DEF Falls
<1>5. CASE SignalInit
  <2>1. Item.quality \in Nat
    BY <1>1, ItemFacts DEF Items
  <2>2. Signalled(stream) \in Streams
    BY <1>1, <2>1, SignalledIsAStream
  <2>3. stream' = [Signalled(stream) EXCEPT !.at = "inited"]
    BY <1>5 DEF SignalInit
  <2>4. stream'.at = "inited"
    BY <2>2, <2>3 DEF Streams
  <2> QED BY <2>4 DEF Falls
<1>6. ASSUME NEW at \in {"init", "index", "extended", "ready", "download", "media"}, Goto(at)
      PROVE  FALSE
  BY <1>1, <1>6, GotoFacts DEF Falls
<1>7. CASE EnsureInit \/ InitArrives
  BY <1>5, <1>6, <1>7 DEF EnsureInit, InitArrives, Begin
<1>8. CASE EnsureIndex \/ IndexContinues
  BY <1>6, <1>8 DEF EnsureIndex, IndexContinues, Begin
<1>9. CASE IndexArrives \/ IndexCompleted
  <2>1. stream'.at = "ready"
    BY <1>1, <1>9 DEF IndexArrives, IndexCompleted, Streams
  <2> QED BY <2>1 DEF Falls
<1>10. CASE Proceed
  <2>1. \/ stream' = Replan
        \/ stream' = [stream EXCEPT !.at = "item", !.item = @ + 1]
        \/ Goto("download") \/ Goto("media")
    BY <1>10 DEF Proceed
  <2>2. \/ stream'.at = "plan"
        \/ stream'.at = "item" /\ stream'.batch = stream.batch
    BY <1>1, <1>6, <2>1 DEF Replan, Streams
  <2> QED BY <2>2 DEF Falls
<1>11. CASE Downloaded
  <2>1. stream'.at = "use"
    BY <1>1, <1>11 DEF Downloaded, Streams
  <2> QED BY <2>1 DEF Falls
<1> QED BY <1>2, <1>3, <1>4, <1>7, <1>8, <1>9, <1>10, <1>11 DEF Next, StreamStep

(* No quality is given up, and no session fails, before every base of      *)
(* something the quality needs has failed for good or used up its          *)
(* attempts; and no rung of the ladder is skipped: whatever other          *)
(* downloads blacklist meanwhile, and whichever item of a batch falls.     *)
THEOREM QualitiesAreHadFirst == Spec => NothingGivenUpEarly
<1>1. ASSUME SupplyInv, [Next]_vars, Falls
      PROVE  /\ \/ \E what \in Needed : Exhausted(what, Item.seg, Item.quality)
                \/ stream.at = "init" /\ fetch[1].at = "cancelled"
             /\ stream'.at = "item" => stream'.batch[stream.item].quality = Item.quality - 1
  <2>1. \E what, s, task : FallsFor(s, task, what)
    BY <1>1, OthersDoNotFall, InitFalls, IndexFalls, MediaFalls
  <2>2. PICK what, s, task : FallsFor(s, task, what)
    BY <2>1
  <2>3. \/ \E w \in Needed : Exhausted(w, Item.seg, Item.quality)
        \/ stream.at = "init" /\ fetch[1].at = "cancelled"
    BY <2>2 DEF FallsFor
  <2>4. ASSUME stream'.at = "item" PROVE stream'.batch[stream.item].quality = Item.quality - 1
    <3>1. /\ s \in Streams /\ s.batch = stream.batch /\ s.item = stream.item
          /\ LowersTo(s, task)
      BY <2>2 DEF FallsFor
    <3>2. stream' # [s EXCEPT !.at = "over"]
      BY <2>4, <3>1 DEF Streams
    <3>3. stream' = [s EXCEPT !.at = "item", !.task = task, !.batch[s.item].quality = @ - 1]
      BY <3>1, <3>2 DEF LowersTo
    <3>4. /\ stream.item \in 1 .. Len(stream.batch) /\ Item \in Items
          /\ stream.batch \in Seq(Items)
      BY <1>1, ItemFacts DEF Falls, Working, Streams
    <3> DEFINE e == [Item EXCEPT !.quality = @ - 1]
    <3>5. stream'.batch = [stream.batch EXCEPT ![stream.item] = e]
      BY <3>1, <3>3 DEF Streams, Item
    <3>6. e.quality = Item.quality - 1
      BY <3>4 DEF Items
    <3> HIDE DEF e
    <3>7. stream'.batch[stream.item] = e
      BY <3>4, <3>5
    <3> QED BY <3>6, <3>7
  <2> QED BY <2>3, <2>4
<1>2. SupplyInv /\ [Next]_vars =>
          /\ [Falls => \/ \E what \in Needed : Exhausted(what, Item.seg, Item.quality)
                       \/ stream.at = "init" /\ fetch[1].at = "cancelled"]_vars
          /\ [Falls /\ stream'.at = "item" =>
                  stream'.batch[stream.item].quality = Item.quality - 1]_vars
  BY <1>1
<1>3. Spec => FallbackIsLastResort /\ RungByRung
  BY <1>2, SupplyInvariant, PTL DEF Spec, FallbackIsLastResort, RungByRung
<1> QED BY <1>3 DEF NothingGivenUpEarly

-----------------------------------------------------------------------------
(* What a step does to the requests.                                       *)

LEMMA StreamSends ==
    ASSUME SupplyInv, StreamStep \/ LeaveRun \/ CancelFetches \/ UNCHANGED vars, NEW f \in Slots
    PROVE  /\ fetch'[f] = fetch[f] \/ fetch'[f].at \in {"base", "off"}
           /\ blacklist' = blacklist
<1>1. fetch \in [Slots -> Requests]
  BY DEF SupplyInv, TypedInv
<1>2. \A what, i : Request(what, i).at = "base"
  BY DEF Request, Off
<1>3. Off.at = "off"
  BY DEF Off
<1>4. CASE UNCHANGED <<fetch, blacklist>>
  BY <1>4
<1>5. CASE \E what \in Whats : \E at : Begin(what, at)
  BY <1>1, <1>2, <1>5 DEF Begin
<1>6. CASE PlanBatch
  BY <1>3, <1>6 DEF PlanBatch
<1>7. CASE Proceed
  BY <1>1, <1>2, <1>3, <1>7 DEF Proceed
<1>8. EnsureInit \/ EnsureIndex \/ IndexContinues
          => UNCHANGED <<fetch, blacklist>> \/ \E what \in Whats : \E at : Begin(what, at)
  BY DEF EnsureInit, EnsureIndex, IndexContinues, Quiet, Whats
<1>9. StartRun \/ CachedInitFails \/ InitArrives \/ InitUnusable \/ InitLost \/ IndexArrives
          \/ IndexLost \/ IndexCompleted \/ Downloaded \/ UseResult \/ LeaveRun
          \/ CancelFetches \/ UNCHANGED vars
          => UNCHANGED <<fetch, blacklist>>
  BY DEF StartRun, CachedInitFails, InitArrives, InitUnusable, InitLost, IndexArrives,
         IndexLost, IndexCompleted, Downloaded, UseResult, LeaveRun, CancelFetches, vars, Quiet
<1> QED BY <1>4, <1>5, <1>6, <1>7, <1>8, <1>9 DEF StreamStep

StepOf(f) ==
    \/ NextBase(f) \/ Responds(f) \/ Aborts(f) \/ Transient(f) \/ Unanswered(f)
    \/ Refused(f) \/ Retry(f) \/ ReadBody(f)

LEMMA SlotsAreSeparate ==
    ASSUME SupplyInv, NEW g \in Slots, StepOf(g), NEW f \in Slots, f # g
    PROVE  fetch'[f] = fetch[f]
<1>1. SlotMoves(g)
  BY StepMoves DEF StepOf, SupplyInv
<1>2. fetch \in [Slots -> Requests]
  BY DEF SupplyInv, TypedInv
<1> QED BY <1>1, <1>2 DEF SlotMoves

LEMMA AnsweredAt ==
    ASSUME SupplyInv, NEW f \in Slots
    PROVE  /\ \A how : End(f, how) => fetch'[f].at = how
           /\ \A where : Goes(f, where) => fetch'[f].at = where
           /\ Failover(f) => fetch'[f].at = "base"
<1>1. fetch \in [Slots -> Requests]
  BY DEF SupplyInv, TypedInv
<1>2. \A how : [Off EXCEPT !.at = how].at = how
  BY DEF Off
<1>3. fetch[f] \in Requests
  BY <1>1
<1>4. ASSUME NEW how, End(f, how) PROVE fetch'[f].at = how
  BY <1>1, <1>2, <1>4 DEF End
<1>5. ASSUME NEW where, Goes(f, where) PROVE fetch'[f].at = where
  <2>1. fetch'[f] = [fetch[f] EXCEPT !.at = where]
    BY <1>1, <1>5 DEF Goes
  <2> QED BY <1>3, <2>1 DEF Requests
<1>6. ASSUME Failover(f) PROVE fetch'[f].at = "base"
  <2> DEFINE n == fetch[f].base + 1
  <2>1. fetch'[f] = [fetch[f] EXCEPT !.at = "base", !.base = n, !.attempt = 0]
    BY <1>1, <1>6 DEF Failover
  <2> HIDE DEF n
  <2> QED BY <1>3, <2>1 DEF Requests
<1> QED BY <1>4, <1>5, <1>6

(* A request goes out only from NextBase, past the blacklist, and from     *)
(* Retry, both unless it is cancelled.                                     *)
LEMMA WhoAsks ==
    ASSUME SupplyInv, NEW f \in Slots, StepOf(f), fetch'[f].at = "inflight"
    PROVE  /\ ~Cancelled(f)
           /\ fetch[f].at = "sleep" \/ Url(f) \notin blacklist
<1>1. CASE NextBase(f)
  BY <1>1, AnsweredAt DEF NextBase
<1>2. CASE Retry(f)
  BY <1>2 DEF Retry
<1>3. CASE Responds(f) \/ Aborts(f)
  BY <1>3, AnsweredAt DEF Responds, Aborts
<1>4. CASE Transient(f) \/ Unanswered(f) \/ Refused(f)
  BY <1>4, AnsweredAt DEF Transient, Unanswered, Refused
<1>5. CASE ReadBody(f)
  BY <1>5, AnsweredAt DEF ReadBody
<1> QED BY <1>1, <1>2, <1>3, <1>4, <1>5 DEF StepOf

LEMMA NextSplits ==
    ASSUME [Next]_vars
    PROVE  \/ \E g \in Slots : StepOf(g)
           \/ StreamStep \/ LeaveRun \/ CancelFetches \/ UNCHANGED vars
BY DEF Next, FetchStep, StepOf

(* A URL is blacklisted by its own failure only, and is not asked for      *)
(* again, with one request under way or many.                              *)
THEOREM BlacklistIsSound == Spec => BlacklistIsFair
<1>1. ASSUME SupplyInv, [Next]_vars, NEW u \in blacklist' \ blacklist
      PROVE  u \in spent'
  <2>1. PICK g \in Slots : StepOf(g)
    <3>1. 1 \in Slots
      BY FetchAssumption DEF Slots
    <3> QED BY <1>1, <3>1, NextSplits, StreamSends
  <2>2. Refused(g)
    BY <1>1, <2>1 DEF StepOf, NextBase, Responds, Aborts, Transient, Unanswered, Retry, ReadBody
  <2> QED BY <1>1, <2>2 DEF Refused
<1>2. ASSUME SupplyInv, [Next]_vars, NEW f \in Slots,
             fetch[f].at # "sleep" /\ fetch[f].at # "inflight", fetch'[f].at = "inflight"
      PROVE  Url(f) \notin blacklist
  <2>1. fetch'[f] # fetch[f]
    BY <1>2
  <2>2. PICK g \in Slots : StepOf(g)
    BY <1>2, <2>1, NextSplits, StreamSends
  <2>3. g = f
    BY <1>2, <2>1, <2>2, SlotsAreSeparate
  <2> QED BY <1>2, <2>2, <2>3, WhoAsks
<1>3. SupplyInv /\ [Next]_vars =>
          /\ [\A u \in blacklist' \ blacklist : u \in spent']_vars
          /\ [\A f \in Slots :
                  /\ fetch[f].at # "sleep" /\ fetch[f].at # "inflight"
                  /\ fetch'[f].at = "inflight"
                  => Url(f) \notin blacklist]_vars
  BY <1>1, <1>2
<1>4. Spec => BlacklistIsEarned /\ BlacklistedIsLeftAlone
  BY <1>3, SupplyInvariant, PTL DEF Spec, BlacklistIsEarned, BlacklistedIsLeftAlone
<1> QED BY <1>4 DEF BlacklistIsFair

(* Once a pause has cancelled it, a fetch sends nothing more, wherever it  *)
(* is between attempts and bases.                                          *)
THEOREM CancelledFetchIsQuiet == Spec => CancelledIsQuiet
<1>1. ASSUME SupplyInv, [Next]_vars, NEW f \in Slots, Cancelled(f), fetch'[f].at = "inflight"
      PROVE  fetch'[f] = fetch[f]
  <2>1. CASE StreamStep \/ LeaveRun \/ CancelFetches \/ UNCHANGED vars
    BY <1>1, <2>1, StreamSends
  <2>2. CASE \E g \in Slots : StepOf(g)
    <3>1. PICK g \in Slots : StepOf(g)
      BY <2>2
    <3>2. g # f
      BY <1>1, <3>1, WhoAsks
    <3> QED BY <1>1, <3>1, <3>2, SlotsAreSeparate
  <2> QED BY <1>1, <2>1, <2>2, NextSplits
<1>2. SupplyInv /\ [Next]_vars =>
          [\A f \in Slots :
               /\ fetch[f].at \in {"base", "inflight", "sleep"} /\ Cancelled(f)
               => fetch'[f].at # "inflight" \/ fetch'[f] = fetch[f]]_vars
  BY <1>1
<1> QED BY <1>2, SupplyInvariant, PTL DEF Spec, CancelledIsQuiet

=============================================================================
