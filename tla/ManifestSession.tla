---------------------------- MODULE ManifestSession ----------------------------
(***************************************************************************)
(* A manifest across its refreshes (manifest_lifecycle/update.rs): patches *)
(* with a full MPD as the fallback, Location, remote Periods, and content  *)
(* steering with its own refreshes (manifest_lifecycle/content_steering).  *)
(*                                                                         *)
(* A server answers with any version it has published: caches may be       *)
(* behind.  A URI is the server it leads to.                               *)
(***************************************************************************)
EXTENDS ManifestDocument

CONSTANTS
    Histories,  \* per kind of presentation: [versions, patches, servers]
    Dcsms,      \* per steering server: the steering manifests it may serve
    Origin,     \* the server of the URI the player was given
    Here,       \* a reference relative to the document that holds it
    NoTime,     \* None of an Option<f64>, of an Option<Instant>
    MaxNow      \* bound: wall time

ASSUME ManifestAssumption ==
    /\ MaxNow \in Nat /\ NoTime \notin Int
    /\ \A k \in DOMAIN Histories : \A i \in DOMAIN Histories[k].versions :
           Histories[k].versions[i].publish \in Nat \ {0}

VARIABLES
    world,      \* the presentation, wall time
    held,       \* the document in use, and the URI it is refreshed from
    request,    \* the locals of refresh
    steering    \* ContentSteeringState

vars == <<world, held, request, steering>>

NoConfig == <<>>
NoManifest == [priority |-> <<>>, reload |-> NoRef, ttl |-> NoTime]
Cleared ==
    [ config |-> NoConfig, manifest |-> NoManifest, reload |-> NoRef, fetchedAt |-> NoTime,
      pathway |-> NoRef ]

Init ==
    /\ \E k \in DOMAIN Histories : world = [kind |-> k, now |-> 1]
    /\ held = [doc |-> NoDoc, uri |-> Origin]
    /\ request = [at |-> "idle", wake |-> 0, patches |-> <<>>, doc |-> NoDoc, pass |-> 0]
    /\ steering = Cleared

Tick ==
    /\ world.now < MaxNow
    /\ world' = [world EXCEPT !.now = @ + 1]
    /\ UNCHANGED <<held, request, steering>>

History == Histories[world.kind]

PublishedDocs == {d \in Range(History.versions) : d.publish <= world.now}
PublishedPatches == {p \in History.patches : p.publish <= world.now}

\* merge_base_url
Merge(base, ref) == IF ref \in {NoRef, Here} THEN base ELSE ref

-----------------------------------------------------------------------------
(* The document.                                                           *)

PatchValid(doc, location) ==
    /\ location.ref # NoRef
    /\ \/ location.ttl = NoTime
       \/ location.ttl >= 0 /\ doc.publish + location.ttl > world.now

\* patch_fetch_uris
ActivePatches ==
    LET valid == SelectSeq(held.doc.patches, LAMBDA l : PatchValid(held.doc, l))
    IN  [i \in DOMAIN valid |-> Merge(held.uri, valid[i].ref)]

\* What is asked next: the next patch, or a full MPD after the last one.
Ask(uris) ==
    request' = [request EXCEPT !.at = IF uris = <<>> THEN "full" ELSE "patch",
                               !.patches = uris, !.doc = NoDoc, !.pass = 0]

Refresh ==
    /\ request.at = "idle" /\ request.wake <= world.now
    /\ Ask(ActivePatches)
    /\ UNCHANGED <<world, held, steering>>

Received(doc) == request' = [request EXCEPT !.at = "xlink", !.doc = doc, !.pass = 1]

\* A slip: the first patch that fails ends the attempts.
PatchLost_GivesUp == Ask(<<>>)

\* A slip: the same patch is asked for again.
PatchLost_Retries == Ask(request.patches)

\* An error of one patch: the next one, in document order.
PatchLost == Ask(Tail(request.patches))

GetPatch ==
    /\ request.at = "patch"
    /\ \E patch \in PublishedPatches :
           LET doc == Apply(held.doc, patch)
           IN  IF doc = NoDoc THEN PatchLost ELSE Received(doc)
    /\ UNCHANGED <<world, held, steering>>

PatchFails ==
    /\ request.at = "patch"
    /\ PatchLost
    /\ UNCHANGED <<world, held, steering>>

GetFull ==
    /\ request.at = "full"
    /\ \E doc \in PublishedDocs : Received(doc)
    /\ UNCHANGED <<world, held, steering>>

Fail ==
    /\ request' = [request EXCEPT !.at = "failed"]
    /\ UNCHANGED <<world, held, steering>>

FullFails == request.at = "full" /\ Fail

\* A slip: passes go on while there is something to resolve.
LastPass_Never == Targets(request.doc.periods) = <<>>

LastPass == Targets(request.doc.periods) = <<>> \/ request.pass > MaxPasses

\* A pass that fetches every remote Period.
ResolvePass ==
    /\ request.at = "xlink" /\ ~LastPass
    /\ request' = [request EXCEPT !.doc.periods = ResolveOnce(@), !.pass = @ + 1]
    /\ UNCHANGED <<world, held, steering>>

\* One that is not to be had fails the pass: the patch, or the refresh.
ResolveFails ==
    /\ request.at = "xlink" /\ ~LastPass
    /\ \E i \in DOMAIN request.doc.periods :
           request.doc.periods[i].href \notin {NoRef, ToZero}
    /\ IF request.patches # <<>>
       THEN PatchLost /\ UNCHANGED <<world, held, steering>>
       ELSE Fail

NewDoc == [request.doc EXCEPT !.periods = StripUnresolved(@)]

Accept ==
    /\ request.at = "xlink" /\ LastPass
    /\ held' = [doc |-> NewDoc, uri |-> Merge(held.uri, request.doc.location)]
    /\ request' = [request EXCEPT !.at = "steering", !.patches = <<>>, !.doc = NoDoc, !.pass = 0]
    /\ UNCHANGED <<world, steering>>

-----------------------------------------------------------------------------
(* Content steering.                                                       *)

\* The server and settings of the document's ContentSteering element.
Config == held.doc.steering

ServerChanged == steering.config # NoConfig /\ steering.config.server # Config.server

\* A slip: a steering manifest that is there is used for good.
NeedsReload_Once == ServerChanged \/ steering.manifest = NoManifest

NeedsReload ==
    \/ ServerChanged
    \/ steering.manifest = NoManifest
    \/ world.now >= steering.fetchedAt + steering.manifest.ttl

\* A slip: what an earlier ContentSteering element left stays.
Unsteered_Keeps == [steering EXCEPT !.config = NoConfig]

\* clear
Unsteered == Cleared

NoSteering ==
    /\ request.at = "steering" /\ Config = NoConfig
    /\ steering' = Unsteered
    /\ request' = [request EXCEPT !.at = "playing"]
    /\ UNCHANGED <<world, held>>

\* The query parameters are decided with it: the first request may have none.
SyncSteering ==
    /\ request.at = "steering" /\ Config # NoConfig
    /\ steering' = [steering EXCEPT
           !.config = Config, !.pathway = IF @ = NoRef THEN Config.default ELSE @]
    /\ request' = [request EXCEPT !.at = IF NeedsReload THEN "dcsm" ELSE "playing"]
    /\ UNCHANGED <<world, held>>

SteeringUri == Merge(steering.config.server, steering.reload)

GetDcsm ==
    /\ request.at = "dcsm"
    /\ \E dcsm \in Dcsms[SteeringUri] :
           steering' = [steering EXCEPT
               !.manifest = dcsm, !.reload = dcsm.reload, !.fetchedAt = world.now,
               !.pathway = IF dcsm.priority = <<>> THEN @ ELSE Head(dcsm.priority)]
    /\ request' = [request EXCEPT !.at = "playing"]
    /\ UNCHANGED <<world, held>>

\* A single attempt; its error is the refresh's.
DcsmFails == request.at = "dcsm" /\ Fail

-----------------------------------------------------------------------------
(* Until the next refresh.                                                 *)

Lesser(a, b) == IF a < b THEN a ELSE b

Remaining ==
    LET left == steering.fetchedAt + steering.manifest.ttl - world.now
    IN  IF left < 0 THEN 0 ELSE left

\* A slip: minimumUpdatePeriod alone.
NextRefreshSleep_UpdateOnly == held.doc.update

NextRefreshSleep ==
    IF steering.manifest # NoManifest /\ held.doc.update # 0
    THEN Lesser(held.doc.update, Remaining)
    ELSE held.doc.update

\* The periods of the tick have been played.
Sleep ==
    /\ request.at = "playing"
    /\ request' = [request EXCEPT !.at = "idle", !.wake = world.now + NextRefreshSleep]
    /\ UNCHANGED <<world, held, steering>>

Answer == \/ GetPatch \/ PatchFails \/ GetFull \/ FullFails
          \/ ResolvePass \/ ResolveFails \/ GetDcsm \/ DcsmFails

Step == Refresh \/ Accept \/ NoSteering \/ SyncSteering

Stopped == request.at \in {"idle", "failed"} /\ world.now = MaxNow /\ UNCHANGED vars

Next == Tick \/ Answer \/ Step \/ Sleep \/ Stopped

Spec == Init /\ [][Next]_vars

\* Every request is answered or times out.
FairSpec == Spec /\ WF_vars(Answer) /\ WF_vars(Step)

-----------------------------------------------------------------------------
(* Properties.                                                             *)

TypeOK ==
    /\ world \in [kind : DOMAIN Histories, now : 1 .. MaxNow]
    /\ request.at \in {"idle", "patch", "full", "xlink", "steering", "dcsm", "playing", "failed"}
    /\ request.pass \in 0 .. MaxPasses + 1
    /\ request.at = "patch" => request.patches # <<>>
    /\ request.at \in {"steering", "dcsm", "playing"} => held.doc # NoDoc
    /\ steering.fetchedAt \in {NoTime} \cup 1 .. MaxNow

\* However a document was come by, from full MPDs and any chain of patches that
\* were applied to documents with their remote Periods in place, it is the one
\* that was published at its publishTime, with its remote Periods in place.
\* (update.rs:95, patch.rs:43, xlink.rs:42)
DocumentIsPublished ==
    held.doc # NoDoc =>
        \E d \in PublishedDocs : d.publish = held.doc.publish /\ held.doc = Expanded(d)

\* A patch brings a newer document, also when a cache serves an old patch: only
\* a full MPD can bring an older one.  (patch.rs:88-97)
PatchesGoForward ==
    [][request.at = "xlink" /\ request.patches # <<>> /\ held'.doc # held.doc
           => held'.doc.publish > held.doc.publish]_vars

\* A full MPD is asked for only when a refresh has asked for every patch that
\* was valid when it began.  (update.rs:102-115)
FullIsLastResort ==
    [][request'.at = "full" =>
           \/ request.at = "full"
           \/ request.at = "idle" /\ ActivePatches = <<>>
           \/ Len(request.patches) = 1]_vars

\* A tick plays under the steering its document asks for: none of an earlier
\* document's, and a steering manifest that had not run out when the document
\* was synchronised.  (content_steering.rs:74-122)
SteeringFollowsDocument ==
    [][request.at \in {"steering", "dcsm"} /\ request'.at = "playing" =>
           IF Config = NoConfig
           THEN steering' = Cleared
           ELSE /\ steering'.config = Config
                /\ steering'.manifest # NoManifest
                /\ \/ steering'.fetchedAt = world.now
                   \/ world.now < steering'.fetchedAt + steering'.manifest.ttl]_vars

\* The sleep between two refreshes does not outlast the steering manifest.
\* (content_steering.rs:178-189)
WakesForSteering ==
    request.at = "idle" /\ steering.manifest # NoManifest /\ held.doc.update # 0 =>
        \/ request.wake <= steering.fetchedAt + steering.manifest.ttl
        \/ request.wake <= world.now

\* Documents are what was published, and no sleep outlasts what steers them.
DocumentInv == TypeOK /\ DocumentIsPublished /\ WakesForSteering

\* Patches come first, every one of them, and lead forward.
PatchesComeFirst == FullIsLastResort /\ PatchesGoForward

\* A refresh comes to an end: remote Periods that name each other do not keep
\* it, and neither do patches that never fit.  (xlink.rs:49-58)
RefreshEnds ==
    request.at \in {"patch", "full", "xlink", "steering", "dcsm"}
        ~> request.at \in {"playing", "failed"}
=============================================================================
