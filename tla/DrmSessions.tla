----------------------------- MODULE DrmSessions -----------------------------
(***************************************************************************)
(* License sessions across manifest ticks, key rotation and renewal        *)
(* (drm/coordinator.rs, drm/widevine.rs, drm/renewal), and the decryption  *)
(* of media by tracks that share the coordinator behind one lock           *)
(* (schedule/segment_decrypt.rs).                                          *)
(*                                                                         *)
(* A PSSH stands for its session key, its content keys for its key ids; an *)
(* Arc<License> is its place in the sequence of licenses.  The run loop    *)
(* synchronises and polls between two joins of the tracks, never beside    *)
(* them (stream_controller/mod.rs:171).                                    *)
(***************************************************************************)
EXTENDS Integers, Sequences, FiniteSets, SequencesExt

CONSTANTS
    Tracks,         \* track t plays Adaptation Set t
    Pssh,           \* Widevine PSSH boxes
    KeysOf,         \* the content keys a license for a PSSH brings
    Presentations,  \* sequences of ticks: [mpd, period, sets, media]
    Policies,       \* what a license may say of its renewal
    Fallback,       \* fallback_license_uri
    Lead,           \* RENEWAL_LEAD_TIME
    NoTime,         \* None of an Option<Instant>
    MaxNow,         \* bound: time
    MaxFailures     \* bound: license requests that fail

ASSUME DrmAssumption ==
    /\ Tracks \subseteq Nat \ {0}
    /\ Lead \in Nat /\ MaxNow \in Nat /\ MaxFailures \in Nat /\ NoTime \notin Int
    /\ "none" \notin Pssh

ASSUME PresentationAssumption ==
    \A k \in DOMAIN Presentations :
        LET ticks == Presentations[k]
        IN  /\ Len(ticks) \in Nat \ {0} /\ DOMAIN ticks = 1 .. Len(ticks)
            /\ \A n \in DOMAIN ticks : Len(ticks[n].sets) \in Nat

ASSUME PolicyAssumption ==
    Policies \subseteq [ renews : BOOLEAN, delay : Nat \cup {NoTime}, duration : Nat,
                         control : Nat, retry : Nat ]

VARIABLES
    world,          \* the presentation, time, failures so far
    loop,           \* the run loop: its step, its tick
    coordinator,    \* the manager's sessions, those of sets and Representations
    licenses,       \* LicenseInner of every license
    lock,           \* who holds the coordinator's lock, and its work
    track,          \* per track: its step, its segment, the license it took
    delivered,      \* per track: whether each segment went out in clear
    asked           \* per PSSH: the license requests made for it

vars == <<world, loop, coordinator, licenses, lock, track, delivered, asked>>

None == 0
Nobody == 0
Syncer == -1
Free == [by |-> Nobody, todo |-> <<>>]

Init ==
    /\ \E k \in DOMAIN Presentations : world = [kind |-> k, now |-> 0, failures |-> 0]
    /\ loop = [at |-> "sync", tick |-> 1, now |-> 0, polled |-> {}]
    /\ coordinator = [manager |-> [p \in Pssh |-> None], sets |-> <<>>, reps |-> <<>>,
                      urls |-> <<>>]
    /\ licenses = <<>>
    /\ lock = Free
    /\ track = [t \in Tracks |-> [at |-> "off", pos |-> 1, license |-> None]]
    /\ delivered = [t \in Tracks |-> <<>>]
    /\ asked = [p \in Pssh |-> 0]

Presentation == Presentations[world.kind]
Now == Presentation[loop.tick]

-----------------------------------------------------------------------------
(* What the MPD and the media signal.                                      *)

Distinct(s) ==
    FoldLeft(LAMBDA kept, x : IF Contains(kept, x) THEN kept ELSE Append(kept, x), <<>>, s)

\* merge_prefer_child
PreferChild(child, parent) ==
    [ pssh |-> Distinct(child.pssh \o parent.pssh), urls |-> Distinct(child.urls \o parent.urls) ]

SetLevel(set) == PreferChild(set.level, PreferChild(Now.period, Now.mpd))
RepLevel(set, rep) == PreferChild(rep.level, SetLevel(set))

\* extract_in_band_drm: the boxes of the Init, then those of the segment
InBand(segment) == Distinct(segment.init \o segment.media)

Task(set, rep, pssh, urls) == [set |-> set, rep |-> rep, pssh |-> pssh, urls |-> urls]

\* What sync_from_drm_info works through: a set, then its Representations.
SetTasks(i) ==
    LET set   == Now.sets[i]
        own   == SetLevel(set)
        first == IF own.pssh = <<>> THEN "none" ELSE Head(own.pssh)
        reps  == SelectSeq(set.reps, LAMBDA r : RepLevel(set, r).pssh # <<>>)
    IN  <<Task(i, "clear", first, own.urls)>>
        \o [n \in DOMAIN reps |-> Task(i, reps[n].id, Head(RepLevel(set, reps[n]).pssh),
                                       RepLevel(set, reps[n]).urls)]

SyncTasks == FlattenSeq([i \in DOMAIN Now.sets |-> SetTasks(i)])

\* What ensure_in_band_drm works through for a segment.
SegmentTasks(t, segment) ==
    LET urls  == IF t \in DOMAIN coordinator.urls THEN coordinator.urls[t] ELSE <<>>
        boxes == InBand(segment)
    IN  [n \in DOMAIN boxes |-> Task(t, segment.rep, boxes[n], urls)]

-----------------------------------------------------------------------------
(* Renewal schedules.                                                      *)

Earlier(a, b) ==
    IF a = NoTime THEN b ELSE IF b = NoTime THEN a ELSE IF a < b THEN a ELSE b

AtLeast(a, b) == IF a < b THEN b ELSE a

\* schedule_from_license_message
LicenseSchedule(policy, now) ==
    LET ends == IF policy.renews /\ policy.duration # 0 THEN now + policy.duration ELSE NoTime
    IN  [ renews |-> policy.renews, expires |-> ends, retry |-> policy.retry,
          due |-> IF policy.renews /\ policy.delay # NoTime THEN now + policy.delay
                  ELSE IF ends = NoTime THEN NoTime ELSE AtLeast(ends - Lead, now) ]

\* schedule_from_key_control: the lead is at most a tenth of the TTL
ControlSchedule(policy, now) ==
    LET lead == IF Lead < policy.control \div 10 THEN Lead ELSE policy.control \div 10
    IN  IF policy.control = 0
        THEN [renews |-> FALSE, expires |-> NoTime, due |-> NoTime, retry |-> 0]
        ELSE [ renews |-> FALSE, expires |-> now + policy.control,
               due |-> now + policy.control - lead, retry |-> 0 ]

\* merge_schedule
MergeSchedule(license, s) ==
    [license EXCEPT
        !.renews = @ \/ s.renews, !.due = Earlier(@, s.due), !.expires = Earlier(@, s.expires),
        !.retry = IF s.retry > 0 THEN s.retry ELSE @]

DefaultRetry == 30
MaxShift == 6

\* 1 << failed.min(MAX_BACKOFF_SHIFT)
Doubled(failed) ==
    <<1, 2, 4, 8, 16, 32, 64>>[1 + (IF failed < MaxShift THEN failed ELSE MaxShift)]

\* A slip: failures do not lengthen the interval.
Backoff_Flat(license) == IF license.retry = 0 THEN DefaultRetry ELSE license.retry

\* retry_interval_with_backoff
Backoff(license) ==
    (IF license.retry = 0 THEN DefaultRetry ELSE license.retry) * Doubled(license.failed)

\* renewal_can_renew and needs_renewal, which needs a renew_after
NeedsRenewal(license, now) ==
    /\ license.due # NoTime /\ now >= license.due
    /\ license.last # NoTime => now - license.last >= Backoff(license)

Expired(license) == license.expires # NoTime /\ world.now >= license.expires

-----------------------------------------------------------------------------
(* Licenses.                                                               *)

NewLicense ==
    [ keys |-> {}, renews |-> FALSE, due |-> NoTime, expires |-> NoTime, retry |-> 0,
      last |-> NoTime, failed |-> 0, granted |-> NoTime ]

\* apply_license and merge_keys_from_session: the schedule, then the keys
Applied(license, policy, keys) ==
    LET scheduled == MergeSchedule(MergeSchedule(license, LicenseSchedule(policy, world.now)),
                                   ControlSchedule(policy, world.now))
    IN  [scheduled EXCEPT !.keys = @ \cup keys]

Working == lock.todo # <<>>
Job == Head(lock.todo)

SetLicense(i) == IF i \in DOMAIN coordinator.sets THEN coordinator.sets[i] ELSE None

\* Give license a to the job's set, or to its Representation as well.
Assign(manager, a) ==
    LET i    == Job.set
        reps == coordinator.reps[i]
        own  == IF Job.rep = "clear" THEN <<>>
                ELSE [r \in DOMAIN reps \cup {Job.rep} |-> IF r = Job.rep THEN a ELSE reps[r]]
        urls == coordinator.urls
    IN  coordinator' =
            [ manager |-> manager,
              sets    |-> IF Job.rep = "clear" \/ lock.by # Syncer
                          THEN [coordinator.sets EXCEPT ![i] = a] ELSE coordinator.sets,
              reps    |-> [coordinator.reps EXCEPT ![i] = own],
              urls    |-> IF Job.rep = "clear"
                          THEN [n \in DOMAIN urls \cup {i} |-> IF n = i THEN Job.urls ELSE urls[n]]
                          ELSE urls ]

Finish == lock' = [lock EXCEPT !.todo = Tail(@)]

\* A set without a PSSH has no license of its own.
Unprotected ==
    /\ Working /\ Job.pssh = "none"
    /\ Assign(coordinator.manager, None)
    /\ Finish
    /\ UNCHANGED <<world, loop, licenses, track, delivered, asked>>

Existing ==
    /\ Working /\ Job.pssh \in Pssh /\ coordinator.manager[Job.pssh] # None
    /\ Assign(coordinator.manager, coordinator.manager[Job.pssh])
    /\ Finish
    /\ UNCHANGED <<world, loop, licenses, track, delivered, asked>>

\* A slip: the manager is not looked up.
Missing_Always == Working /\ Job.pssh \in Pssh

Missing == Working /\ Job.pssh \in Pssh /\ coordinator.manager[Job.pssh] = None

HasUrl == Job.urls # <<>> \/ Fallback

\* A slip: a rotated key takes the place of those the license had.
Accumulate_Replaces(license, policy) ==
    Applied([license EXCEPT !.keys = {}], policy, KeysOf[Job.pssh])

\* The keys of the job's PSSH, with those the license has.
Accumulate(license, policy) == Applied(license, policy, KeysOf[Job.pssh])

Acquire ==
    /\ Missing /\ HasUrl
    /\ LET old == SetLicense(Job.set)
           a   == IF old = None THEN Len(licenses) + 1 ELSE old
       IN  /\ \E policy \in Policies :
                  licenses' = IF old = None THEN Append(licenses, Accumulate(NewLicense, policy))
                              ELSE [licenses EXCEPT ![old] = Accumulate(@, policy)]
           /\ Assign([coordinator.manager EXCEPT ![Job.pssh] = a], a)
    /\ asked' = [asked EXCEPT ![Job.pssh] = @ + 1]
    /\ Finish
    /\ UNCHANGED <<world, loop, track, delivered>>

Fail == loop' = [loop EXCEPT !.at = "failed"]

\* The error of one track is the run loop's when all have ended.
Fails(t) == track' = [track EXCEPT ![t].at = "failed"]

Failure == [world EXCEPT !.failures = @ + 1]

\* No URL, no answer, or an answer without keys.
AcquireFails ==
    /\ Missing
    /\ \/ ~HasUrl /\ UNCHANGED world
       \/ HasUrl /\ world.failures < MaxFailures /\ world' = Failure
    /\ IF lock.by = Syncer THEN Fail /\ UNCHANGED track ELSE Fails(lock.by) /\ UNCHANGED loop
    /\ lock' = Free
    /\ UNCHANGED <<coordinator, licenses, delivered, asked>>

-----------------------------------------------------------------------------
(* The run loop between two joins.                                         *)

Over == loop.at \in {"done", "failed"}

Tick ==
    /\ ~Over /\ world.now < MaxNow
    /\ world' = [world EXCEPT !.now = @ + 1]
    /\ UNCHANGED <<loop, coordinator, licenses, lock, track, delivered, asked>>

Resized(s, n, none) == [i \in 1 .. n |-> IF i \in DOMAIN s THEN s[i] ELSE none]

\* A slip: the sessions of Representations are left as many as they were.
SizedFor_SetsOnly(n) == [coordinator EXCEPT !.sets = Resized(@, n, None)]

SizedFor(n) ==
    [coordinator EXCEPT !.sets = Resized(@, n, None), !.reps = Resized(@, n, <<>>)]

\* sync_from_mpd; no sets when the MPD has lost the period
BeginSync ==
    /\ loop.at = "sync" /\ lock = Free
    /\ coordinator' = SizedFor(Len(Now.sets))
    /\ lock' = [by |-> Syncer, todo |-> SyncTasks]
    /\ UNCHANGED <<world, loop, licenses, track, delivered, asked>>

\* poll_renewals takes the time once, and the sessions with it.
BeginPoll ==
    /\ lock.by = Syncer /\ ~Working /\ loop.at = "sync"
    /\ loop' = [loop EXCEPT !.at = "poll", !.now = world.now, !.polled = {}]
    /\ lock' = Free
    /\ UNCHANGED <<world, coordinator, licenses, track, delivered, asked>>

Sessions == {p \in Pssh : coordinator.manager[p] # None}
LicenseOf(p) == licenses[coordinator.manager[p]]

Polled(p) == loop' = [loop EXCEPT !.polled = @ \cup {p}]

\* The map of the sessions has no order.
Polling(p) == loop.at = "poll" /\ p \in Sessions \ loop.polled

NotDue(p) ==
    /\ Polling(p) /\ ~NeedsRenewal(LicenseOf(p), loop.now)
    /\ Polled(p)
    /\ UNCHANGED <<world, coordinator, licenses, lock, track, delivered, asked>>

Due(p) == Polling(p) /\ NeedsRenewal(LicenseOf(p), loop.now)

\* The end of the license the server grants with a renewal.
Granted(policy) ==
    Earlier(LicenseSchedule(policy, world.now).expires, ControlSchedule(policy, world.now).expires)

Renew(p) ==
    /\ Due(p)
    /\ \E policy \in Policies :
           licenses' = [licenses EXCEPT ![coordinator.manager[p]] =
               [Applied(@, policy, {}) EXCEPT !.last = loop.now, !.failed = 0,
                                              !.granted = Granted(policy)]]
    /\ Polled(p)
    /\ UNCHANGED <<world, coordinator, lock, track, delivered, asked>>

\* A slip: any failure is the session's.
Fatal_Always(license) == TRUE

\* A failed renewal ends the session once the license was expired when the poll
\* began.
Fatal(license) == license.expires # NoTime /\ loop.now >= license.expires

\* No answer; or one whose keys are refused, when its schedule is in already.
RenewFails(p) ==
    /\ Due(p) /\ world.failures < MaxFailures
    /\ \E scheduled \in {LicenseOf(p)} \cup
                {MergeSchedule(LicenseOf(p), LicenseSchedule(q, world.now)) : q \in Policies} :
           LET license == [scheduled EXCEPT !.last = loop.now, !.failed = @ + 1]
           IN  /\ licenses' = [licenses EXCEPT ![coordinator.manager[p]] = license]
               /\ IF Fatal(license) THEN Fail ELSE Polled(p)
    /\ world' = Failure
    /\ UNCHANGED <<coordinator, lock, track, delivered, asked>>

\* A slip: one renewal in a poll.
AllPolled_One == loop.polled # {} \/ Sessions = {}

AllPolled == Sessions \subseteq loop.polled

StartStreams ==
    /\ loop.at = "poll" /\ AllPolled
    /\ loop' = [loop EXCEPT !.at = "streams"]
    /\ track' = [t \in Tracks |-> [at |-> "ensure", pos |-> 1, license |-> None]]
    /\ UNCHANGED <<world, coordinator, licenses, lock, delivered, asked>>

Media(t) == IF t \in DOMAIN Now.media THEN Now.media[t] ELSE <<>>

Join ==
    /\ loop.at = "streams"
    /\ \A t \in Tracks : track[t].at = "failed" \/ track[t].pos > Len(Media(t))
    /\ loop' = IF \E t \in Tracks : track[t].at = "failed" THEN [loop EXCEPT !.at = "failed"]
               ELSE IF loop.tick = Len(Presentation) THEN [loop EXCEPT !.at = "done"]
               ELSE [loop EXCEPT !.at = "sync", !.tick = @ + 1]
    /\ UNCHANGED <<world, coordinator, licenses, lock, track, delivered, asked>>

-----------------------------------------------------------------------------
(* A track's segments.                                                     *)

Playing(t) == loop.at = "streams" /\ track[t].at # "failed" /\ track[t].pos <= Len(Media(t))
Segment(t) == Media(t)[track[t].pos]

\* ensure_from_fragments, and recover_from_decrypt_failure after it
TakeLock(t) ==
    /\ Playing(t) /\ track[t].at \in {"ensure", "recover"} /\ lock = Free
    /\ lock' = [by |-> t, todo |-> SegmentTasks(t, Segment(t))]
    /\ UNCHANGED <<world, loop, coordinator, licenses, track, delivered, asked>>

\* A slip: the track keeps the lock for its retry, and asks for it again.
Released_Never == IF track[lock.by].at = "recover" THEN lock ELSE Free

Released == Free

\* A slip: only what the Representation has itself.
LicenseFor_RepOnly(t) ==
    LET reps == coordinator.reps[t]
    IN  IF Segment(t).rep \in DOMAIN reps THEN reps[Segment(t).rep] ELSE None

\* license_for_rep
LicenseFor(t) ==
    LET reps == coordinator.reps[t]
    IN  IF Segment(t).rep \in DOMAIN reps THEN reps[Segment(t).rep] ELSE SetLicense(t)

\* After a recovery the license is taken before the lock is released.
Release(t) ==
    /\ Playing(t) /\ lock.by = t /\ ~Working
    /\ track' = [track EXCEPT
           ![t] = IF @.at = "ensure" THEN [@ EXCEPT !.at = "license"]
                  ELSE [@ EXCEPT !.at = "again", !.license = LicenseFor(t)]]
    /\ lock' = Released
    /\ UNCHANGED <<world, loop, coordinator, licenses, delivered, asked>>

TakeLicense(t) ==
    /\ Playing(t) /\ track[t].at = "license" /\ lock = Free
    /\ track' = [track EXCEPT ![t].at = "decrypt", ![t].license = LicenseFor(t)]
    /\ UNCHANGED <<world, loop, coordinator, licenses, lock, delivered, asked>>

Deciding(t) == Playing(t) /\ track[t].at \in {"decrypt", "again"}

Emit(t, clear) ==
    /\ delivered' = [delivered EXCEPT ![t] = Append(@, clear)]
    /\ track' = [track EXCEPT ![t] = [at |-> "ensure", pos |-> @.pos + 1, license |-> None]]
    /\ UNCHANGED <<world, loop, coordinator, licenses, lock, asked>>

Encrypted(t) == Segment(t).key # "none"

\* Without a license the bytes go out as they came.
PassThrough(t) ==
    /\ Deciding(t) /\ track[t].at = "decrypt" /\ track[t].license = None
    /\ Emit(t, ~Encrypted(t))

Held(t) == licenses[track[t].license]

HasKey(t) == ~Encrypted(t) \/ Segment(t).key \in Held(t).keys

\* "not encrypted" is no error either.
Decrypt(t) ==
    /\ Deciding(t) /\ track[t].license # None
    /\ ~Expired(Held(t)) /\ HasKey(t)
    /\ Emit(t, TRUE)

Recover(t) ==
    /\ Deciding(t) /\ track[t].at = "decrypt" /\ track[t].license # None
    /\ ~Expired(Held(t)) /\ ~HasKey(t)
    /\ track' = [track EXCEPT ![t].at = "recover"]
    /\ UNCHANGED <<world, loop, coordinator, licenses, lock, delivered, asked>>

DecryptFails(t) ==
    /\ Deciding(t)
    /\ \/ track[t].license # None /\ Expired(Held(t))
       \/ track[t].at = "again" /\ (track[t].license = None \/ ~HasKey(t))
    /\ Fails(t)
    /\ UNCHANGED <<world, loop, coordinator, licenses, lock, delivered, asked>>

-----------------------------------------------------------------------------
Coordinator == Unprotected \/ Existing \/ Acquire \/ AcquireFails

RunLoop ==
    \/ BeginSync \/ BeginPoll \/ StartStreams \/ Join
    \/ \E p \in Pssh : NotDue(p) \/ Renew(p) \/ RenewFails(p)

Stream(t) ==
    \/ TakeLock(t) \/ Release(t) \/ TakeLicense(t)
    \/ PassThrough(t) \/ Decrypt(t) \/ Recover(t) \/ DecryptFails(t)

Work == Coordinator \/ RunLoop \/ \E t \in Tracks : Stream(t)

Next ==
    \/ Tick
    \/ Over /\ UNCHANGED vars
    \/ ~Over /\ Work

Spec == Init /\ [][Next]_vars

\* Requests are answered or time out and the executor runs what is ready: as long
\* as something can go on something does, whichever it is.
FairSpec == Spec /\ WF_vars(~Over /\ Work)

-----------------------------------------------------------------------------
(* Properties.                                                             *)

License ==
    [ keys : SUBSET UNION {KeysOf[p] : p \in Pssh}, renews : BOOLEAN, due : Nat \cup {NoTime},
      expires : Nat \cup {NoTime}, retry : Nat, last : Nat \cup {NoTime}, failed : 0 .. MaxFailures,
      granted : Nat \cup {NoTime} ]

TypeOK ==
    /\ loop.at \in {"sync", "poll", "streams", "done", "failed"}
    /\ loop.tick \in DOMAIN Presentation /\ loop.polled \subseteq Pssh
    /\ \A a \in DOMAIN licenses : licenses[a] \in License
    /\ \A p \in Pssh : coordinator.manager[p] \in 0 .. Len(licenses)
    /\ \A i \in DOMAIN coordinator.sets : coordinator.sets[i] \in 0 .. Len(licenses)
    /\ DOMAIN coordinator.reps = DOMAIN coordinator.sets
    /\ lock.by \in {Nobody, Syncer} \cup Tracks

\* The license a PSSH leads to has its keys, whatever rotations, renewals and
\* other PSSHs have been merged into it since.  (drm/coordinator.rs:265)
LicenseHasItsKeys ==
    \A p \in Pssh : coordinator.manager[p] # None => KeysOf[p] \subseteq LicenseOf(p).keys

\* One license request per PSSH and session: not one per tick, track,
\* Representation or segment that signals it.  (drm/coordinator.rs:272)
AskedOnce == \A p \in Pssh : asked[p] <= 1

\* A PSSH is licensed once, and for good.
LicenseInv == TypeOK /\ LicenseHasItsKeys /\ AskedOnce

\* A set that has a key during a period keeps it: refuted, a PSSH known from another set
\* puts that set's license in the place of its own.
\* (drm/coordinator.rs:166-171)
KeysKept ==
    [][\A i \in DOMAIN coordinator.sets \cap DOMAIN coordinator'.sets :
           loop.at = "streams" /\ coordinator.sets[i] # None =>
               licenses[coordinator.sets[i]].keys
                   \subseteq licenses'[coordinator'.sets[i]].keys]_vars

\* The PSSHs a track has met in this tick: of its set and Representation in
\* the MPD, of the boxes up to its segment.
Met(t) ==
    LET set  == Now.sets[t]
        reps == SelectSeq(set.reps, LAMBDA r : r.id = Segment(t).rep)
    IN  ToSet(SetLevel(set).pssh)
            \cup UNION {ToSet(RepLevel(set, reps[n]).pssh) : n \in DOMAIN reps}
            \cup UNION {ToSet(InBand(Media(t)[n])) : n \in 1 .. track[t].pos}

\* An encrypted segment goes out as it came only when nothing in this tick has
\* told the track of a license: neither a rotation, a Representation's own
\* protection nor the other track's work makes it lose one.
\* (schedule/segment_decrypt.rs:21)
OnlyForgottenPasses ==
    [][\A t \in Tracks :
           Len(delivered'[t]) > Len(delivered[t]) /\ ~Last(delivered'[t]) => Met(t) = {}]_vars

\* No encrypted segment goes out as it came: refuted, a PSSH that came in a media
\* segment is forgotten at the next tick (drm/coordinator.rs:116-134), though the
\* coordinator "manages Widevine sessions across manifest refresh and key
\* rotation" (drm/coordinator.rs:23).
NoCiphertext == \A t \in Tracks : \A n \in DOMAIN delivered[t] : delivered[t][n]

\* Two attempts to renew one license are as far apart as the failures before
\* ask for, also when several PSSHs share it.  (drm/renewal/state.rs:112)
RenewalPaced ==
    [][\A a \in DOMAIN licenses :
           LET l == licenses[a]
           IN  l.last # NoTime /\ l.retry > 0 /\ licenses'[a].last # l.last =>
                   licenses'[a].last >= l.last + l.retry * Doubled(l.failed)]_vars

\* No license that was due when the poll began is left out of it.
\* (drm/coordinator.rs:203)
NoneOverlooked ==
    [][loop.at = "poll" /\ loop'.at = "streams" =>
           \A a \in DOMAIN licenses : ~NeedsRenewal(licenses[a], loop.now)]_vars

\* A renewal that fails in time leaves the session alone.
\* (drm/coordinator.rs:232-243)
FailsOnlyIfExpired ==
    [][loop.at = "poll" /\ loop'.at = "failed" =>
           \E a \in DOMAIN licenses : /\ licenses'[a].failed > licenses[a].failed
                                      /\ licenses'[a].expires # NoTime
                                      /\ loop.now >= licenses'[a].expires]_vars

\* A poll renews what is due, and fails for nothing less than an expiry.
PollIsComplete == NoneOverlooked /\ FailsOnlyIfExpired

\* No track waits for ever for the coordinator: the session gets to its end.
\* (schedule/segment_decrypt.rs:33-42)
SessionEnds == <>Over

\* A license that the server has renewed in time can be used for as long as the
\* server has granted: refuted, merge_schedule keeps the earliest of the ends
\* (drm/renewal/state.rs:37).
RenewalExtends ==
    \A a \in DOMAIN licenses :
        licenses[a].granted # NoTime /\ world.now < licenses[a].granted => ~Expired(licenses[a])
=============================================================================
