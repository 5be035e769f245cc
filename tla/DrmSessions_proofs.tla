--------------------------- MODULE DrmSessions_proofs ---------------------------
(***************************************************************************)
(* Proofs about DrmSessions: licenses keep the keys of their PSSHs, a PSSH *)
(* is asked for once, and a poll renews what is due at the pace that the   *)
(* failures before ask for.                                                *)
(***************************************************************************)
EXTENDS DrmSessions, SequenceTheorems, TLAPS

Time == Nat \cup {NoTime}

Schedule == [renews : BOOLEAN, expires : Time, due : Time, retry : Nat]

RenewalPolicy ==
    [renews : BOOLEAN, delay : Time, duration : Nat, control : Nat, retry : Nat]

-----------------------------------------------------------------------------
(* Schedules and licenses are of their types.                              *)

LEMMA EarlierType ==
    ASSUME NEW a \in Time, NEW b \in Time
    PROVE  Earlier(a, b) \in Time
BY DEF Earlier, Time

LEMMA LicenseScheduleType ==
    ASSUME NEW policy \in RenewalPolicy, NEW now \in Nat
    PROVE  LicenseSchedule(policy, now) \in Schedule
<1> DEFINE ends == IF policy.renews /\ policy.duration # 0 THEN now + policy.duration ELSE NoTime
<1>1. ends \in Time
  BY DEF RenewalPolicy, Time
<1>2. (IF policy.renews /\ policy.delay # NoTime THEN now + policy.delay
       ELSE IF ends = NoTime THEN NoTime ELSE AtLeast(ends - Lead, now)) \in Time
  <2>1. CASE policy.renews /\ policy.delay # NoTime
    BY <2>1 DEF RenewalPolicy, Time
  <2>2. CASE ~(policy.renews /\ policy.delay # NoTime)
    <3>1. ends # NoTime => AtLeast(ends - Lead, now) \in Nat
      <4> HIDE DEF ends
      <4> QED BY <1>1, DrmAssumption DEF AtLeast, Time
    <3> HIDE DEF ends
    <3> QED BY <2>2, <3>1 DEF Time
  <2> QED BY <2>1, <2>2
<1>3. policy.renews \in BOOLEAN /\ policy.retry \in Nat
  BY DEF RenewalPolicy
<1> QED BY <1>1, <1>2, <1>3 DEF LicenseSchedule, Schedule

LEMMA ControlScheduleType ==
    ASSUME NEW policy \in RenewalPolicy, NEW now \in Nat
    PROVE  ControlSchedule(policy, now) \in Schedule
<1> DEFINE lead == IF Lead < policy.control \div 10 THEN Lead ELSE policy.control \div 10
<1>1. policy.control \in Nat
  BY DEF RenewalPolicy
<1>2. lead \in Nat /\ lead <= policy.control
  BY <1>1, DrmAssumption
<1>3. now + policy.control - lead \in Nat
  <2> HIDE DEF lead
  <2> QED BY <1>1, <1>2
<1> QED BY <1>1, <1>3 DEF ControlSchedule, Schedule, Time

LEMMA MergeScheduleType ==
    ASSUME NEW license \in License, NEW s \in Schedule
    PROVE  /\ MergeSchedule(license, s) \in License
           /\ MergeSchedule(license, s).keys = license.keys
           /\ MergeSchedule(license, s).failed = license.failed
           /\ MergeSchedule(license, s).last = license.last
<1>1. /\ license.due \in Time /\ license.expires \in Time
      /\ s.due \in Time /\ s.expires \in Time
  BY DEF License, Schedule, Time
<1>2. Earlier(license.due, s.due) \in Time /\ Earlier(license.expires, s.expires) \in Time
  BY <1>1, EarlierType
<1>3. s.renews \in BOOLEAN /\ s.retry \in Nat
  BY DEF Schedule
<1> QED BY <1>2, <1>3 DEF MergeSchedule, License, Time

LEMMA AppliedType ==
    ASSUME NEW license \in License, NEW policy \in RenewalPolicy, world.now \in Nat,
           NEW keys \in SUBSET UNION {KeysOf[p] : p \in Pssh}
    PROVE  /\ Applied(license, policy, keys) \in License
           /\ Applied(license, policy, keys).keys = license.keys \cup keys
           /\ Applied(license, policy, keys).failed = license.failed
           /\ Applied(license, policy, keys).last = license.last
<1> DEFINE first  == MergeSchedule(license, LicenseSchedule(policy, world.now))
           second == MergeSchedule(first, ControlSchedule(policy, world.now))
<1>1. /\ first \in License
      /\ first.keys = license.keys /\ first.failed = license.failed /\ first.last = license.last
  BY LicenseScheduleType, MergeScheduleType
<1>2. /\ second \in License
      /\ second.keys = license.keys /\ second.failed = license.failed
      /\ second.last = license.last
  <2> HIDE DEF first
  <2> QED BY <1>1, ControlScheduleType, MergeScheduleType
<1>3. Applied(license, policy, keys) = [second EXCEPT !.keys = @ \cup keys]
  BY DEF Applied
<1> HIDE DEF second
<1> QED BY <1>2, <1>3 DEF License

LEMMA NewLicenseType ==
    /\ NewLicense \in License /\ NewLicense.keys = {} /\ NewLicense.failed = 0
    /\ NewLicense.last = NoTime
BY DrmAssumption DEF NewLicense, License

LEMMA BackoffPositive ==
    ASSUME NEW license \in License
    PROVE  /\ Doubled(license.failed) \in Nat \ {0}
           /\ Backoff(license) \in Nat \ {0}
           /\ license.retry > 0 => Backoff(license) = license.retry * Doubled(license.failed)
<1>1. license.failed \in Nat /\ license.retry \in Nat
  BY DrmAssumption DEF License
<1>2. PICK n \in 0 .. 6 : Doubled(license.failed) = <<1, 2, 4, 8, 16, 32, 64>>[1 + n]
  BY <1>1 DEF Doubled, MaxShift
<1>3. Doubled(license.failed) \in {1, 2, 4, 8, 16, 32, 64}
  BY <1>2
<1> QED BY <1>1, <1>3 DEF Backoff, DefaultRetry

-----------------------------------------------------------------------------
(* The inductive invariant.                                                *)

WorldOK ==
    /\ world.kind \in DOMAIN Presentations /\ world.now \in Nat
    /\ world.failures \in 0 .. MaxFailures
    /\ DOMAIN world = {"kind", "now", "failures"}

LoopOK ==
    /\ loop.at \in {"sync", "poll", "streams", "done", "failed"}
    /\ loop.tick \in DOMAIN Presentation /\ loop.polled \subseteq Pssh
    /\ loop.now \in Nat
    /\ DOMAIN loop = {"at", "tick", "now", "polled"}

LicensesOK ==
    /\ licenses \in Seq(License)
    /\ \A a \in 1 .. Len(licenses) : licenses[a].failed <= world.failures

CoordinatorOK ==
    /\ coordinator.manager \in [Pssh -> 0 .. Len(licenses)]
    /\ \A i \in DOMAIN coordinator.sets : coordinator.sets[i] \in 0 .. Len(licenses)
    /\ DOMAIN coordinator.reps = DOMAIN coordinator.sets
    /\ DOMAIN coordinator = {"manager", "sets", "reps", "urls"}

LockOK == lock.by \in {Nobody, Syncer} \cup Tracks /\ DOMAIN lock = {"by", "todo"}

\* A license has been asked for exactly by the PSSHs that have one, it has
\* their keys, and none is out of reach of the poll.
Accounted ==
    /\ asked \in [Pssh -> Nat]
    /\ \A p \in Pssh :
           /\ asked[p] = IF coordinator.manager[p] = None THEN 0 ELSE 1
           /\ coordinator.manager[p] # None => KeysOf[p] \subseteq LicenseOf(p).keys
    /\ \A a \in 1 .. Len(licenses) : \E p \in Pssh : coordinator.manager[p] = a

\* While a poll goes on nobody works, and what it has seen is not due any more.
PollOK ==
    loop.at = "poll" =>
        /\ ~Working
        /\ \A p \in loop.polled : /\ coordinator.manager[p] # None
                                  /\ ~NeedsRenewal(LicenseOf(p), loop.now)

DrmInv ==
    /\ WorldOK /\ LoopOK /\ LicensesOK /\ CoordinatorOK /\ LockOK
    /\ Accounted /\ PollOK

(* It implies the invariant of the runs.                                   *)
LEMMA InvImpliesLicenseInv == DrmInv => LicenseInv
<1> SUFFICES ASSUME DrmInv PROVE LicenseInv
  OBVIOUS
<1>1. TypeOK
  BY DEF DrmInv, WorldOK, LoopOK, LicensesOK, CoordinatorOK, LockOK, TypeOK
<1>2. LicenseHasItsKeys
  BY DEF DrmInv, Accounted, LicenseHasItsKeys
<1>3. AskedOnce
  BY DEF DrmInv, Accounted, AskedOnce
<1> QED BY <1>1, <1>2, <1>3 DEF LicenseInv

LEMMA InitEstablishesInv == Init => DrmInv
<1> SUFFICES ASSUME Init PROVE DrmInv
  OBVIOUS
<1>1. WorldOK /\ LoopOK
  BY DrmAssumption, PresentationAssumption DEF Init, WorldOK, LoopOK, Presentation
<1>2. LicensesOK /\ CoordinatorOK /\ LockOK
  BY DEF Init, LicensesOK, CoordinatorOK, LockOK, None, Free, Nobody
<1>3. Accounted /\ PollOK
  BY DEF Init, Accounted, PollOK, None
<1> QED BY <1>1, <1>2, <1>3 DEF DrmInv

-----------------------------------------------------------------------------
(* What an action leaves alone keeps its part of the invariant.            *)

LEMMA OneLicense ==
    ASSUME LicensesOK, NEW a \in 1 .. Len(licenses)
    PROVE  /\ Len(licenses) \in Nat
           /\ licenses[a] \in License /\ licenses[a].failed \in Nat
           /\ licenses[a].failed <= world.failures
<1>1. licenses[a] \in License
  BY ElementOfSeq DEF LicensesOK
<1> QED BY <1>1, DrmAssumption DEF LicensesOK, License

\* Nothing that the licenses of PSSHs depend on changes.
SameLicenses ==
    /\ UNCHANGED <<licenses, asked>>
    /\ coordinator'.manager = coordinator.manager

LEMMA LicensesKept ==
    ASSUME DrmInv, SameLicenses, world'.failures \in Nat, world.failures <= world'.failures
    PROVE  LicensesOK' /\ Accounted'
<1>1. LicensesOK'
  <2>1. \A a \in 1 .. Len(licenses) : licenses[a].failed \in Nat
    BY OneLicense DEF DrmInv
  <2> QED BY <2>1 DEF DrmInv, WorldOK, LicensesOK, SameLicenses
<1>2. Accounted'
  BY DEF DrmInv, Accounted, SameLicenses, LicenseOf
<1> QED BY <1>1, <1>2

\* The tracks and what they deliver are of no concern.
LEMMA TrackStep ==
    ASSUME DrmInv, UNCHANGED <<world, loop, coordinator, licenses, asked>>,
           LockOK', loop.at # "poll" \/ lock' = lock
    PROVE  DrmInv'
<1>1. WorldOK' /\ LoopOK' /\ CoordinatorOK'
  BY DEF DrmInv, WorldOK, LoopOK, CoordinatorOK, Presentation
<1>2. LicensesOK' /\ Accounted'
  <2>1. SameLicenses /\ world'.failures \in Nat /\ world.failures <= world'.failures
    BY DrmAssumption DEF SameLicenses, DrmInv, WorldOK
  <2> QED BY <2>1, LicensesKept
<1>3. PollOK'
  BY DEF DrmInv, PollOK, Working, LicenseOf
<1> QED BY <1>1, <1>2, <1>3 DEF DrmInv

-----------------------------------------------------------------------------
(* The jobs of whoever holds the lock.                                     *)

LEMMA AssignKeeps ==
    ASSUME CoordinatorOK, NEW n \in Nat, n >= Len(licenses), Len(licenses) \in Nat,
           NEW manager \in [Pssh -> 0 .. n], NEW a \in 0 .. n, Len(licenses') = n,
           Assign(manager, a)
    PROVE  CoordinatorOK' /\ coordinator'.manager = manager
<1>1. /\ coordinator'.manager = manager
      /\ DOMAIN coordinator' = {"manager", "sets", "reps", "urls"}
      /\ DOMAIN coordinator'.reps = DOMAIN coordinator.reps
      /\ \/ coordinator'.sets = coordinator.sets
         \/ coordinator'.sets = [coordinator.sets EXCEPT ![Job.set] = a]
  BY DEF Assign
<1>2. /\ DOMAIN coordinator'.sets = DOMAIN coordinator.sets
      /\ \A i \in DOMAIN coordinator.sets : coordinator'.sets[i] \in 0 .. n
  <2>1. \A i \in DOMAIN coordinator.sets : coordinator.sets[i] \in 0 .. n
    BY DEF CoordinatorOK
  <2>2. CASE coordinator'.sets = coordinator.sets
    BY <2>1, <2>2
  <2>3. CASE coordinator'.sets = [coordinator.sets EXCEPT ![Job.set] = a]
    <3> DEFINE sets == coordinator.sets
               job  == Job.set
    <3>1. coordinator'.sets = [sets EXCEPT ![job] = a]
      BY <2>3
    <3> HIDE DEF sets, job
    <3>2. /\ DOMAIN coordinator'.sets = DOMAIN sets
          /\ \A i \in DOMAIN sets : coordinator'.sets[i] = IF i = job THEN a ELSE sets[i]
      BY <3>1
    <3> USE DEF sets
    <3> QED BY <3>2, <2>1
  <2> QED BY <1>1, <2>2, <2>3
<1> QED BY <1>1, <1>2 DEF CoordinatorOK

LEMMA FinishKeeps ==
    ASSUME LockOK, Finish
    PROVE  LockOK'
BY DEF LockOK, Finish

\* Nobody polls while the coordinator has work.
LEMMA WorkingIsNoPoll ==
    ASSUME DrmInv, Working, UNCHANGED loop
    PROVE  PollOK'
BY DEF DrmInv, PollOK

(* A job that makes no request gives the set a license that is there.      *)
LEMMA AssignStep ==
    ASSUME DrmInv, NEW a \in 0 .. Len(licenses), Assign(coordinator.manager, a), Finish,
           Working, UNCHANGED <<world, loop, licenses, track, delivered, asked>>
    PROVE  DrmInv'
<1>1. WorldOK' /\ LoopOK'
  BY DEF DrmInv, WorldOK, LoopOK, Presentation
<1>2. CoordinatorOK' /\ coordinator'.manager = coordinator.manager
  <2>1. /\ Len(licenses) \in Nat /\ licenses' = licenses /\ CoordinatorOK
        /\ coordinator.manager \in [Pssh -> 0 .. Len(licenses)]
    BY DEF DrmInv, LicensesOK, CoordinatorOK
  <2> QED BY <2>1, AssignKeeps
<1>3. LicensesOK' /\ Accounted'
  BY <1>2, LicensesKept DEF SameLicenses, DrmInv, WorldOK
<1>4. LockOK' /\ PollOK'
  BY FinishKeeps, WorkingIsNoPoll DEF DrmInv
<1> QED BY <1>1, <1>2, <1>3, <1>4 DEF DrmInv

LEMMA UnprotectedKeepsInv == ASSUME DrmInv, Unprotected PROVE DrmInv'
<1>1. None \in 0 .. Len(licenses)
  BY DEF DrmInv, LicensesOK, None
<1> QED BY <1>1, AssignStep DEF Unprotected

LEMMA ExistingKeepsInv == ASSUME DrmInv, Existing PROVE DrmInv'
<1>1. coordinator.manager[Job.pssh] \in 0 .. Len(licenses)
  BY DEF DrmInv, CoordinatorOK, Existing
<1> QED BY <1>1, AssignStep DEF Existing

\* A license that stays what it was, or that is new or gains keys.
LEMMA AccumulateType ==
    ASSUME DrmInv, NEW license \in License, NEW policy \in Policies, Job.pssh \in Pssh
    PROVE  /\ Accumulate(license, policy) \in License
           /\ Accumulate(license, policy).keys = license.keys \cup KeysOf[Job.pssh]
           /\ Accumulate(license, policy).failed = license.failed
           /\ Accumulate(license, policy).last = license.last
<1>1. policy \in RenewalPolicy /\ KeysOf[Job.pssh] \in SUBSET UNION {KeysOf[p] : p \in Pssh}
  BY PolicyAssumption DEF RenewalPolicy, Time
<1>2. world.now \in Nat
  BY DEF DrmInv, WorldOK
<1> QED BY <1>1, <1>2, AppliedType DEF Accumulate

(* The licenses after a request: the others as they were, this one with    *)
(* the keys of the PSSH that was missing.                                  *)
LEMMA AcquiredLicenses ==
    ASSUME DrmInv, Acquire
    PROVE  \E a \in Nat \ {0} :
              /\ a <= Len(licenses') /\ Len(licenses') \in Nat
              /\ Len(licenses') = Len(licenses) \/ a = Len(licenses')
              /\ Len(licenses') \in {Len(licenses), Len(licenses) + 1}
              /\ Assign([coordinator.manager EXCEPT ![Job.pssh] = a], a)
              /\ LicensesOK'
              /\ KeysOf[Job.pssh] \subseteq licenses'[a].keys
              /\ \A b \in 1 .. Len(licenses) : /\ licenses[b].keys \subseteq licenses'[b].keys
                                              /\ licenses[b].last = licenses'[b].last
<1> DEFINE old == SetLicense(Job.set)
<1>1. /\ Job.pssh \in Pssh /\ world' = world
      /\ licenses \in Seq(License) /\ Len(licenses) \in Nat
      /\ world.failures \in Nat
  BY DrmAssumption DEF Acquire, Missing, DrmInv, LicensesOK, WorldOK
<1>2. old \in 0 .. Len(licenses)
  BY <1>1 DEF SetLicense, DrmInv, CoordinatorOK, None
<1>3. PICK policy \in Policies :
          /\ licenses' = IF old = None THEN Append(licenses, Accumulate(NewLicense, policy))
                         ELSE [licenses EXCEPT ![old] = Accumulate(licenses[old], policy)]
          /\ Assign([coordinator.manager EXCEPT
                       ![Job.pssh] = IF old = None THEN Len(licenses) + 1 ELSE old],
                    IF old = None THEN Len(licenses) + 1 ELSE old)
  BY DEF Acquire
<1> HIDE DEF old
<1>4. CASE old = None
  <2> DEFINE new == Accumulate(NewLicense, policy)
             n   == Len(licenses) + 1
  <2>1. new \in License /\ KeysOf[Job.pssh] \subseteq new.keys /\ new.failed = 0
    BY <1>1, NewLicenseType, AccumulateType
  <2>2. licenses' = Append(licenses, new)
    BY <1>3, <1>4
  <2> HIDE DEF new
  <2>3. /\ licenses' \in Seq(License) /\ Len(licenses') = n /\ licenses'[n] = new
        /\ \A b \in 1 .. Len(licenses) : licenses'[b] = licenses[b]
    BY <1>1, <2>1, <2>2
  <2>4. LicensesOK'
    <3> SUFFICES ASSUME NEW b \in 1 .. Len(licenses')
                 PROVE  licenses'[b].failed <= world'.failures
      BY <2>3 DEF LicensesOK
    <3>1. CASE b = n
      BY <3>1, <2>1, <2>3, <1>1
    <3>2. CASE b # n
      <4>1. b \in 1 .. Len(licenses)
        BY <3>2, <2>3, <1>1
      <4> QED BY <4>1, <2>3, <1>1, OneLicense DEF DrmInv
    <3> QED BY <3>1, <3>2
  <2>5. n \in Nat \ {0} /\ n <= Len(licenses') /\ Len(licenses') \in Nat
    BY <1>1, <2>3
  <2> USE <2>5
  <2> WITNESS n \in Nat \ {0}
  <2> QED BY <1>3, <1>4, <2>1, <2>3, <2>4, <2>5
<1>5. CASE old # None
  <2> DEFINE new == Accumulate(licenses[old], policy)
  <2>1. old \in 1 .. Len(licenses)
    BY <1>1, <1>2, <1>5 DEF None
  <2>2. licenses[old] \in License /\ licenses[old].failed <= world.failures
    BY <2>1, OneLicense DEF DrmInv
  <2>3. /\ new \in License /\ KeysOf[Job.pssh] \subseteq new.keys
        /\ new.failed = licenses[old].failed /\ licenses[old].keys \subseteq new.keys
        /\ new.last = licenses[old].last
    BY <1>1, <2>2, AccumulateType
  <2>4. licenses' = [licenses EXCEPT ![old] = new]
    BY <1>3, <1>5
  <2> HIDE DEF new
  <2>5. /\ licenses' \in Seq(License) /\ Len(licenses') = Len(licenses) /\ licenses'[old] = new
        /\ \A b \in 1 .. Len(licenses) : b # old => licenses'[b] = licenses[b]
    BY <1>1, <2>1, <2>3, <2>4
  <2>6. LicensesOK'
    <3> SUFFICES ASSUME NEW b \in 1 .. Len(licenses)
                 PROVE  licenses'[b].failed <= world'.failures
      BY <2>5 DEF LicensesOK
    <3>1. licenses[b].failed <= world.failures
      BY OneLicense DEF DrmInv
    <3> QED BY <3>1, <2>2, <2>3, <2>5, <1>1
  <2>7. old \in Nat \ {0} /\ old <= Len(licenses') /\ Len(licenses') \in Nat
    BY <1>1, <2>1, <2>5
  <2> USE <2>7
  <2> WITNESS old \in Nat \ {0}
  <2> QED BY <1>3, <1>5, <2>3, <2>5, <2>6, <2>7
<1> QED BY <1>4, <1>5

LEMMA AcquireKeepsInv == ASSUME DrmInv, Acquire PROVE DrmInv'
<1> DEFINE q == Job.pssh
<1>1. PICK a \in Nat \ {0} :
          /\ a <= Len(licenses') /\ Len(licenses') \in Nat
          /\ Len(licenses') = Len(licenses) \/ a = Len(licenses')
          /\ Len(licenses') \in {Len(licenses), Len(licenses) + 1}
          /\ Assign([coordinator.manager EXCEPT ![q] = a], a)
          /\ LicensesOK'
          /\ KeysOf[q] \subseteq licenses'[a].keys
          /\ \A b \in 1 .. Len(licenses) : licenses[b].keys \subseteq licenses'[b].keys
  BY AcquiredLicenses
<1> DEFINE manager == [coordinator.manager EXCEPT ![q] = a]
<1>2. /\ q \in Pssh /\ coordinator.manager[q] = None
      /\ UNCHANGED <<world, loop>> /\ Finish /\ asked' = [asked EXCEPT ![q] = asked[q] + 1]
      /\ Len(licenses) \in Nat /\ Working
      /\ coordinator.manager \in [Pssh -> 0 .. Len(licenses)]
  BY DEF Acquire, Missing, DrmInv, LicensesOK, CoordinatorOK
<1> HIDE DEF q
<1>3. manager \in [Pssh -> 0 .. Len(licenses')]
  BY <1>1, <1>2
<1>4. CoordinatorOK' /\ coordinator'.manager = manager
  <2>1. Assign(manager, a) /\ a \in 0 .. Len(licenses') /\ Len(licenses') >= Len(licenses)
    BY <1>1, <1>2
  <2> HIDE DEF manager
  <2> QED BY <1>1, <1>2, <1>3, <2>1, AssignKeeps DEF DrmInv
<1>5. Accounted'
  <2>1. asked' \in [Pssh -> Nat] /\ asked'[q] = 1 /\ \A p \in Pssh : p # q => asked'[p] = asked[p]
    BY <1>2 DEF DrmInv, Accounted
  <2>2. /\ manager[q] = a
        /\ \A p \in Pssh : p # q => manager[p] = coordinator.manager[p]
    BY <1>2
  <2> HIDE DEF manager
  <2>3. ASSUME NEW p \in Pssh
        PROVE  /\ asked'[p] = IF coordinator'.manager[p] = None THEN 0 ELSE 1
               /\ coordinator'.manager[p] # None => KeysOf[p] \subseteq LicenseOf(p)'.keys
    <3>1. CASE p = q
      BY <3>1, <1>1, <1>4, <2>1, <2>2 DEF None, LicenseOf
    <3>2. CASE p # q
      <4>1. /\ asked'[p] = IF coordinator.manager[p] = None THEN 0 ELSE 1
            /\ coordinator'.manager[p] = coordinator.manager[p]
        BY <3>2, <1>4, <2>1, <2>2 DEF DrmInv, Accounted
      <4>2. ASSUME coordinator.manager[p] # None
            PROVE  KeysOf[p] \subseteq LicenseOf(p)'.keys
        <5>1. coordinator.manager[p] \in 1 .. Len(licenses)
          BY <1>2, <4>2 DEF None
        <5>2. KeysOf[p] \subseteq licenses[coordinator.manager[p]].keys
          BY <4>2 DEF DrmInv, Accounted, LicenseOf
        <5> QED BY <5>1, <5>2, <4>1, <1>1 DEF LicenseOf
      <4> QED BY <4>1, <4>2
    <3> QED BY <3>1, <3>2
  <2>4. ASSUME NEW b \in 1 .. Len(licenses')
        PROVE  \E p \in Pssh : coordinator'.manager[p] = b
    <3>1. CASE b = a
      BY <3>1, <1>2, <1>4, <2>2
    <3>2. CASE b # a
      <4>1. b \in 1 .. Len(licenses)
        BY <3>2, <1>1, <1>2
      <4>2. PICK p \in Pssh : coordinator.manager[p] = b
        BY <4>1 DEF DrmInv, Accounted
      <4>3. p # q
        BY <4>1, <4>2, <1>2 DEF None
      <4> QED BY <4>2, <4>3, <1>4, <2>2
    <3> QED BY <3>1, <3>2
  <2> QED BY <2>1, <2>3, <2>4 DEF Accounted
<1>6. WorldOK' /\ LoopOK' /\ LockOK' /\ PollOK'
  BY <1>2, FinishKeeps, WorkingIsNoPoll DEF DrmInv, WorldOK, LoopOK, Presentation
<1> QED BY <1>1, <1>4, <1>5, <1>6 DEF DrmInv

LEMMA AcquireFailsKeepsInv == ASSUME DrmInv, AcquireFails PROVE DrmInv'
<1>1. /\ UNCHANGED <<coordinator, licenses, asked>> /\ lock' = Free /\ Working
      /\ world' = world \/ (world.failures < MaxFailures /\ world' = Failure)
      /\ loop' = loop \/ Fail
  BY DEF AcquireFails, Missing
<1>2. /\ WorldOK' /\ world'.kind = world.kind
      /\ world.failures <= world'.failures /\ world'.failures \in Nat
  <2>1. WorldOK /\ MaxFailures \in Nat
    BY DrmAssumption DEF DrmInv
  <2> QED BY <1>1, <2>1 DEF WorldOK, Failure
<1>3. LoopOK' /\ (loop'.at = "poll" => loop.at = "poll")
  BY <1>1, <1>2 DEF DrmInv, LoopOK, Fail, Presentation
<1>4. LicensesOK' /\ Accounted'
  BY <1>1, <1>2, LicensesKept DEF SameLicenses
<1>5. CoordinatorOK' /\ LockOK'
  BY <1>1 DEF DrmInv, CoordinatorOK, LockOK, Free, Nobody
<1>6. PollOK'
  BY <1>1, <1>3 DEF DrmInv, PollOK
<1> QED BY <1>2, <1>3, <1>4, <1>5, <1>6 DEF DrmInv

-----------------------------------------------------------------------------
(* The run loop.                                                           *)

LEMMA TickKeepsInv == ASSUME DrmInv, Tick PROVE DrmInv'
<1>1. /\ UNCHANGED <<loop, coordinator, licenses, lock, asked>>
      /\ world' = [world EXCEPT !.now = world.now + 1] /\ WorldOK
  BY DEF Tick, DrmInv
<1>2. WorldOK' /\ world'.kind = world.kind /\ world'.failures = world.failures
  BY <1>1 DEF WorldOK
<1>3. LicensesOK' /\ Accounted'
  <2>1. world.failures \in Nat
    BY <1>1, DrmAssumption DEF WorldOK
  <2> QED BY <1>1, <1>2, <2>1, LicensesKept DEF SameLicenses
<1>4. LoopOK' /\ CoordinatorOK' /\ LockOK' /\ PollOK'
  BY <1>1, <1>2 DEF DrmInv, LoopOK, CoordinatorOK, LockOK, PollOK, Presentation, Working, LicenseOf
<1> QED BY <1>2, <1>3, <1>4 DEF DrmInv

LEMMA BeginSyncKeepsInv == ASSUME DrmInv, BeginSync PROVE DrmInv'
<1>1. /\ UNCHANGED <<world, loop, licenses, asked>> /\ loop.at = "sync"
      /\ coordinator' = SizedFor(Len(Now.sets))
      /\ lock' = [by |-> Syncer, todo |-> SyncTasks]
  BY DEF BeginSync
<1>2. WorldOK' /\ LoopOK' /\ LockOK' /\ PollOK'
  BY <1>1 DEF DrmInv, WorldOK, LoopOK, LockOK, PollOK, Presentation
<1>3. /\ coordinator'.manager = coordinator.manager
      /\ coordinator'.sets = Resized(coordinator.sets, Len(Now.sets), None)
      /\ coordinator'.reps = Resized(coordinator.reps, Len(Now.sets), <<>>)
      /\ DOMAIN coordinator' = {"manager", "sets", "reps", "urls"}
  BY <1>1 DEF SizedFor, DrmInv, CoordinatorOK
<1>4. /\ DOMAIN coordinator'.sets = DOMAIN coordinator'.reps
      /\ \A i \in DOMAIN coordinator'.sets : coordinator'.sets[i] \in 0 .. Len(licenses)
  <2> DEFINE sets == coordinator.sets
             n    == Len(Now.sets)
             m    == Len(licenses)
  <2>1. 0 \in 0 .. m /\ \A i \in DOMAIN sets : sets[i] \in 0 .. m
    BY DEF DrmInv, LicensesOK, CoordinatorOK
  <2>2. /\ coordinator'.sets = [i \in 1 .. n |-> IF i \in DOMAIN sets THEN sets[i] ELSE 0]
        /\ DOMAIN coordinator'.reps = 1 .. n
    BY <1>3 DEF Resized, None
  <2> HIDE DEF sets, n, m
  <2>3. \A i \in 1 .. n : coordinator'.sets[i] \in 0 .. m
    BY <2>1, <2>2
  <2>4. DOMAIN coordinator'.sets = 1 .. n
    BY <2>2
  <2> USE DEF m
  <2> QED BY <2>2, <2>3, <2>4
<1>5. CoordinatorOK'
  BY <1>1, <1>3, <1>4 DEF DrmInv, CoordinatorOK
<1>6. LicensesOK' /\ Accounted'
  <2>1. world.failures \in Nat
    BY DrmAssumption DEF DrmInv, WorldOK
  <2> QED BY <1>1, <1>3, <2>1, LicensesKept DEF SameLicenses
<1> QED BY <1>2, <1>5, <1>6 DEF DrmInv

LEMMA BeginPollKeepsInv == ASSUME DrmInv, BeginPoll PROVE DrmInv'
<1>1. /\ UNCHANGED <<world, coordinator, licenses, asked>> /\ lock' = Free
      /\ loop' = [loop EXCEPT !.at = "poll", !.now = world.now, !.polled = {}]
  BY DEF BeginPoll
<1>2. LoopOK' /\ loop'.polled = {}
  BY <1>1 DEF DrmInv, LoopOK, WorldOK, Presentation
<1>3. LockOK' /\ PollOK'
  BY <1>1, <1>2 DEF LockOK, PollOK, Working, Free, Nobody
<1>4. WorldOK' /\ CoordinatorOK' /\ SameLicenses /\ world.failures \in Nat
  BY <1>1, DrmAssumption DEF DrmInv, WorldOK, CoordinatorOK, SameLicenses
<1>5. LicensesOK' /\ Accounted'
  BY <1>1, <1>4, LicensesKept
<1> QED BY <1>2, <1>3, <1>4, <1>5 DEF DrmInv

(* Going on from a poll, or from the streams, leaves all else alone.       *)
LEMMA LoopStep ==
    ASSUME DrmInv, UNCHANGED <<world, coordinator, licenses, lock, asked>>,
           LoopOK', loop'.at # "poll"
    PROVE  DrmInv'
<1>1. WorldOK' /\ CoordinatorOK' /\ LockOK' /\ PollOK'
  BY DEF DrmInv, WorldOK, CoordinatorOK, LockOK, PollOK
<1>2. LicensesOK' /\ Accounted'
  <2>1. SameLicenses /\ world.failures \in Nat
    BY DrmAssumption DEF SameLicenses, DrmInv, WorldOK
  <2> QED BY <2>1, LicensesKept
<1> QED BY <1>1, <1>2 DEF DrmInv

LEMMA StartStreamsKeepsInv == ASSUME DrmInv, StartStreams PROVE DrmInv'
<1>1. LoopOK' /\ loop'.at # "poll"
  BY DEF StartStreams, DrmInv, LoopOK, Presentation
<1> QED BY <1>1, LoopStep DEF StartStreams

LEMMA JoinKeepsInv == ASSUME DrmInv, Join PROVE DrmInv'
<1>1. LoopOK /\ world' = world
  BY DEF DrmInv, Join
<1>2. CASE loop' = [loop EXCEPT !.at = "failed"] \/ loop' = [loop EXCEPT !.at = "done"]
  <2>1. LoopOK' /\ loop'.at # "poll"
    BY <1>1, <1>2 DEF LoopOK, Presentation
  <2> QED BY <2>1, LoopStep DEF Join
<1>3. CASE loop' = [loop EXCEPT !.at = "sync", !.tick = loop.tick + 1]
           /\ loop.tick # Len(Presentation)
  <2>1. DOMAIN Presentation = 1 .. Len(Presentation) /\ Len(Presentation) \in Nat
    BY PresentationAssumption DEF Presentation, DrmInv, WorldOK
  <2>2. loop.tick + 1 \in DOMAIN Presentation
    BY <1>1, <1>3, <2>1 DEF LoopOK
  <2>3. LoopOK' /\ loop'.at # "poll"
    BY <1>1, <1>3, <2>2 DEF LoopOK, Presentation
  <2> QED BY <2>3, LoopStep DEF Join
<1> QED BY <1>2, <1>3 DEF Join

\* A license that has been looked at in this poll is not due again in it.
LEMMA TriedIsNotDue ==
    ASSUME NEW license \in License, NEW now \in Nat, license.last = now
    PROVE  ~NeedsRenewal(license, now)
<1>1. Backoff(license) \in Nat \ {0} /\ now # NoTime
  BY BackoffPositive, DrmAssumption
<1> QED BY <1>1 DEF NeedsRenewal

LEMMA NotDueKeepsInv == ASSUME DrmInv, NEW p \in Pssh, NotDue(p) PROVE DrmInv'
<1>1. /\ UNCHANGED <<world, coordinator, licenses, lock, asked>>
      /\ loop' = [loop EXCEPT !.polled = loop.polled \cup {p}]
      /\ coordinator.manager[p] # None /\ ~NeedsRenewal(LicenseOf(p), loop.now)
      /\ loop.at = "poll"
  BY DEF NotDue, Polled, Polling, Sessions
<1>2. /\ LoopOK' /\ loop'.at = "poll" /\ loop'.now = loop.now
      /\ loop'.polled = loop.polled \cup {p}
  BY <1>1 DEF DrmInv, LoopOK, Presentation
<1>3. PollOK'
  BY <1>1, <1>2 DEF DrmInv, PollOK, Working, LicenseOf
<1>4. WorldOK' /\ CoordinatorOK' /\ LockOK' /\ SameLicenses /\ world.failures \in Nat
  BY <1>1, DrmAssumption DEF DrmInv, WorldOK, CoordinatorOK, LockOK, SameLicenses
<1>5. LicensesOK' /\ Accounted'
  BY <1>1, <1>4, LicensesKept
<1> QED BY <1>2, <1>3, <1>4, <1>5 DEF DrmInv

(* A renewal that was tried, whether it succeeded or not, keeps the keys of *)
(* the license and marks the time of the poll.                             *)
LEMMA TriedStep ==
    ASSUME DrmInv, NEW p \in Pssh, Due(p), NEW new \in License,
           licenses' = [licenses EXCEPT ![coordinator.manager[p]] = new],
           new.last = loop.now, LicenseOf(p).keys \subseteq new.keys,
           new.failed <= world'.failures, world.failures <= world'.failures,
           WorldOK', world'.kind = world.kind,
           Fail \/ Polled(p),
           UNCHANGED <<coordinator, lock, asked>>
    PROVE  DrmInv'
<1> DEFINE a == coordinator.manager[p]
<1>1. /\ a \in 1 .. Len(licenses) /\ licenses \in Seq(License) /\ Len(licenses) \in Nat
      /\ loop.at = "poll" /\ a # None /\ loop.now \in Nat /\ LicenseOf(p) = licenses[a]
  BY DEF Due, Polling, Sessions, None, DrmInv, LicensesOK, CoordinatorOK, LoopOK, LicenseOf
<1> HIDE DEF a
<1>2. /\ licenses' \in Seq(License) /\ Len(licenses') = Len(licenses) /\ licenses'[a] = new
      /\ \A b \in 1 .. Len(licenses) : b # a => licenses'[b] = licenses[b]
  BY <1>1 DEF a
<1>3. world.failures \in Nat /\ world'.failures \in Nat
  BY DrmAssumption DEF DrmInv, WorldOK
<1>4. LicensesOK'
  <2> SUFFICES ASSUME NEW b \in 1 .. Len(licenses)
               PROVE  licenses'[b].failed <= world'.failures
    BY <1>2 DEF LicensesOK
  <2>1. licenses[b].failed <= world.failures /\ licenses[b].failed \in Nat
    BY OneLicense DEF DrmInv
  <2> QED BY <2>1, <1>2, <1>3
<1>5. CoordinatorOK' /\ LockOK'
  BY <1>2 DEF DrmInv, CoordinatorOK, LockOK
<1>6. Accounted'
  <2>1. ASSUME NEW q \in Pssh, coordinator.manager[q] # None
        PROVE  KeysOf[q] \subseteq licenses'[coordinator.manager[q]].keys
    <3>1. /\ coordinator.manager[q] \in 1 .. Len(licenses)
          /\ KeysOf[q] \subseteq licenses[coordinator.manager[q]].keys
      BY <2>1, <1>1 DEF DrmInv, CoordinatorOK, Accounted, LicenseOf, None
    <3> QED BY <3>1, <1>1, <1>2
  <2> QED BY <2>1, <1>2 DEF DrmInv, Accounted, LicenseOf
<1>7. /\ LoopOK' /\ loop'.now = loop.now
      /\ loop'.at = "failed" \/ (loop'.at = "poll" /\ loop'.polled = loop.polled \cup {p})
  BY <1>1 DEF Fail, Polled, DrmInv, LoopOK, Presentation
<1>8. PollOK'
  <2> SUFFICES ASSUME loop'.at = "poll", NEW q \in loop.polled \cup {p}
               PROVE  /\ coordinator.manager[q] # None
                      /\ ~NeedsRenewal(licenses'[coordinator.manager[q]], loop.now)
    BY <1>1, <1>7 DEF DrmInv, PollOK, Working, LicenseOf
  <2>1. ~NeedsRenewal(new, loop.now)
    BY <1>1, TriedIsNotDue
  <2>2. CASE coordinator.manager[q] = a
    BY <2>1, <2>2, <1>1, <1>2
  <2>3. CASE coordinator.manager[q] # a
    <3>1. /\ q \in loop.polled /\ coordinator.manager[q] # None
          /\ ~NeedsRenewal(licenses[coordinator.manager[q]], loop.now)
      BY <2>3, <1>1 DEF a, DrmInv, PollOK, LicenseOf
    <3>2. coordinator.manager[q] \in 1 .. Len(licenses)
      BY <3>1, <1>1 DEF DrmInv, LoopOK, CoordinatorOK, None
    <3> QED BY <3>1, <3>2, <2>3, <1>2
  <2> QED BY <2>2, <2>3
<1> QED BY <1>4, <1>5, <1>6, <1>7, <1>8 DEF DrmInv

(* The license of a session, and its place.                                *)
LEMMA DueLicense ==
    ASSUME DrmInv, NEW p \in Pssh, Due(p)
    PROVE  /\ LicenseOf(p) \in License /\ LicenseOf(p) = licenses[coordinator.manager[p]]
           /\ LicenseOf(p).failed <= world.failures /\ LicenseOf(p).failed \in Nat
           /\ coordinator.manager[p] \in 1 .. Len(licenses)
<1>1. coordinator.manager[p] \in 1 .. Len(licenses)
  BY DEF Due, Polling, Sessions, None, DrmInv, LicensesOK, CoordinatorOK
<1> QED BY <1>1, OneLicense DEF DrmInv, LicenseOf

LEMMA GrantedType ==
    ASSUME NEW policy \in RenewalPolicy, world.now \in Nat
    PROVE  Granted(policy) \in Time
<1>1. LicenseSchedule(policy, world.now) \in Schedule /\ ControlSchedule(policy, world.now) \in Schedule
  BY LicenseScheduleType, ControlScheduleType
<1> QED BY <1>1, EarlierType DEF Granted, Schedule

(* The license after a renewal.                                            *)
LEMMA RenewStep ==
    ASSUME DrmInv, NEW p \in Pssh, Renew(p)
    PROVE  \E new \in License :
              /\ licenses' = [licenses EXCEPT ![coordinator.manager[p]] = new]
              /\ new.last = loop.now /\ new.failed = 0 /\ new.keys = LicenseOf(p).keys
<1> DEFINE l == LicenseOf(p)
<1>1. /\ Due(p) /\ l \in License /\ l = licenses[coordinator.manager[p]]
      /\ world.now \in Nat /\ world.failures \in Nat /\ loop.now \in Nat
  BY DueLicense, DrmAssumption DEF Renew, DrmInv, WorldOK, LoopOK
<1>2. PICK policy \in Policies :
          licenses' = [licenses EXCEPT ![coordinator.manager[p]] =
              [Applied(licenses[coordinator.manager[p]], policy, {})
                  EXCEPT !.last = loop.now, !.failed = 0, !.granted = Granted(policy)]]
  BY DEF Renew
<1> HIDE DEF l
<1>3. policy \in RenewalPolicy
  BY PolicyAssumption DEF RenewalPolicy, Time
<1> DEFINE applied == Applied(l, policy, {})
           new == [applied EXCEPT !.last = loop.now, !.failed = 0, !.granted = Granted(policy)]
<1>4. applied \in License /\ applied.keys = l.keys
  <2>1. {} \in SUBSET UNION {KeysOf[q] : q \in Pssh}
    OBVIOUS
  <2>2. applied \in License /\ applied.keys = l.keys \cup {}
    BY <1>1, <1>3, <2>1, AppliedType
  <2> QED BY <2>2
<1>5. Granted(policy) \in Time
  BY <1>1, <1>3, GrantedType
<1>6. new \in License /\ new.last = loop.now /\ new.failed = 0 /\ new.keys = l.keys
  <2>1. loop.now \in Nat \cup {NoTime} /\ 0 \in 0 .. MaxFailures
        /\ Granted(policy) \in Nat \cup {NoTime}
    BY <1>1, <1>5, DrmAssumption DEF Time
  <2> DEFINE now == loop.now
             end == Granted(policy)
  <2> HIDE DEF applied, now, end
  <2>2. [applied EXCEPT !.last = now, !.failed = 0, !.granted = end] \in License
    BY <1>4, <2>1 DEF License, now, end
  <2>3. /\ [applied EXCEPT !.last = now, !.failed = 0, !.granted = end].last = now
        /\ [applied EXCEPT !.last = now, !.failed = 0, !.granted = end].failed = 0
        /\ [applied EXCEPT !.last = now, !.failed = 0, !.granted = end].keys = applied.keys
    BY <1>4 DEF License
  <2> QED BY <2>2, <2>3, <1>4 DEF now, end
<1>7. licenses' = [licenses EXCEPT ![coordinator.manager[p]] = new]
  BY <1>1, <1>2
<1> HIDE DEF new
<1> USE <1>6
<1> WITNESS new \in License
<1> QED BY <1>6, <1>7 DEF l

LEMMA RenewKeepsInv == ASSUME DrmInv, NEW p \in Pssh, Renew(p) PROVE DrmInv'
<1>1. PICK new \in License :
          /\ licenses' = [licenses EXCEPT ![coordinator.manager[p]] = new]
          /\ new.last = loop.now /\ new.failed = 0 /\ new.keys = LicenseOf(p).keys
  BY RenewStep
<1>2. /\ Due(p) /\ Polled(p) /\ world' = world /\ UNCHANGED <<coordinator, lock, asked>>
      /\ WorldOK' /\ world.failures \in Nat
  BY DrmAssumption DEF Renew, DrmInv, WorldOK
<1>3. new.failed <= world'.failures /\ world.failures <= world'.failures
  BY <1>1, <1>2
<1> QED BY <1>1, <1>2, <1>3, TriedStep

(* The license after a failed attempt.                                     *)
LEMMA RenewFailsStep ==
    ASSUME DrmInv, NEW p \in Pssh, RenewFails(p)
    PROVE  \E new \in License :
              /\ licenses' = [licenses EXCEPT ![coordinator.manager[p]] = new]
              /\ new.last = loop.now /\ new.keys = LicenseOf(p).keys
              /\ new.failed = LicenseOf(p).failed + 1
              /\ IF Fatal(new) THEN Fail ELSE Polled(p)
<1> DEFINE l == LicenseOf(p)
<1>1. /\ l \in License /\ l.failed \in Nat /\ l.failed <= world.failures
      /\ world.now \in Nat /\ world.failures \in Nat /\ loop.now \in Nat
      /\ world.failures < MaxFailures
  BY DueLicense, DrmAssumption DEF RenewFails, DrmInv, WorldOK, LoopOK
<1> HIDE DEF l
<1>2. PICK scheduled \in {l} \cup
              {MergeSchedule(l, LicenseSchedule(q, world.now)) : q \in Policies} :
          LET license == [scheduled EXCEPT !.last = loop.now, !.failed = scheduled.failed + 1]
          IN  /\ licenses' = [licenses EXCEPT ![coordinator.manager[p]] = license]
              /\ IF Fatal(license) THEN Fail ELSE Polled(p)
  BY DEF RenewFails, l
<1>3. /\ scheduled \in License /\ scheduled.keys = l.keys /\ scheduled.failed = l.failed
  <2>1. CASE scheduled = l
    BY <2>1, <1>1
  <2>2. ASSUME NEW q \in Policies, scheduled = MergeSchedule(l, LicenseSchedule(q, world.now))
        PROVE  scheduled \in License /\ scheduled.keys = l.keys /\ scheduled.failed = l.failed
    <3>1. q \in RenewalPolicy
      BY PolicyAssumption DEF RenewalPolicy, Time
    <3> QED BY <2>2, <3>1, <1>1, LicenseScheduleType, MergeScheduleType
  <2> QED BY <2>1, <2>2, <1>2
<1> DEFINE new == [scheduled EXCEPT !.last = loop.now, !.failed = scheduled.failed + 1]
<1>4. l.failed + 1 \in 0 .. MaxFailures
  BY <1>1, DrmAssumption
<1>5. /\ new \in License /\ new.last = loop.now /\ new.failed = l.failed + 1
      /\ new.keys = l.keys
  BY <1>1, <1>3, <1>4 DEF License
<1>6. /\ licenses' = [licenses EXCEPT ![coordinator.manager[p]] = new]
      /\ IF Fatal(new) THEN Fail ELSE Polled(p)
  BY <1>2
<1> HIDE DEF new
<1> USE <1>5
<1> WITNESS new \in License
<1> QED BY <1>5, <1>6 DEF l

LEMMA RenewFailsKeepsInv == ASSUME DrmInv, NEW p \in Pssh, RenewFails(p) PROVE DrmInv'
<1>1. PICK new \in License :
          /\ licenses' = [licenses EXCEPT ![coordinator.manager[p]] = new]
          /\ new.last = loop.now /\ new.keys = LicenseOf(p).keys
          /\ new.failed = LicenseOf(p).failed + 1
          /\ IF Fatal(new) THEN Fail ELSE Polled(p)
  BY RenewFailsStep
<1>2. /\ Due(p) /\ world' = [world EXCEPT !.failures = world.failures + 1]
      /\ world.failures < MaxFailures /\ UNCHANGED <<coordinator, lock, asked>>
  BY DEF RenewFails, Failure
<1>3. /\ WorldOK' /\ world'.kind = world.kind /\ world'.failures = world.failures + 1
      /\ world.failures \in Nat
  BY <1>2, DrmAssumption DEF DrmInv, WorldOK
<1>4. LicenseOf(p).failed <= world.failures /\ LicenseOf(p).failed \in Nat
  BY <1>2, DueLicense
<1>5. new.failed <= world'.failures /\ world.failures <= world'.failures
  BY <1>1, <1>3, <1>4
<1> QED BY <1>1, <1>2, <1>3, <1>5, TriedStep

-----------------------------------------------------------------------------
(* The tracks.                                                             *)

LEMMA StreamKeepsInv == ASSUME DrmInv, NEW t \in Tracks, Stream(t) PROVE DrmInv'
<1>1. LockOK /\ (Playing(t) => loop.at # "poll")
  BY DEF DrmInv, Playing
<1>2. CASE TakeLock(t)
  BY <1>1, <1>2, TrackStep DEF TakeLock, LockOK
<1>3. CASE Release(t)
  BY <1>1, <1>3, TrackStep DEF Release, Released, LockOK, Free
<1>4. CASE TakeLicense(t)
  BY <1>1, <1>4, TrackStep DEF TakeLicense, LockOK
<1>5. CASE PassThrough(t)
  BY <1>1, <1>5, TrackStep DEF PassThrough, Deciding, Emit, LockOK
<1>6. CASE Decrypt(t)
  BY <1>1, <1>6, TrackStep DEF Decrypt, Deciding, Emit, LockOK
<1>7. CASE Recover(t)
  BY <1>1, <1>7, TrackStep DEF Recover, Deciding, LockOK
<1>8. CASE DecryptFails(t)
  BY <1>1, <1>8, TrackStep DEF DecryptFails, Deciding, LockOK
<1> QED BY <1>2, <1>3, <1>4, <1>5, <1>6, <1>7, <1>8 DEF Stream

-----------------------------------------------------------------------------
(* The steps.                                                              *)

LEMMA NextKeepsInv == ASSUME DrmInv, [Next]_vars PROVE DrmInv'
<1>1. CASE UNCHANGED vars
  <2>1. LockOK'
    BY <1>1 DEF vars, DrmInv, LockOK
  <2> QED BY <1>1, <2>1, TrackStep DEF vars
<1>2. CASE Tick
  BY <1>2, TickKeepsInv
<1>3. CASE Coordinator
  BY <1>3, UnprotectedKeepsInv, ExistingKeepsInv, AcquireKeepsInv, AcquireFailsKeepsInv
     DEF Coordinator
<1>4. CASE RunLoop
  BY <1>4, BeginSyncKeepsInv, BeginPollKeepsInv, StartStreamsKeepsInv, JoinKeepsInv,
     NotDueKeepsInv, RenewKeepsInv, RenewFailsKeepsInv DEF RunLoop
<1>5. CASE \E t \in Tracks : Stream(t)
  BY <1>5, StreamKeepsInv
<1> QED BY <1>1, <1>2, <1>3, <1>4, <1>5 DEF Next, Work

(* The invariant of license sessions holds, for all presentations,         *)
(* renewal policies, numbers of tracks and of failures.                    *)
(* (drm/coordinator.rs, drm/renewal/state.rs)                              *)
THEOREM DrmInvariant == Spec => []DrmInv
<1>1. Init => DrmInv
  BY InitEstablishesInv
<1>2. DrmInv /\ [Next]_vars => DrmInv'
  BY NextKeepsInv
<1> QED BY <1>1, <1>2, PTL DEF Spec

(* A license keeps the keys of every PSSH that leads to it, and each PSSH  *)
(* is asked for at most once.  (drm/coordinator.rs:265-287)                *)
THEOREM LicensesKeepTheirKeys == Spec => []LicenseInv
<1>1. DrmInv => LicenseInv
  BY InvImpliesLicenseInv
<1> QED BY <1>1, DrmInvariant, PTL

-----------------------------------------------------------------------------
(* What a poll does.                                                       *)

\* In a poll, only the clock and the run loop make steps.
LEMMA PollSteps ==
    ASSUME DrmInv, Next, loop.at = "poll"
    PROVE  \/ loop' = loop
           \/ StartStreams
           \/ \E p \in Pssh : NotDue(p) \/ Renew(p) \/ RenewFails(p)
<1>1. ~Working
  BY DEF DrmInv, PollOK
<1>2. ~Coordinator
  BY <1>1 DEF Coordinator, Unprotected, Existing, Acquire, AcquireFails, Missing
<1>3. \A t \in Tracks : Stream(t) => loop' = loop
  BY DEF Stream, TakeLock, Release, TakeLicense, PassThrough, Decrypt, Recover, DecryptFails,
         Deciding, Playing
<1>4. RunLoop => StartStreams \/ \E p \in Pssh : NotDue(p) \/ Renew(p) \/ RenewFails(p)
  BY DEF RunLoop, BeginSync, BeginPoll, Join
<1> QED BY <1>2, <1>3, <1>4 DEF Next, Work, Tick, vars

LEMMA StepOverlooksNone ==
    ASSUME DrmInv, Next, loop.at = "poll", loop'.at = "streams", NEW a \in DOMAIN licenses
    PROVE  ~NeedsRenewal(licenses[a], loop.now)
<1>1. \A p \in Pssh : ~(NotDue(p) \/ Renew(p) \/ RenewFails(p))
  <2> SUFFICES ASSUME NEW p \in Pssh, NotDue(p) \/ Renew(p) \/ RenewFails(p) PROVE FALSE
    OBVIOUS
  <2>1. Polled(p) \/ Fail
    BY DEF NotDue, Renew, RenewFails
  <2> QED BY <2>1 DEF Polled, Fail, DrmInv, LoopOK
<1>2. StartStreams
  BY <1>1, PollSteps
<1>3. a \in 1 .. Len(licenses)
  BY DEF DrmInv, LicensesOK
<1>4. PICK p \in Pssh : coordinator.manager[p] = a
  BY <1>3 DEF DrmInv, Accounted
<1>5. p \in loop.polled
  BY <1>2, <1>3, <1>4 DEF StartStreams, AllPolled, Sessions, None
<1> QED BY <1>4, <1>5 DEF DrmInv, PollOK, LicenseOf

LEMMA StepFailsOnlyIfExpired ==
    ASSUME DrmInv, Next, loop.at = "poll", loop'.at = "failed"
    PROVE  \E a \in DOMAIN licenses : /\ licenses'[a].failed > licenses[a].failed
                                      /\ licenses'[a].expires # NoTime
                                      /\ loop.now >= licenses'[a].expires
<1>1. PICK p \in Pssh : RenewFails(p)
  <2>1. ~StartStreams /\ \A p \in Pssh : ~NotDue(p) /\ ~Renew(p)
    BY DEF StartStreams, NotDue, Renew, Polled, DrmInv, LoopOK
  <2> QED BY <2>1, PollSteps
<1>2. Due(p)
  BY <1>1 DEF RenewFails
<1> DEFINE a == coordinator.manager[p]
<1>3. /\ a \in 1 .. Len(licenses) /\ licenses[a].failed \in Nat
      /\ LicenseOf(p) = licenses[a] /\ licenses \in Seq(License)
  BY <1>2, DueLicense DEF DrmInv, LicensesOK
<1>4. PICK new \in License :
          /\ licenses' = [licenses EXCEPT ![a] = new]
          /\ new.failed = licenses[a].failed + 1
          /\ IF Fatal(new) THEN Fail ELSE Polled(p)
  BY <1>1, <1>3, RenewFailsStep
<1> HIDE DEF a
<1>5. Fatal(new)
  BY <1>4 DEF Polled, DrmInv, LoopOK
<1>6. a \in DOMAIN licenses /\ licenses'[a] = new
  BY <1>3, <1>4
<1> QED BY <1>3, <1>4, <1>5, <1>6 DEF Fatal

(* A poll leaves no license out that was due when it began, and ends the   *)
(* session only for a license that has expired.                            *)
(* (drm/coordinator.rs:203, 232-243)                                       *)
THEOREM PollsAreComplete == Spec => PollIsComplete
<1>1. DrmInv /\ [Next]_vars =>
          [loop.at = "poll" /\ loop'.at = "streams" =>
              \A a \in DOMAIN licenses : ~NeedsRenewal(licenses[a], loop.now)]_vars
  BY StepOverlooksNone
<1>2. DrmInv /\ [Next]_vars =>
          [loop.at = "poll" /\ loop'.at = "failed" =>
              \E a \in DOMAIN licenses : /\ licenses'[a].failed > licenses[a].failed
                                         /\ licenses'[a].expires # NoTime
                                         /\ loop.now >= licenses'[a].expires]_vars
  BY StepFailsOnlyIfExpired
<1>3. Spec => NoneOverlooked
  BY <1>1, DrmInvariant, PTL DEF Spec, NoneOverlooked
<1>4. Spec => FailsOnlyIfExpired
  BY <1>2, DrmInvariant, PTL DEF Spec, FailsOnlyIfExpired
<1> QED BY <1>3, <1>4 DEF PollIsComplete

-----------------------------------------------------------------------------
(* The pace of renewals.                                                   *)

LEMMA TriedIsPaced ==
    ASSUME DrmInv, NEW p \in Pssh, Due(p), NEW new \in License, new.last = loop.now,
           licenses' = [licenses EXCEPT ![coordinator.manager[p]] = new],
           NEW b \in DOMAIN licenses, licenses[b].last # NoTime, licenses[b].retry > 0,
           licenses'[b].last # licenses[b].last
    PROVE  licenses'[b].last >= licenses[b].last + licenses[b].retry * Doubled(licenses[b].failed)
<1>1. /\ coordinator.manager[p] \in 1 .. Len(licenses) /\ LicenseOf(p) \in License
      /\ LicenseOf(p) = licenses[coordinator.manager[p]] /\ licenses \in Seq(License)
      /\ loop.now \in Nat
  BY DueLicense DEF DrmInv, LicensesOK, LoopOK
<1>2. b = coordinator.manager[p] /\ licenses'[b] = new
  BY <1>1
<1> DEFINE l == licenses[b]
<1>3. l \in License /\ NeedsRenewal(l, loop.now) /\ l.last \in Nat
  BY <1>1, <1>2 DEF Due, License
<1> HIDE DEF l
<1>4. loop.now - l.last >= Backoff(l)
  BY <1>3 DEF NeedsRenewal, l
<1>5. Backoff(l) \in Nat /\ Backoff(l) = l.retry * Doubled(l.failed)
  BY <1>3, BackoffPositive DEF l
<1>6. loop.now >= l.last + Backoff(l)
  BY <1>1, <1>3, <1>4, <1>5
<1> QED BY <1>2, <1>5, <1>6 DEF l

LEMMA StepIsPaced ==
    ASSUME DrmInv, Next, NEW b \in DOMAIN licenses, licenses[b].last # NoTime,
           licenses[b].retry > 0, licenses'[b].last # licenses[b].last
    PROVE  licenses'[b].last >= licenses[b].last + licenses[b].retry * Doubled(licenses[b].failed)
<1>1. licenses' # licenses
  OBVIOUS
<1>2. ~Acquire
  <2>1. b \in 1 .. Len(licenses)
    BY DEF DrmInv, LicensesOK
  <2> QED BY <2>1, AcquiredLicenses
<1>3. \E p \in Pssh : Renew(p) \/ RenewFails(p)
  <2>1. ~Tick /\ ~UNCHANGED vars
    BY <1>1 DEF Tick, vars
  <2>2. ~Coordinator
    BY <1>1, <1>2 DEF Coordinator, Unprotected, Existing, AcquireFails
  <2>3. \A t \in Tracks : ~Stream(t)
    BY <1>1 DEF Stream, TakeLock, Release, TakeLicense, PassThrough, Decrypt, Emit, Recover,
                DecryptFails
  <2>4. RunLoop => \E p \in Pssh : Renew(p) \/ RenewFails(p)
    BY <1>1 DEF RunLoop, BeginSync, BeginPoll, StartStreams, Join, NotDue
  <2> QED BY <2>1, <2>2, <2>3, <2>4 DEF Next, Work
<1>4. PICK p \in Pssh : Renew(p) \/ RenewFails(p)
  BY <1>3
<1>5. Due(p)
  BY <1>4 DEF Renew, RenewFails
<1>6. \E new \in License : /\ new.last = loop.now
                           /\ licenses' = [licenses EXCEPT ![coordinator.manager[p]] = new]
  BY <1>4, RenewStep, RenewFailsStep
<1> QED BY <1>5, <1>6, TriedIsPaced

(* Two attempts to renew a license are as far apart as its failures ask    *)
(* for, also when several PSSHs share it.  (drm/renewal/state.rs:104-113)  *)
THEOREM RenewalsArePaced == Spec => RenewalPaced
<1>1. DrmInv /\ [Next]_vars =>
          [\A a \in DOMAIN licenses :
              LET l == licenses[a]
              IN  l.last # NoTime /\ l.retry > 0 /\ licenses'[a].last # l.last =>
                      licenses'[a].last >= l.last + l.retry * Doubled(l.failed)]_vars
  BY StepIsPaced
<1> QED BY <1>1, DrmInvariant, PTL DEF Spec, RenewalPaced
=============================================================================
