--------------------------- MODULE TrackSelection ---------------------------
(***************************************************************************)
(* Which Adaptation Sets of a Period are played, by which track, and which *)
(* sets a track may switch among (track_selection/select.rs,               *)
(* preselection.rs, switching.rs).                                         *)
(*                                                                         *)
(* A Period is [sets, preselections]; a set is known by its place and by   *)
(* an id of its own, and what preferences rank it by is a set of tokens    *)
(* per trait.  Matching a token stands for the case-insensitive and the    *)
(* prefix comparisons of the code.                                         *)
(***************************************************************************)
EXTENDS Integers, Sequences, FiniteSets, SequencesExt

\* The media kinds whose sets are filtered, and those that are not.
MainKinds == {"audio", "video", "text"}
AuxiliaryKinds == {"trick", "image"}

\* What ranks a candidate, the most significant first.
Traits == <<"language", "role", "codec", "accessibility">>

-----------------------------------------------------------------------------
(* Ranking.                                                                *)

\* match_rank, descriptor_rank: the place of the first preference met
MatchRank(preferred, offered) ==
    LET met == {i \in DOMAIN preferred : preferred[i] \in offered}
    IN  IF met = {} THEN Len(preferred) + 1 ELSE CHOOSE i \in met : \A j \in met : i <= j

\* rank_kind_candidate: a Preselection precedes an equal standalone set
Rank(candidate, preference) ==
    [i \in DOMAIN Traits |-> MatchRank(preference[Traits[i]], candidate.traits[Traits[i]])]
        \o << -candidate.priority,
              IF candidate.standalone THEN 1 ELSE 0,
              candidate.index >>

\* The order of tuples.
Before(a, b) ==
    \E i \in DOMAIN a : a[i] < b[i] /\ \A j \in 1..i - 1 : a[j] = b[j]

\* the same, cut one candidate short
Kept_OneShort(ranked, preference) ==
    SubSeq(ranked, 1, IF preference.tracks < Len(ranked) THEN preference.tracks - 1 ELSE Len(ranked))

\* truncate(max_tracks)
Kept(ranked, preference) ==
    IF preference.tracks < Len(ranked) THEN SubSeq(ranked, 1, preference.tracks) ELSE ranked

-----------------------------------------------------------------------------
(* Candidates.                                                             *)

\* every supported set of the kind
Standalone_Parts(period, kind) ==
    { i \in DOMAIN period.sets :
        period.sets[i].kind = kind /\ (kind \in MainKinds => period.sets[i].supported) }

\* The sets of a kind that are offered by themselves: neither a part of a
\* Preselection, nor a fallback of another set, nor one that the player
\* does not support.
Standalone(period, kind) ==
    { i \in DOMAIN period.sets :
        /\ period.sets[i].kind = kind
        /\ kind \in MainKinds => /\ ~period.sets[i].partial
                                 /\ period.sets[i].fallbackFor = 0
                                 /\ period.sets[i].supported }

Alone(period, i) ==
    [ sets |-> <<i>>, traits |-> period.sets[i].traits, priority |-> period.sets[i].priority,
      standalone |-> TRUE, index |-> i ]

\* resolve_component_ids: a Preselection with an unknown component is ignored
Resolved(period) ==
    SelectSeq(period.preselections,
              LAMBDA p : /\ ToSet(p.components) \subseteq DOMAIN period.sets
                         /\ period.sets[Head(p.components)].kind \in MainKinds \cup AuxiliaryKinds)

\* resolve_from_element, resolve_from_descriptor: what the Preselection does
\* not say is said by its main set, the first.
Bundle(period, n) ==
    LET p    == Resolved(period)[n]
        main == period.sets[Head(p.components)]
    IN  [ sets |-> p.components, standalone |-> FALSE, index |-> n, priority |-> p.priority,
          traits |-> [t \in ToSet(Traits) |->
                        IF p.traits[t] = {} THEN main.traits[t] ELSE p.traits[t]] ]

Bundles(period, kind) ==
    IF kind \in AuxiliaryKinds THEN {}
    ELSE { Bundle(period, n) :
             n \in {m \in DOMAIN Resolved(period) :
                      period.sets[Head(Resolved(period)[m].components)].kind = kind} }

Distinctly(s) ==
    FoldLeft(LAMBDA kept, x : IF Contains(kept, x) THEN kept ELSE Append(kept, x), <<>>, s)

\* select_kind_with_preselections, select_kind: the best candidates, and of
\* those the sets of the kind
Chosen(period, kind, preference) ==
    LET candidates == {Alone(period, i) : i \in Standalone(period, kind)}
                        \cup Bundles(period, kind)
        ranked == SetToSortSeq(candidates, LAMBDA a, b : Before(Rank(a, preference),
                                                                Rank(b, preference)))
        best   == Kept(ranked, preference)
        sets   == FlattenSeq([n \in DOMAIN best |-> best[n].sets])
    IN  Distinctly(SelectSeq(sets, LAMBDA i : period.sets[i].kind = kind))

-----------------------------------------------------------------------------
(* Switching groups.                                                       *)

\* resolve_switching_groups: a link in either direction
Linked(period, i, j) ==
    \/ j \in period.sets[i].targets \/ i \in period.sets[j].targets
    \/ period.sets[i].fallbackFor = j \/ period.sets[j].fallbackFor = i

\* component_of: the least set that holds i and is closed under the links
Component(period, i) ==
    LET Closed(s) == \A j \in s : \A k \in DOMAIN period.sets : Linked(period, j, k) => k \in s
    IN  { j \in DOMAIN period.sets :
            \A s \in SUBSET DOMAIN period.sets : i \in s /\ Closed(s) => j \in s }

\* groups that are not collapsed
Collapsed_Ungrouped(period, ranked) == ranked

\* collapse_kind_candidates, collapse_selected_into_switch_groups: the best
\* member of each group leads it
Collapsed(period, ranked) ==
    FoldLeft(LAMBDA leaders, i :
               IF \E n \in DOMAIN leaders : i \in Component(period, leaders[n])
               THEN leaders ELSE Append(leaders, i),
             <<>>, ranked)

\* select_adaptation_sets: the tracks' sets in document order, each with the
\* sets it may switch to
Selected(period, selection) ==
    LET leaders == SetToSortSeq(
            UNION {ToSet(Collapsed(period, Chosen(period, kind, selection[kind]))) :
                     kind \in MainKinds \cup AuxiliaryKinds},
            LAMBDA i, j : i < j)
    IN  [n \in DOMAIN leaders |-> [lead |-> leaders[n], group |-> Component(period, leaders[n])]]
=============================================================================
