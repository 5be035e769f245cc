------------------------------ MODULE Addressing ------------------------------
(***************************************************************************)
(* How a Representation's segments are addressed: attributes inherited     *)
(* from Period to AdaptationSet to Representation, the addressing mode,    *)
(* the BaseURL candidates and the targets requested (manifest/addressing,  *)
(* inheritance, end_numbers, base_url, template and fetch).                *)
(*                                                                         *)
(* A level is a record with the SegmentTemplate, SegmentList and           *)
(* SegmentBase elements of its node (NoVal when absent), its BaseURL       *)
(* elements, and the endNumber of its template; an AdaptationSet also has  *)
(* `reps`, a Representation `id` and `index`, its RepresentationIndex.  An *)
(* element is a record of its attributes.  A URL template is [name,        *)
(* idents]: its literal text and the identifiers between dollar signs.     *)
(***************************************************************************)
EXTENDS Integers, Sequences, SequencesExt

CONSTANTS
    NoVal,          \* None
    Failed,         \* a ManifestError
    Endless,        \* availabilityTimeOffset = INF
    MixSeed, MixTag \* the multipliers of mix_seed

-----------------------------------------------------------------------------
(* Inheritance.                                                            *)

\* Attributes of the child, else of its parent.
PreferChild(parent, child) ==
    [f \in DOMAIN parent |-> IF child[f] = NoVal THEN parent[f] ELSE child[f]]

\* The effective element of a path from Period down, NoVal when none has it.
Inherited(Merge(_, _), path) ==
    FoldLeft(LAMBDA acc, node : IF node = NoVal THEN acc
                                ELSE IF acc = NoVal THEN node ELSE Merge(acc, node),
             NoVal, path)

MergeRepresentationIndex(parent, child) == PreferChild(parent, child)

\* A slip: the parent's attributes win.
MergeTemplate_PreferParent(parent, child) == PreferChild(child, parent)

MergeTemplate(parent, child) == PreferChild(parent, child)

MergeBase(parent, child) == PreferChild(parent, child)

\* SegmentURL children are taken as a whole.
MergeList(parent, child) ==
    [PreferChild(parent, child) EXCEPT !.urls = IF child.urls = <<>> THEN parent.urls ELSE child.urls]

TemplateChain(path) == Inherited(MergeTemplate, path)

BaseChain(path) == Inherited(MergeBase, path)

ListChain(path) == Inherited(MergeList, path)

\* merge_end_number_chain
EndNumberChain(path) == Inherited(LAMBDA parent, child : child, path)

-----------------------------------------------------------------------------
(* Where a timeline comes from.                                            *)

UsesSidecar(st) == st.repIndex # NoVal \/ (st.index # NoVal /\ st.indexRange # NoVal)

\* template_contains_number_or_time_ident
NamesSegment(template) == template # NoVal /\ template.idents \cap {"number", "time"} # {}

IndexNamesSegment(st) ==
    NamesSegment(st.index) \/ (st.repIndex # NoVal /\ NamesSegment(st.repIndex.source))

UsesGlobalSidecar(st) == UsesSidecar(st) /\ ~IndexNamesSegment(st)

UsesPerSegmentIndex(st) == UsesSidecar(st) /\ IndexNamesSegment(st)

UsesSidx(sb) == sb.indexRange # NoVal \/ sb.repIndex # NoVal

\* segment_template_has_timeline_source, segment_list_has_timeline_source
HasTimeline(node) == node.timeline # NoVal \/ node.duration # NoVal

\* segment_template_has_addressing_source
HasSource(st) == HasTimeline(st) \/ UsesGlobalSidecar(st)

WithRepresentationIndex(node, rep) ==
    IF rep.index = NoVal THEN node
    ELSE [node EXCEPT !.repIndex = IF node.repIndex = NoVal THEN rep.index
                                   ELSE MergeRepresentationIndex(node.repIndex, rep.index)]

OrFail(node) == IF node = NoVal THEN Failed ELSE node

TemplateFor(period, set, rep) ==
    LET st == TemplateChain(<<period.template, set.template, rep.template>>)
    IN  IF st = NoVal THEN Failed ELSE WithRepresentationIndex(st, rep)

BaseFor(period, set, rep) ==
    LET sb == BaseChain(<<period.base, set.base, rep.base>>)
    IN  IF sb = NoVal THEN Failed ELSE WithRepresentationIndex(sb, rep)

ListFor(period, set, rep) == OrFail(ListChain(<<period.list, set.list, rep.list>>))

\* What the set has in common, supplemented by the first Representation with a
\* source when it has none of its own.
Supplemented(common, Source(_), Merge(_, _), candidates) ==
    LET own == SelectSeq(candidates, LAMBDA node : node \notin {NoVal, Failed} /\ Source(node))
    IN  IF own = <<>> \/ (common # NoVal /\ Source(common)) THEN common
        ELSE IF common = NoVal THEN own[1] ELSE Merge(common, own[1])

\* segment_template_for_timeline
TemplateOfSet(period, set) ==
    OrFail(Supplemented(TemplateChain(<<period.template, set.template>>), HasSource, MergeTemplate,
                        [r \in DOMAIN set.reps |-> TemplateFor(period, set, set.reps[r])]))

\* segment_list_for_timeline
ListOfSet(period, set) ==
    OrFail(Supplemented(ListChain(<<period.list, set.list>>), HasTimeline, MergeList,
                        [r \in DOMAIN set.reps |-> set.reps[r].list]))

\* segment_base_for_timeline
BaseOfSet(period, set) ==
    LET merged == Supplemented(BaseChain(<<period.base, set.base>>), UsesSidx, MergeBase,
                               [r \in DOMAIN set.reps |-> BaseFor(period, set, set.reps[r])])
        own    == SelectSeq(set.reps, LAMBDA rep : rep.base # NoVal)
    IN  IF merged # NoVal THEN merged ELSE IF own = <<>> THEN Failed ELSE own[1].base

\* end_number_for_timeline
EndNumberOf(period, set) ==
    LET common == TemplateChain(<<period.template, set.template>>)
        own    == SelectSeq(set.reps, LAMBDA rep : rep.template # NoVal /\ HasTimeline(rep.template))
    IN  EndNumberChain(<<period.endNumber, set.endNumber>> \o
                       IF own = <<>> \/ (common # NoVal /\ HasTimeline(common)) THEN <<>>
                       ELSE <<own[1].endNumber>>)

-----------------------------------------------------------------------------
(* Modes.                                                                  *)

\* validate_addressing_modes_at_level
OneMode(level) ==
    \A a, b \in {"template", "list", "base"} : level[a] # NoVal /\ level[b] # NoVal => a = b

\* Whether any of the levels has the element.
Has(levels, element) == \E level \in levels : level[element] # NoVal

Levels(period, set, rep) == {period, set, rep}

LevelsOfSet(period, set) == {period, set} \cup ToSet(set.reps)

\* has_progressive_base_url
HasBaseUrl(levels) == \E level \in levels : level.urls # <<>>

\* A RepresentationIndex alone makes a set indexed.
SetUsesTemplate(period, set) ==
    \/ Has(LevelsOfSet(period, set), "template")
    \/ \E rep \in ToSet(set.reps) : rep.index # NoVal

WholeFile == \* SegmentBase::default()
    [timescale |-> NoVal, pto |-> NoVal, duration |-> NoVal, indexRange |-> NoVal, exact |-> NoVal,
     repIndex |-> NoVal, init |-> NoVal, ato |-> NoVal, atc |-> NoVal]

Resolved(mode, node) == IF node = Failed THEN Failed ELSE [mode |-> mode, node |-> node]

\* segment_addressing_for_timeline
AddressingOfSet(period, set) ==
    LET levels == LevelsOfSet(period, set)
    IN  IF \E level \in levels : ~OneMode(level) THEN Failed
        ELSE IF Has(levels, "list") THEN Resolved("list", ListOfSet(period, set))
        ELSE IF SetUsesTemplate(period, set) THEN Resolved("template", TemplateOfSet(period, set))
        ELSE IF Has(levels, "base") THEN Resolved("base", BaseOfSet(period, set))
        ELSE IF HasBaseUrl(levels) THEN Resolved("base", WholeFile) ELSE Failed

\* segment_addressing_for_representation
AddressingOf(period, set, rep) ==
    LET levels == Levels(period, set, rep)
    IN  IF \E level \in levels : ~OneMode(level) THEN Failed
        ELSE IF Has(levels, "list") THEN Resolved("list", ListFor(period, set, rep))
        ELSE IF Has(levels, "template") THEN Resolved("template", TemplateFor(period, set, rep))
        ELSE IF Has(levels, "base") THEN Resolved("base", BaseFor(period, set, rep))
        ELSE IF HasBaseUrl(levels) THEN Resolved("base", WholeFile) ELSE Failed

-----------------------------------------------------------------------------
(* BaseURL candidates.  A BaseURL is [host, dir, location, priority,       *)
(* weight, ato, atc]: a host makes it absolute, neither makes it blank.  A *)
(* URL is the sequence of its host and directories.                        *)

Blank(bu) == bu.host = NoVal /\ bu.dir = NoVal

MergeBaseUrl(current, bu) ==
    LET dir == IF bu.dir = NoVal THEN <<>> ELSE <<bu.dir>>
    IN  IF bu.host # NoVal THEN <<bu.host>> \o dir ELSE current \o dir

Without(seq, set) == SelectSeq(seq, LAMBDA x : x \notin set)

\* dedupe_urls, the `used` flags
FirstOccurrences(seq) ==
    FoldLeft(LAMBDA acc, x : IF x \in ToSet(acc) THEN acc ELSE Append(acc, x), <<>>, seq)

AtLocation(layer, location) == SelectSeq(layer, LAMBDA bu : bu.location = location)

\* A slip: the locations that are not steered to are dropped.
SteeredLayer_Only(layer, priorities, default) ==
    IF priorities = <<>> THEN layer
    ELSE FlattenSeq([i \in DOMAIN priorities |-> AtLocation(layer, priorities[i])])

\* order_base_urls_for_steering: the steered locations, else the default one,
\* to the front.
SteeredLayer(layer, priorities, default) ==
    LET wanted == IF priorities # <<>> THEN FirstOccurrences(priorities)
                  ELSE IF default # NoVal THEN <<default>> ELSE <<>>
    IN  FlattenSeq([i \in DOMAIN wanted |-> AtLocation(layer, wanted[i])]) \o
        SelectSeq(layer, LAMBDA bu : bu.location \notin ToSet(wanted))

Priority(bu) == IF bu.priority = NoVal THEN 1 ELSE bu.priority

Weight(bu) == IF bu.weight = NoVal \/ bu.weight <= 0 THEN 1 ELSE bu.weight

\* select_weighted_index
Weighted(group, pick) ==
    LET upTo[i \in 0 .. Len(group)] == IF i = 0 THEN 0 ELSE upTo[i - 1] + Weight(group[i])
        rn == pick % upTo[Len(group)]
    IN  group[CHOOSE i \in DOMAIN group : upTo[i - 1] <= rn /\ rn < upTo[i]]

Pick(seed, priority, tag) == seed * MixSeed + priority + tag * MixTag

\* ordered_base_url_layer: with DVB attributes one weighted pick per priority.
OrderedLayer(layer, seed, tag) ==
    LET usable == SelectSeq(layer, LAMBDA bu : ~Blank(bu))
        groups == SetToSortSeq({Priority(bu) : bu \in ToSet(usable)}, <)
        group(priority) == SelectSeq(usable, LAMBDA bu : Priority(bu) = priority)
    IN  IF \A bu \in ToSet(layer) : bu.priority = NoVal /\ bu.weight = NoVal THEN usable
        ELSE [g \in DOMAIN groups |-> Weighted(group(groups[g]), Pick(seed, groups[g], tag))]

\* expand_base_layer
ExpandLayer(bases, layer, seed, tag) ==
    LET ordered == OrderedLayer(layer, seed, tag)
    IN  IF ordered = <<>> THEN bases
        ELSE FlattenSeq([b \in DOMAIN bases |->
                            [u \in DOMAIN ordered |-> MergeBaseUrl(bases[b], ordered[u])]])

LayersOf(site, set, rep, steering) ==
    <<SteeredLayer(site.urls, steering, site.default), site.period.urls, set.urls, rep.urls>>

\* segment_bases_for_representation
BasesFor(site, set, rep, steering) ==
    LET layers == LayersOf(site, set, rep, steering)
        expanded[tag \in 0 .. 4] ==
            IF tag = 0 THEN << <<site.host>> >>
            ELSE ExpandLayer(expanded[tag - 1], layers[tag], site.seed, tag)
    IN  FirstOccurrences(expanded[4])

\* The first BaseURL of each level that has any.
Primaries(layers, seed) ==
    LET ordered == Without([tag \in 1 .. 4 |-> OrderedLayer(layers[tag], seed, tag)], {<<>>})
    IN  [i \in DOMAIN ordered |-> ordered[i][1]]

AvailabilityAlong(primary) ==
    LET endless == {i \in DOMAIN primary : primary[i].ato = Endless}
        upTo    == IF endless = {} THEN Len(primary)
                   ELSE (CHOOSE i \in endless : \A j \in endless : i <= j) - 1
        offsets == SelectSeq(primary, LAMBDA bu : bu.ato # NoVal)
    IN  [ offset   |-> IF endless # {} THEN Endless
                       ELSE IF offsets = <<>> THEN NoVal
                       ELSE FoldLeft(LAMBDA sum, bu : sum + bu.ato, 0, offsets),
          complete |-> \A i \in 1 .. upTo : primary[i].atc # FALSE ]

\* base_url_availability_for_representation
UrlAvailability(site, set, rep, steering) ==
    AvailabilityAlong(Primaries(LayersOf(site, set, rep, steering), site.seed))

\* SegmentAvailability::for_representation
AvailabilityOf(addressing, byUrl) ==
    LET ato == IF addressing.mode = "list" THEN NoVal ELSE addressing.node.ato
        atc == IF addressing.mode = "list" THEN NoVal ELSE addressing.node.atc
    IN  [ offset   |-> IF ato = NoVal THEN byUrl.offset ELSE ato,
          complete |-> IF atc = NoVal THEN byUrl.complete ELSE atc ]

-----------------------------------------------------------------------------
(* Targets: a path, and an inclusive byte range or NoVal.                  *)

NoPath == [name |-> NoVal, vars |-> <<>>]

\* interpolate_template; an identifier without a value stays as it is.
Interpolated(template, vars) ==
    IF template = NoVal THEN NoPath
    ELSE [name |-> template.name, vars |-> [x \in template.idents |-> vars[x]]]

VarsFor(rep) == [rep |-> rep.id, number |-> NoVal, time |-> NoVal, sub |-> 1]

VarsOf(rep, seg) ==
    [rep |-> rep.id, number |-> seg.number, time |-> seg.time, sub |-> IF seg.sub = 0 THEN 1 ELSE seg.sub]

\* segment_list_media_target
ListTarget(sl, seg, listIndex) ==
    LET url == IF seg.url # NoVal THEN seg.url
               ELSE IF listIndex \in DOMAIN sl.urls THEN sl.urls[listIndex].media ELSE NoVal
    IN  IF url = NoVal /\ seg.range = NoVal THEN Failed
        ELSE [path |-> [NoPath EXCEPT !.name = url], range |-> seg.range]

\* media_target_for_addressing, segment_base_media_target
MediaTarget(addressing, seg, listIndex, rep) ==
    CASE addressing.mode = "template" ->
            IF addressing.node.media = NoVal THEN Failed
            ELSE [path |-> Interpolated(addressing.node.media, VarsOf(rep, seg)), range |-> seg.range]
      [] addressing.mode = "list" -> ListTarget(addressing.node, seg, listIndex)
      [] addressing.mode = "base" -> [path |-> NoPath, range |-> seg.range]

\* segment_base_index_target, segment_template_index_target
IndexTarget(addressing, vars) ==
    LET node == addressing.node
    IN  IF addressing.mode = "template" /\ IndexNamesSegment(node) /\ vars.number = NoVal THEN Failed
        ELSE IF node.repIndex # NoVal
        THEN IF node.repIndex.source = NoVal THEN Failed
             ELSE [path |-> Interpolated(node.repIndex.source, vars), range |-> node.repIndex.range]
        ELSE IF node.indexRange = NoVal THEN Failed
        ELSE [ path  |-> IF addressing.mode = "base" THEN NoPath ELSE Interpolated(node.index, vars),
               range |-> node.indexRange ]
=============================================================================
