--------------------------- MODULE ManifestDocument ---------------------------
(***************************************************************************)
(* What a refresh does to the text of an MPD: the operations of an MPD     *)
(* patch (manifest_lifecycle/patch.rs) and the resolution of remote        *)
(* Periods (manifest_lifecycle/xlink.rs).                                  *)
(*                                                                         *)
(* A document is a record [id, publish, periods, location, patches,        *)
(* update, steering]; a Period is [id, href, onLoad, segs]; a patch is     *)
(* [id, original, publish, ops].  publishTime is a number: the code        *)
(* compares its texts, all written in one format.                          *)
(***************************************************************************)
EXTENDS Integers, Sequences, FiniteSets, SequencesExt

CONSTANTS
    NoRef,          \* an absent attribute: @mpdId, xlink:href, Location
    ToZero,         \* urn:mpeg:dash:resolve-to-zero:2013
    Entity          \* the Periods of the remote entity at an xlink:href

\* MpdPatchError
NoDoc ==
    [ id |-> NoRef, publish |-> 0, periods |-> <<>>, location |-> NoRef,
      patches |-> <<>>, update |-> 0, steering |-> <<>> ]

-----------------------------------------------------------------------------
(* Patches.                                                                *)

Splice(s, i, content) ==
    SubSeq(s, 1, i - 1) \o content \o SubSeq(s, i + 1, Len(s))

\* The Periods a selector names: /MPD/Period[@id=key], /MPD/Period[key] or,
\* with key 0, /MPD/Period.
Matches(periods, sel) ==
    { i \in DOMAIN periods : CASE sel.by = "id"    -> periods[i].id = sel.key
                               [] sel.by = "index" -> sel.key \in {0, i} }

\* The operation that edits Period i.
EditPeriod(periods, i, op) ==
    CASE op.do = "remove"  -> Splice(periods, i, <<>>)
      [] op.do = "replace" -> Splice(periods, i, op.content)
      [] op.do = "before"  -> Splice(periods, i, op.content \o <<periods[i]>>)
      [] op.do = "after"   -> Splice(periods, i, <<periods[i]>> \o op.content)
      [] op.do = "addS"    ->      \* .../SegmentTimeline/S[at], pos "after"
            [periods EXCEPT ![i].segs = SubSeq(@, 1, op.at) \o op.content
                                        \o SubSeq(@, op.at + 1, Len(@))]

\* One operation; a selector names one element, or the patch is refused.
ApplyOp(doc, op) ==
    IF doc = NoDoc THEN NoDoc
    ELSE IF op.do = "publish" THEN [doc EXCEPT !.publish = op.content]
    ELSE LET found == Matches(doc.periods, op.sel)
             i     == CHOOSE n \in found : TRUE
         IN  IF \/ Cardinality(found) # 1
                \/ op.do = "addS" /\ op.at \notin DOMAIN doc.periods[i].segs
             THEN NoDoc
             ELSE [doc EXCEPT !.periods = EditPeriod(@, i, op)]

\* A slip: any patch that is newer than the document is taken.
Applicable_AnyOriginal(doc, patch) ==
    patch.id \in {NoRef, doc.id} /\ patch.publish > doc.publish

\* A slip: publishTime is never compared.
Applicable_AnyAge(doc, patch) == patch.id \in {NoRef, doc.id}

\* validate_patch_against_mpd
Applicable(doc, patch) ==
    /\ patch.id \in {NoRef, doc.id}
    /\ patch.original = doc.publish
    /\ patch.publish > doc.publish

Apply(doc, patch) ==
    IF Applicable(doc, patch) THEN FoldLeft(ApplyOp, doc, patch.ops) ELSE NoDoc

-----------------------------------------------------------------------------
(* Remote Periods.                                                         *)

\* onLoad and onRequest alike
Remote(period) == period.href # NoRef

Targets(periods) ==
    SelectSeq([i \in DOMAIN periods |-> i], LAMBDA i : Remote(periods[i]))

Replacement(href) == IF href = ToZero THEN <<>> ELSE Entity[href]

Resolve(periods, i) == Splice(periods, i, Replacement(periods[i].href))

\* A slip: from the first target on, at the places the targets had.
ResolveOnce_FromStart(periods) ==
    FoldLeft(LAMBDA ps, i : IF i \in DOMAIN ps /\ Remote(ps[i]) THEN Resolve(ps, i) ELSE ps,
             periods, Targets(periods))

\* One pass, from the last target to the first: the places of the others stay.
ResolveOnce(periods) == FoldLeft(Resolve, periods, Reverse(Targets(periods)))

MaxPasses == 5

Local(period) == [period EXCEPT !.href = NoRef, !.onLoad = FALSE]

\* What is left after the last pass: an onLoad reference is dropped, an
\* onRequest one stays.
StripUnresolved(periods) ==
    LET kept == SelectSeq(periods, LAMBDA p : p.href # ToZero)
    IN  [i \in DOMAIN kept |-> IF Remote(kept[i]) /\ kept[i].onLoad THEN Local(kept[i])
                               ELSE kept[i]]

-----------------------------------------------------------------------------
(* What a refresh should come to.                                          *)

RECURSIVE Expansion(_, _)

\* A Period with its remote content in place, down to the given depth.
Expansion(period, depth) ==
    IF ~Remote(period) THEN <<period>>
    ELSE IF period.href = ToZero THEN <<>>
    ELSE IF depth = 0 THEN << IF period.onLoad THEN Local(period) ELSE period >>
    ELSE LET inner == Entity[period.href]
         IN  FlattenSeq([i \in DOMAIN inner |-> Expansion(inner[i], depth - 1)])

Expanded(doc) ==
    [doc EXCEPT !.periods =
        FlattenSeq([i \in DOMAIN doc.periods |-> Expansion(doc.periods[i], MaxPasses)])]
=============================================================================
