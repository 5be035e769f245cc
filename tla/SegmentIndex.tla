----------------------------- MODULE SegmentIndex -----------------------------
(***************************************************************************)
(* The Segment Index of a file: finding the sidx in the bytes fetched so   *)
(* far, asking for more while it is incomplete, and flattening it into     *)
(* segments (manifest/sidx).                                               *)
(*                                                                         *)
(* An index document is a function from the offsets at which its boxes     *)
(* begin, counted from the start of the fetched range, to the boxes: [type,*)
(* size, ept, first, refs], a reference being [nested, size, dur].  The    *)
(* bytes fetched are a prefix of the document, of length n.  A box without *)
(* an entry at its offset is not a box.                                    *)
(***************************************************************************)
EXTENDS SegmentTimeline

CONSTANT HeaderSize     \* bytes of a box header

\* Outcomes of a parse: done, or the last byte needed, or an error.
Found(at) == [kind |-> "found", at |-> at]
Need(end) == [kind |-> "need", at |-> end]
Broken == [kind |-> "broken", at |-> 0]

\* read_box_header: whether the header of the box at `off` is there.
HasHeader(n, off) == n - off >= HeaderSize

IsSidx(doc, off) == off \in DOMAIN doc /\ doc[off].type = "sidx"

\* find_sidx_offset, with indexRangeExact: the sidx starts the range and fits.
FindExact(doc, n, base) ==
    IF ~HasHeader(n, 0) THEN Need(base + HeaderSize - 1)
    ELSE IF ~IsSidx(doc, 0) \/ doc[0].size > n THEN Broken ELSE Found(0)

\* find_sidx_offset, scanning over the boxes before the sidx
FindScanning(doc, n, base) ==
    LET scan[off \in 0 .. n] ==
            IF off = n THEN Broken
            ELSE IF ~HasHeader(n, off) THEN Need(base + off + HeaderSize - 1)
            ELSE IF off \notin DOMAIN doc THEN Broken
            ELSE IF off + doc[off].size > n THEN Need(base + off + doc[off].size - 1)
            ELSE IF IsSidx(doc, off) THEN Found(off) ELSE scan[off + doc[off].size]
    IN  scan[0]

FindSidx(doc, n, exact, base) == IF exact THEN FindExact(doc, n, base) ELSE FindScanning(doc, n, base)

\* The sizes of the references of one kind before the i-th.
Before(refs, i, nested) ==
    FoldLeft(LAMBDA sum, ref : IF ref.nested = nested THEN sum + ref.size ELSE sum, 0, SubSeq(refs, 1, i - 1))

\* A slip: nested indexes come after the media.
NestedAt_PastMedia(doc, off, i) ==
    off + doc[off].size + Before(doc[off].refs, i, TRUE) + Before(doc[off].refs, i, FALSE)

\* Where the i-th reference of the sidx at `off` begins, if it is an index.
NestedAt(doc, off, i) == off + doc[off].size + Before(doc[off].refs, i, TRUE)

\* A slip: nested indexes are not waited for.
Complete_RootOnly(doc, n, root, base) == Found(root)

\* ensure_index_segment_complete: the sidx and the indexes nested in it.
Complete(doc, n, root, base) ==
    LET walk[off \in 0 .. n] ==
            IF ~HasHeader(n, off) THEN Need(base + off + HeaderSize - 1)
            ELSE IF ~IsSidx(doc, off) THEN Broken
            ELSE IF off + doc[off].size > n THEN Need(base + off + doc[off].size - 1)
            ELSE LET refs    == doc[off].refs
                     At(i)   == NestedAt(doc, off, i)
                     Of(i)   == IF refs[i].size = 0 THEN Broken
                                ELSE IF At(i) + refs[i].size > n THEN Need(base + At(i) + refs[i].size - 1)
                                ELSE walk[At(i)]
                     open    == {i \in DOMAIN refs : refs[i].nested /\ Of(i).kind # "found"}
                 IN  IF open = {} THEN Found(off) ELSE Of(CHOOSE i \in open : \A j \in open : i <= j)
    IN  walk[root]

\* expand_sidx: the media references below `off`, in order; Failed when a
\* nested index lies outside the bytes.
Leaves(doc, n, root, origin) ==
    LET leaves[off \in 0 .. n] ==
            LET refs  == doc[off].refs
                At(i) == NestedAt(doc, off, i)
                time(i) == doc[off].ept + FoldLeft(LAMBDA sum, ref : sum + ref.dur, 0, SubSeq(refs, 1, i - 1))
                media(i) == origin + doc[off].first + Before(refs, i, FALSE)
                Of(i) == IF ~refs[i].nested
                         THEN << [ time |-> time(i), dur |-> refs[i].dur,
                                   range |-> <<media(i), media(i) + refs[i].size - 1>> ] >>
                         ELSE IF refs[i].size = 0 \/ At(i) + refs[i].size > n \/ ~IsSidx(doc, At(i)) THEN Failed
                         ELSE IF doc[At(i)].size > refs[i].size THEN Failed
                         ELSE leaves[At(i)]
            IN  IF \E i \in DOMAIN refs : Of(i) = Failed THEN Failed
                ELSE FlattenSeq([i \in DOMAIN refs |-> Of(i)])
    IN  leaves[root]

\* timeline_segments_from_index_blob
Timed(leaves, timescale, pto, first) ==
    IF timescale = 0 \/ leaves = Failed THEN Failed
    ELSE [i \in DOMAIN leaves |->
            [Segment(first + i - 1, leaves[i].time, Units(Most(leaves[i].time - pto, 0), timescale),
                     Units(leaves[i].dur, timescale))
                EXCEPT !.range = leaves[i].range]]

\* The segments of the sidx at `root`, numbered and timed as the addressing says.
FromIndex(addressing, doc, n, root, origin, timescale) ==
    LET node == addressing.node
    IN  Timed(Leaves(doc, n, root, origin), OrElse(node.timescale, timescale), OrElse(node.pto, 0),
              IF addressing.mode = "template" THEN OrElse(node.number, 1) ELSE 1)

Parsed(outcome, segs) ==
    IF segs = Failed THEN [outcome |-> Broken, segs |-> <<>>] ELSE [outcome |-> outcome, segs |-> segs]

\* parse_sidx_index, parse_sidx_index_from_template: the segments, or what the
\* range still lacks.  A separate document places media from the file's start.
ParseIndex(addressing, doc, n, timescale) ==
    LET node   == addressing.node
        base   == node.indexRange[1]
        exact  == node.exact = TRUE
        Origin(at) == IF addressing.mode = "template" THEN 0
                      ELSE IF exact THEN node.indexRange[2] + 1 ELSE base + at + doc[at].size
        Ensured(sidx) == IF sidx.kind = "found" THEN Complete(doc, n, sidx.at, base) ELSE sidx
        Listing(whole) == IF whole.kind # "found" THEN Parsed(whole, <<>>)
                          ELSE Parsed(whole, FromIndex(addressing, doc, n, whole.at, Origin(whole.at), timescale))
    IN  Listing(Ensured(FindSidx(doc, n, exact, base)))

\* parse_sidx_index_from_representation_index_base, ..._from_template_representation_index:
\* a document of its own that begins with the sidx; nothing more is asked for.
ParseSeparate(addressing, doc, n, timescale) ==
    Parsed(Found(0), IF ~IsSidx(doc, 0) \/ doc[0].size > n THEN Failed
                     ELSE FromIndex(addressing, doc, n, 0, 0, timescale))

\* parse_sidx_index_for_segment_base
Parse(addressing, doc, n, timescale) ==
    IF addressing.node.repIndex # NoVal THEN ParseSeparate(addressing, doc, n, timescale)
    ELSE ParseIndex(addressing, doc, n, timescale)

\* media_range_from_per_segment_index: all the index describes is one segment.
WholeRange(segs) == IF segs = <<>> THEN Failed ELSE <<segs[1].range[1], segs[Len(segs)].range[2]>>
=============================================================================
