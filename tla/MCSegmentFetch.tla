--------------------------- MODULE MCSegmentFetch ---------------------------
(* Instances of SegmentFetch for TLC. *)
EXTENDS SegmentFetch

Presentation(top, bases, last, single, indexed, chunked) ==
    [top |-> top, bases |-> bases, last |-> last, singleFile |-> single, indexed |-> indexed,
     chunked |-> chunked]

\* SegmentTemplate: failover between bases, and parallel downloads.
Redundant == Presentation(1, 2, 1, FALSE, FALSE, FALSE)
Parallel == Presentation(1, 1, 3, FALSE, FALSE, FALSE)

\* Three qualities
Ladder == Presentation(2, 1, 1, FALSE, FALSE, FALSE)

\* SegmentTemplate@index
Sidecar == Presentation(1, 1, 2, FALSE, TRUE, FALSE)

\* SegmentBase
SingleFile == Presentation(1, 1, 3, TRUE, TRUE, FALSE)

\* Low-latency CMAF: fallback between qualities, failover between bases.
LowLatency == Presentation(1, 1, 1, FALSE, FALSE, TRUE)
LowLatencyRedundant == Presentation(0, 2, 2, FALSE, FALSE, TRUE)

Kinds ==
    {Ladder, Redundant, Parallel, Sidecar, SingleFile, LowLatency, LowLatencyRedundant}
=============================================================================
