--------------------------- MODULE SegmentDelivery ---------------------------
(***************************************************************************)
(* What a track promises the consumer of its media: the parts of the       *)
(* timeline arrive one after the other, none twice and none left out, a    *)
(* new run of parts begins only where delivery was restarted, and nothing  *)
(* arrives once the session is closed.                                     *)
(***************************************************************************)
EXTENDS Integers, Sequences

CONSTANT Parts  \* the parts of the timeline, numbered in order

VARIABLES
    log,    \* parts delivered since the last restart
    open    \* the session may still deliver

vars == <<log, open>>

Init == log = <<>> /\ open = TRUE

\* The next part, or any part to begin with.
Deliver ==
    /\ open
    /\ \E part \in Parts :
           /\ log = <<>> \/ part = log[Len(log)] + 1
           /\ log' = Append(log, part)
    /\ UNCHANGED open

Restart == open /\ log' = <<>> /\ UNCHANGED open

\* A closed session may drop its log but never adds to it.
Close == open' = FALSE /\ log' \in {log, <<>>}

Next == Deliver \/ Restart \/ Close

Spec == Init /\ [][Next]_vars
=============================================================================
