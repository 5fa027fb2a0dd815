----------------------------- MODULE MCSegments -----------------------------
(* Three nodes, of which one sends to both others and one receives from    *)
(* both; messages at the limits of the segmentation.                       *)
EXTENDS Segments

CONSTANTS a, b, c

MCRoutes == {<< b, a >>, << c, a >>, << b, c >>}

\* With MAX_DATA_SIZE = 30: the longest message that fits, one that is too long and still not
\* segmented, the shortest segmented one, the longest of two segments, and the longest of three
\* and the shortest of four, where MAX_SEGMENTS is 3.
MCMessages ==
    [kind : {"Offer"}, size : {28, 30, 32, 42, 65, 66}] \cup {[kind |-> "RenewRevoke", size |-> 5]}
=============================================================================
