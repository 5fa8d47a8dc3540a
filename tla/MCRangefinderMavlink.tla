------------------------ MODULE MCRangefinderMavlink ------------------------
(* Instance of RangefinderMavlink for TLC. *)
EXTENDS RangefinderMavlink

\* Within and past the maxima, past 16 bits, below zero, and no usable beam.
AllRanges == {20, 1201, 70000, -5, Infinite, NoRange}
\* A lidar of 12 m, and one beyond 16 bits.
AllMaxima == {1200, 80000}
=============================================================================
