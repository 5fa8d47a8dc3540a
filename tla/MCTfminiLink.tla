---------------------------- MODULE MCTfminiLink ----------------------------
(* Instances of TfminiLink for TLC. *)
EXTENDS TfminiLink

\* In range, at and past the limit, past that of 16 bits with a remainder that is
\* in range and one that is not, below zero, and no usable beam.
AllRanges == {120, 1200, 1201, 65535, 66000, -5, NotFinite, NoRange}
FewRanges == {120, 1201}
=============================================================================
