----------------------------- MODULE MCGzImgSrc -----------------------------
(* Instances of GzImgSrc for TLC. *)
EXTENDS GzImgSrc

Rgb(width, height, step, size) ==
    [format |-> "RGB", width |-> width, height |-> height, step |-> step, size |-> size]

Good == Rgb(4, 2, 12, 24)
Short == Rgb(4, 2, 12, 23)
NarrowStep == Rgb(4, 2, 11, 24)
Unsupported == [Good EXCEPT !.format = "other"]

GoodAndBad == {Good, Short, NarrowStep, Unsupported}
OnlyGood == {Good}
=============================================================================
