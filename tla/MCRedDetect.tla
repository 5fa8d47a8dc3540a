---------------------------- MODULE MCRedDetect -----------------------------
(* Instances of RedDetect for TLC. *)
EXTENDS RedDetect

\* An image of two channels, given by the pixels where each is high.
Image(h, s) ==
    [p \in Pixels |-> [c \in Channels |-> IF p \in (IF c = "H" THEN h ELSE s) THEN 1 ELSE 0]]

MCImages ==
    {Image({}, Pixels), Image({<<0, 0>>, <<1, 1>>}, {<<1, 1>>, <<2, 0>>}),
     Image({<<1, 0>>}, {<<1, 0>>, <<0, 1>>})}
=============================================================================
