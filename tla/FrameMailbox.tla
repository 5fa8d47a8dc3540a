---------------------------- MODULE FrameMailbox ----------------------------
(***************************************************************************)
(* What gzimgsrc promises its pipeline: the camera leaves frames in a      *)
(* place for one, where a newer frame replaces an older one; what is       *)
(* pushed was left there, is pushed once, and never follows a later frame. *)
(* Frames may be lost at any time, for the element may be stopped.         *)
(***************************************************************************)
EXTENDS Integers, Sequences, SequencesExt

CONSTANTS Frames, NoFrame

VARIABLES
    waiting,    \* the frame in the mailbox, or NoFrame
    inHand,     \* the frame the streaming thread took
    out         \* the frames pushed

vars == <<waiting, inHand, out>>

Init == waiting = NoFrame /\ inHand = NoFrame /\ out = << >>

Kept == ({waiting, inHand} \ {NoFrame}) \cup ToSet(out)

Put(frame) ==
    /\ \A kept \in Kept : kept.id < frame.id
    /\ waiting' = frame
    /\ UNCHANGED <<inHand, out>>

Take ==
    /\ waiting # NoFrame
    /\ inHand = NoFrame
    /\ inHand' = waiting
    /\ waiting' = NoFrame
    /\ UNCHANGED out

Push ==
    /\ inHand # NoFrame
    /\ out' = Append(out, inHand)
    /\ inHand' = NoFrame
    /\ UNCHANGED waiting

Lose ==
    /\ waiting' \in {waiting, NoFrame}
    /\ inHand' \in {inHand, NoFrame}
    /\ UNCHANGED out

Next == (\E frame \in Frames : Put(frame)) \/ Take \/ Push \/ Lose

Spec == Init /\ [][Next]_vars
=============================================================================
