----------------------------- MODULE MCOdometry -----------------------------
(* Instances of Odometry for TLC. *)
EXTENDS Odometry

Pose(position, orientation, finite) ==
    [position |-> position, orientation |-> orientation,
     linearVelocity |-> <<1, 2, 3>>, angularVelocity |-> <<3, -1, 2>>, finite |-> finite]

\* The valid ones take the four branches of EnuFluToNedFrdQuaternion, at its
\* boundaries too (half turns), and tilt about every axis.
MCPoses ==
    {Pose(<<0, 0, 0>>, <<1, 0, 0, 1>>, TRUE),
     Pose(<<2, 1, 3>>, <<1, 1, 1, 0>>, TRUE),
     Pose(<<1, 0, -1>>, <<1, 1, -1, 0>>, TRUE),
     Pose(<<0, 2, 1>>, <<1, 0, 0, -1>>, TRUE),
     Pose(<<0, 2, 2>>, <<2, 1, -1, 3>>, TRUE),
     Pose(<<1, 1, 1>>, <<0, 1, 0, 0>>, TRUE),
     Pose(<<1, 1, 2>>, <<0, 1, 2, -1>>, TRUE),
     Pose(<<1, 2, 0>>, <<-1, 0, 2, 1>>, TRUE),
     Pose(<<4, 4, 4>>, <<0, 0, 0, 0>>, TRUE),
     Pose(<<4, 4, 5>>, <<1, 0, 0, 0>>, FALSE)}
=============================================================================
