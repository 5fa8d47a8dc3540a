------------------------------- MODULE Frames -------------------------------
(***************************************************************************)
(* The changes of frame the bridge applies to what Gazebo tells: Gazebo    *)
(* uses east-north-up for the world and forward-left-up for the body,      *)
(* Betaflight and MAVLink use frames that point down.                      *)
(*                                                                         *)
(* Vectors and quaternions <<w, x, y, z>> have integer components, so that *)
(* everything is exact.  A quaternion need not have norm one: q and every  *)
(* positive multiple of q stand for one rotation, and Rotation(q) is the   *)
(* matrix of that rotation times Norm2(q).  The square roots and divisions *)
(* of the code only normalise and are left out.                            *)
(***************************************************************************)
EXTENDS Integers

Norm2(q) == q[1] * q[1] + q[2] * q[2] + q[3] * q[3] + q[4] * q[4]

Rotation(q) ==
    LET w == q[1]  x == q[2]  y == q[3]  z == q[4]  n == Norm2(q)
    IN  << <<n - 2 * (y * y + z * z), 2 * (x * y - z * w), 2 * (x * z + y * w)>>,
           <<2 * (x * y + z * w), n - 2 * (x * x + z * z), 2 * (y * z - x * w)>>,
           <<2 * (x * z - y * w), 2 * (y * z + x * w), n - 2 * (x * x + y * y)>> >>

\* The product of a matrix and a vector.
Rotate(m, v) == [i \in 1 .. 3 |-> m[i][1] * v[1] + m[i][2] * v[2] + m[i][3] * v[3]]

Scale(k, v) == [i \in DOMAIN v |-> k * v[i]]
Minus(u, v) == [i \in 1 .. 3 |-> u[i] - v[i]]

\* Mutant: east and north are not exchanged.
EnuToNed_Unswapped(v) == <<v[1], v[2], -v[3]>>

EnuToNed(v) == <<v[2], v[1], -v[3]>>

\* Mutant: the left axis stays left.
FluVectorToFrdSensor_KeepsLeft(v) == <<v[1], v[2], -v[3]>>

\* The body vectors of an FDM packet.
FluVectorToFrdSensor(v) == <<v[1], -v[2], -v[3]>>

\* Mutant: the up axis stays up.
FluToFrd_KeepsUp(v) == <<v[1], -v[2], v[3]>>

\* The body vectors of an odometry message, whose code is its own.
FluToFrd(v) == <<v[1], -v[2], -v[3]>>

\* Mutant: the rotation is inverted.
FluBodyToEnuWorldQuatToGazeboBridgeQuat_Inverse(q) == <<q[1], -q[2], q[3], q[4]>>

FluBodyToEnuWorldQuatToGazeboBridgeQuat(q) == <<q[1], q[2], -q[3], -q[4]>>

\* The matrix of an attitude, from body FLU to ENU, becomes one from body FRD
\* to NED.
NedFrdMatrix(r) ==
    << <<r[2][1], -r[2][2], -r[2][3]>>,
       <<r[1][1], -r[1][2], -r[1][3]>>,
       <<-r[3][1], r[3][2], r[3][3]>> >>

\* Mutant: the sign of the off-diagonal pair that the second branch mixes.
EnuFluToNedFrdQuaternion_WrongBranch(q) ==
    LET m == NedFrdMatrix(Rotation(q))
        n == Norm2(q)
        trace == m[1][1] + m[2][2] + m[3][3]
    IN  CASE trace > 0 ->
                <<n + trace, m[3][2] - m[2][3], m[1][3] - m[3][1], m[2][1] - m[1][2]>>
          [] OTHER ->
                <<m[3][2] - m[2][3], n + m[1][1] - m[2][2] - m[3][3],
                  m[1][2] + m[2][1], m[1][3] + m[3][1]>>

\* The quaternion of that matrix, by way of its largest component.
EnuFluToNedFrdQuaternion(q) ==
    LET m == NedFrdMatrix(Rotation(q))
        n == Norm2(q)
        trace == m[1][1] + m[2][2] + m[3][3]
    IN  IF trace > 0
          THEN <<n + trace, m[3][2] - m[2][3], m[1][3] - m[3][1], m[2][1] - m[1][2]>>
        ELSE IF m[1][1] > m[2][2] /\ m[1][1] > m[3][3]
          THEN <<m[3][2] - m[2][3], n + m[1][1] - m[2][2] - m[3][3],
                 m[1][2] + m[2][1], m[1][3] + m[3][1]>>
        ELSE IF m[2][2] > m[3][3]
          THEN <<m[1][3] - m[3][1], m[1][2] + m[2][1],
                 n + m[2][2] - m[1][1] - m[3][3], m[2][3] + m[3][2]>>
        ELSE <<m[2][1] - m[1][2], m[1][3] + m[3][1], m[2][3] + m[3][2],
               n + m[3][3] - m[1][1] - m[2][2]>>

\* What is observable of the orientation, linear acceleration and angular
\* velocity of an FDM packet; `gazeboBridge` is fdm.frame_mode.
FdmImu(orientation, acceleration, angularVelocity, gazeboBridge) ==
    IF gazeboBridge
      THEN [orientation |-> FluBodyToEnuWorldQuatToGazeboBridgeQuat(orientation),
            acceleration |-> FluVectorToFrdSensor(acceleration),
            angularVelocity |-> FluVectorToFrdSensor(angularVelocity)]
      ELSE [orientation |-> orientation, acceleration |-> acceleration,
            angularVelocity |-> angularVelocity]
=============================================================================
