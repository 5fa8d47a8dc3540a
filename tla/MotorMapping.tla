---------------------------- MODULE MotorMapping ----------------------------
(***************************************************************************)
(* The pure path of a motor command: the order of the motors in a SITL     *)
(* packet, the configured assignment of Betaflight motors to Gazebo rotors *)
(* and the conversion of a normalized command to a rotor velocity.         *)
(*                                                                         *)
(* A command is counted in 1/FullScale of full throttle, and a velocity in *)
(* 1/FullScale of a radian per second, so that the linear interpolation of *)
(* the code is exact in the integers.  Motors are numbered from 0.         *)
(***************************************************************************)
EXTENDS Integers

CONSTANTS
    MotorMap,           \* motors.map: the Betaflight motor of each rotor
    MinRotorVelocity,   \* motors.min_rotor_velocity_rad_s
    MaxRotorVelocity,   \* motors.max_rotor_velocity_rad_s
    FullScale,          \* the number of command units in a command of 1.0
    NotFinite           \* a NaN or an infinity

Motors == 0..3

\* What ConfigLoader::Validate accepts: four different indices in range.
ValidMap(map) ==
    /\ map \in [Motors -> Motors]
    /\ \A m, n \in Motors : map[m] = map[n] => m = n

\* What Validate and the MotorVelocityConverter constructor accept.
ValidRange(min, max) == min \in Nat /\ max \in Nat /\ min < max

ASSUME MotorMapAssumption == ValidMap(MotorMap)
ASSUME VelocityAssumption == ValidRange(MinRotorVelocity, MaxRotorVelocity)
ASSUME FullScaleAssumption == FullScale \in Nat \ {0}
ASSUME NotFiniteAssumption == NotFinite \notin Int

Commands == [Motors -> Int]
Velocities == [Motors -> Nat]

\* A SITL packet carries [M2, M3, M4, M1].
SitlPacketToBetaflightMotorOrder(packetMotors) ==
    [m \in Motors |-> IF m = 0 THEN packetMotors[3] ELSE packetMotors[m - 1]]

Apply(betaflightMotors) ==
    [rotor \in Motors |-> betaflightMotors[MotorMap[rotor]]]

\* Mutants: a negative command passes; one beyond full throttle passes.
Clamp_UpperOnly(command) == IF command > FullScale THEN FullScale ELSE command

Clamp_LowerOnly(command) == IF command < 0 THEN 0 ELSE command

Clamp(command) ==
    IF command < 0 THEN 0 ELSE IF command > FullScale THEN FullScale ELSE command

Convert(command) ==
    MinRotorVelocity * FullScale + Clamp(command) * (MaxRotorVelocity - MinRotorVelocity)

\* What PublishMotorCommandIfNeeded makes of a command in Betaflight order.
RotorVelocities(command) == [rotor \in Motors |-> Convert(Apply(command)[rotor])]

ZeroMotors == [m \in Motors |-> 0]

\* The velocities published while no command is in force.
IdleVelocities == RotorVelocities(ZeroMotors)
=============================================================================
