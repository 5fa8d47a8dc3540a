--------------------------- MODULE MotorFailsafe ---------------------------
(***************************************************************************)
(* What the bridge promises Gazebo about its rotors, without the socket,   *)
(* the loop or the latch: a rotor setpoint holds for Timeout ticks after   *)
(* it was taken over, the rotors are driven by the setpoint while it holds *)
(* and idle otherwise, and an orderly end leaves them at rest.             *)
(***************************************************************************)
EXTENDS Naturals

CONSTANTS
    Setpoints,      \* velocities of the rotors a command can ask for
    Idle,           \* velocities while no setpoint holds
    AtRest,         \* velocities an orderly end leaves
    Timeout         \* ticks a setpoint holds

VARIABLES
    mode,           \* "driving", "stopped" or "failed"
    setpoint,       \* the setpoint taken over last
    age,            \* ticks since then, at most Timeout + 1
    rotor           \* velocities Gazebo was told last

vars == <<mode, setpoint, age, rotor>>

Init ==
    /\ mode = "driving"
    /\ setpoint = Idle
    /\ age = Timeout + 1
    /\ rotor = AtRest

TakeOver(s) ==
    /\ mode = "driving"
    /\ setpoint' = s
    /\ age' = 0
    /\ UNCHANGED <<mode, rotor>>

Tick ==
    /\ mode = "driving"
    /\ age <= Timeout
    /\ age' = age + 1
    /\ UNCHANGED <<mode, setpoint, rotor>>

Holds == age <= Timeout

Drive ==
    /\ mode = "driving"
    /\ rotor' = IF Holds THEN setpoint ELSE Idle
    /\ UNCHANGED <<mode, setpoint, age>>

Stop ==
    /\ mode = "driving"
    /\ mode' = "stopped"
    /\ rotor' = AtRest
    /\ UNCHANGED <<setpoint, age>>

Fail ==
    /\ mode = "driving"
    /\ mode' = "failed"
    /\ UNCHANGED <<setpoint, age, rotor>>

Next ==
    \/ \E s \in Setpoints : TakeOver(s)
    \/ Tick
    \/ Drive
    \/ Stop
    \/ Fail

Spec == Init /\ [][Next]_vars
=============================================================================
