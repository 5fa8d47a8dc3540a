------------------------------ MODULE Odometry ------------------------------
(***************************************************************************)
(* OdometryManager and OdometryConverter: Gazebo odometry samples become   *)
(* MAVLink ODOMETRY messages relative to a local origin.                   *)
(*                                                                         *)
(* The callback runs on a Gazebo transport thread and Update on the main   *)
(* thread of the bridge.  They share the last sample under one lock, which *)
(* Update holds once; the converter belongs to the main thread.  So the    *)
(* callback and Update are one step each.                                  *)
(*                                                                         *)
(* Simulation time is in microseconds; generation is compared only with    *)
(* the last one sent, so the model keeps whether they differ.              *)
(***************************************************************************)
EXTENDS Frames

CONSTANTS
    Poses,          \* what a Gazebo message may tell of the vehicle
    MaxTime,        \* bound on simulation time
    StaleAfter,     \* kStaleAfter, in ticks of the bridge's clock
    CounterSize,    \* the values of reset_counter: 256 for a uint8
    None            \* std::nullopt

Vectors == [1 .. 3 -> Int]
Quaternions == [1 .. 4 -> Int]

\* `finite` is FALSE when a component is infinite or not a number.
ASSUME PoseAssumption ==
    \A p \in Poses :
        /\ DOMAIN p = {"position", "orientation", "linearVelocity", "angularVelocity", "finite"}
        /\ {p.position, p.linearVelocity, p.angularVelocity} \subseteq Vectors
        /\ p.orientation \in Quaternions
        /\ p.finite \in BOOLEAN
ASSUME BoundAssumption ==
    /\ MaxTime \in Nat /\ StaleAfter \in Nat
    /\ CounterSize \in Nat \ {0, 1}

Samples == [timeUsec : 0 .. MaxTime, pose : Poses]
Messages == [timeUsec : 0 .. MaxTime, position : Vectors, orientation : Quaternions,
             linearVelocity : Vectors, angularVelocity : Vectors,
             resetCounter : 0 .. CounterSize - 1]

ASSUME NoneAssumption == None \notin Samples \cup Messages \cup Vectors \cup Poses \cup Int

VARIABLES
    simTime,        \* the time of the simulation
    sample,         \* the sample of the last complete Gazebo message
    sampleAge,      \* now - sampleReceived, at most StaleAfter + 1
    unsent,         \* generation # sentGeneration
    lastTimeUsec,   \* lastTimeUsec_
    origin,         \* origin_
    resetCounter,   \* resetCounter_
    message,        \* the last ODOMETRY message sent
    shown           \* the pose that message was made from (of the properties only)

shared == <<sample, sampleAge, unsent>>
converter == <<lastTimeUsec, origin, resetCounter>>
sent == <<message, shown>>
vars == <<simTime, shared, converter, sent>>

Init ==
    /\ simTime = 0
    /\ sample = None
    /\ sampleAge = StaleAfter + 1
    /\ unsent = FALSE
    /\ lastTimeUsec = None
    /\ origin = None
    /\ resetCounter = 0
    /\ message = None
    /\ shown = None

-----------------------------------------------------------------------------
(* The simulation and the clock. *)

SimStep ==
    /\ simTime < MaxTime
    /\ simTime' = simTime + 1
    /\ UNCHANGED <<shared, converter, sent>>

SimReset ==
    /\ simTime > 0
    /\ simTime' = 0
    /\ UNCHANGED <<shared, converter, sent>>

Tick ==
    /\ sampleAge' = IF sampleAge <= StaleAfter THEN sampleAge + 1 ELSE sampleAge
    /\ UNCHANGED <<simTime, sample, unsent, converter, sent>>

-----------------------------------------------------------------------------
(* The bridge. *)

\* A message without stamp, pose or twist, or with a stamp out of range, is
\* ignored.
OnOdometry(pose, complete) ==
    /\ IF complete
         THEN /\ sample' = [timeUsec |-> simTime, pose |-> pose]
              /\ sampleAge' = 0
              /\ unsent' = TRUE
         ELSE UNCHANGED shared
    /\ UNCHANGED <<simTime, converter, sent>>

Finite(pose) == pose.finite /\ Norm2(pose.orientation) > 0

\* Mutant: a step back by the smallest amount is put up with.
MovedBack_Tolerant(timeUsec) == lastTimeUsec # None /\ timeUsec + 1 < lastTimeUsec

MovedBack(timeUsec) == lastTimeUsec # None /\ timeUsec < lastTimeUsec

\* Mutant: the counter is wider than the field of the message.
NextCounter_Wide == resetCounter + 1

\* ++resetCounter_ of a uint8.
NextCounter == (resetCounter + 1) % CounterSize

\* Mutant: a reset counts and keeps the old origin.
NewOrigin_Kept(next) == IF origin = None THEN next.pose.position ELSE origin

NewOrigin(next) ==
    IF origin = None \/ MovedBack(next.timeUsec) THEN next.pose.position ELSE origin

\* What the message packed from a converted sample says.
Converted(next) ==
    [timeUsec |-> next.timeUsec,
     position |-> EnuToNed(Minus(next.pose.position, origin')),
     orientation |-> EnuFluToNedFrdQuaternion(next.pose.orientation),
     linearVelocity |-> FluToFrd(next.pose.linearVelocity),
     angularVelocity |-> FluToFrd(next.pose.angularVelocity),
     resetCounter |-> resetCounter']

\* OdometryConverter::Convert of a finite sample, and its message.
Convert(next) ==
    /\ lastTimeUsec' = next.timeUsec
    /\ resetCounter' = IF MovedBack(next.timeUsec) THEN NextCounter ELSE resetCounter
    /\ origin' = NewOrigin(next)
    /\ message' = Converted(next)
    /\ shown' = next.pose

SampleDue == unsent /\ sampleAge <= StaleAfter

Update ==
    /\ SampleDue
    /\ unsent' = FALSE
    /\ IF Finite(sample.pose)
         THEN Convert(sample)
         ELSE UNCHANGED <<converter, sent>>
    /\ UNCHANGED <<simTime, sample, sampleAge>>

Next ==
    \/ SimStep
    \/ SimReset
    \/ Tick
    \/ \E pose \in Poses, complete \in BOOLEAN : OnOdometry(pose, complete)
    \/ Update

Spec == Init /\ [][Next]_vars

-----------------------------------------------------------------------------
(* Correctness. *)

\* What north, east and down are of a vector of Gazebo's world.
NorthEastDown(v) == <<v[2], v[1], -v[3]>>

\* Every variable keeps its type.
TypeOK ==
    /\ simTime \in 0 .. MaxTime
    /\ sample \in Samples \cup {None}
    /\ sampleAge \in 0 .. StaleAfter + 1
    /\ unsent \in BOOLEAN
    /\ lastTimeUsec \in 0 .. MaxTime \cup {None}
    /\ origin \in {p.position : p \in Poses} \cup {None}
    /\ resetCounter \in 0 .. CounterSize - 1
    /\ message \in Messages \cup {None}
    /\ shown \in Poses \cup {None}

\* A consumer sees time go back only together with a new reset_counter,
\* whatever samples were skipped, stale or invalid in between (Convert).
TimeGoesBackOnlyWithReset ==
    [][message # None /\ message'.timeUsec < message.timeUsec
        => message'.resetCounter # message.resetCounter]_sent

\* From one message to the next the reported position moves as the vehicle
\* moved, or the counter is new and the position is the new origin, whatever
\* invalid or skipped samples lie between (docs/design/
\* optical_flow_odometry.md: "Increment `reset_counter` when simulation time
\* moves backward or the local origin is re-established").
DisplacementFollowsVehicle ==
    [][message' # None =>
        IF message # None /\ message'.resetCounter = message.resetCounter
          THEN Minus(message'.position, message.position)
                 = NorthEastDown(Minus(shown'.position, shown.position))
          ELSE message'.position = <<0, 0, 0>>]_sent

\* A consumer that turns the body velocities of a message by its quaternion
\* gets the velocities of the vehicle in the world, north, east and down:
\* axes, signs and the four branches of EnuFluToNedFrdQuaternion fit together.
MessageShowsVehicleMotion ==
    message # None =>
        LET toNed == Rotation(message.orientation)
            toEnu == Rotation(shown.orientation)
            SameInWorld(reported, moved) ==
                Scale(Norm2(shown.orientation), Rotate(toNed, reported))
                  = Scale(Norm2(message.orientation), NorthEastDown(Rotate(toEnu, moved)))
        IN  /\ Norm2(message.orientation) > 0
            /\ SameInWorld(message.linearVelocity, shown.linearVelocity)
            /\ SameInWorld(message.angularVelocity, shown.angularVelocity)

\* Betaflight and the companion are told of one vehicle: an FDM packet and
\* an ODOMETRY message of the same pose, each with its body vectors turned by
\* its own quaternion, tell the same vector, up to the quarter turn between
\* the two world frames (FluBodyToEnuWorldQuatToGazeboBridgeQuat and
\* EnuFluToNedFrdQuaternion).
FdmAndOdometryAgree ==
    message # None =>
        LET fdm == FdmImu(shown.orientation, shown.linearVelocity, shown.angularVelocity, TRUE)
            SameInWorld(betaflight, companion) ==
                LET eastSouthDown == Rotate(Rotation(fdm.orientation), betaflight)
                    northEastDown == <<-eastSouthDown[2], eastSouthDown[1], eastSouthDown[3]>>
                IN  Scale(Norm2(message.orientation), northEastDown)
                      = Scale(Norm2(fdm.orientation),
                              Rotate(Rotation(message.orientation), companion))
        IN  /\ SameInWorld(fdm.acceleration, message.linearVelocity)
            /\ SameInWorld(fdm.angularVelocity, message.angularVelocity)
=============================================================================
