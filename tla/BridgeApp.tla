----------------------------- MODULE BridgeApp -----------------------------
(***************************************************************************)
(* The main loop of the bridge (BridgeApp::Run) between its three          *)
(* environments: the SITL process that sends motor packets to a UDP port,  *)
(* Gazebo, whose transport threads call the sensor callbacks, and the      *)
(* operator who sends SIGINT or SIGTERM.                                   *)
(*                                                                         *)
(* Each function the loop calls is one step; ReceiveMotorPackets is one    *)
(* step for each datagram, because datagrams can arrive while it drains    *)
(* the socket.  The environments act between any two steps.                *)
(*                                                                         *)
(* Time is counted in ticks.  The code compares clock readings only with   *)
(* a limit, so the model keeps the age of each reading instead of the      *)
(* reading, and stops counting once the age is past the limit.             *)
(***************************************************************************)
EXTENDS MotorMapping, Sequences

CONSTANTS
    Datagrams,          \* what may arrive on the motor port
    ServoPacketSize,    \* sizeof(ServoPacket)
    RecvBuffer,         \* datagrams the kernel keeps for the motor socket
    Timeout,            \* motors.timeout_seconds, in ticks
    FdmPeriod,          \* 1 / fdm.rate_hz, in ticks
    HeartbeatPeriod,    \* the second between MAVLink heartbeats, in ticks
    NavSatRequired,     \* gazebo.navsat_topic is configured
    AltitudeSource,     \* fdm.altitude_source: "altimeter" or "gps"
    HasMavlinkOutput,   \* hasMavlinkOutput_
    SocketsMayFail,     \* a system call on a socket may fail
    NoPacket            \* no FDM packet has been sent

ASSUME DatagramAssumption ==
    Datagrams \subseteq [size : Nat, motors : [Motors -> Int \cup {NotFinite}]]
ASSUME RecvBufferAssumption == RecvBuffer \in Nat \ {0}
ASSUME PeriodAssumption ==
    /\ Timeout \in Nat \ {0}
    /\ FdmPeriod \in Nat \ {0}
    /\ HeartbeatPeriod \in Nat \ {0}
ASSUME SwitchAssumption ==
    /\ NavSatRequired \in BOOLEAN
    /\ HasMavlinkOutput \in BOOLEAN
    /\ SocketsMayFail \in BOOLEAN
ASSUME AltitudeSourceAssumption ==
    /\ AltitudeSource \in {"altimeter", "gps"}
    /\ AltitudeSource = "gps" => NavSatRequired     \* ConfigLoader::Validate

VARIABLES
    pc,                 \* where the main thread is
    stopRequested,      \* g_stopRequested
    arrived,            \* the receive buffer of motorSocket_
    newest,             \* the last usable packet put in it (history variable)
    hasMotorPacket,     \* hasMotorPacket_
    lastMotorCommand,   \* lastMotorCommand_
    motorAge,           \* now - lastMotorPacketTime_
    motorTimedOut,      \* motorTimedOut_
    rotor,              \* the velocities of the last Actuators message
    received,           \* the sensors heard: hasImu_, hasAltimeter_, hasNavSat
    fdm,                \* the last FDM packet sent
    fdmAge,             \* now - lastFdmSendTime_
    heartbeatAge        \* now - lastMavlinkHeartbeatTime_

process == <<pc, stopRequested>>
motorState == <<hasMotorPacket, lastMotorCommand, motorAge, motorTimedOut>>
socket == <<arrived, newest>>
fdmState == <<fdm, fdmAge>>
vars == <<process, socket, motorState, rotor, received, fdmState, heartbeatAge>>

Running == pc \notin {"stopped", "failed"}

SensorsRequired == {"imu", "altimeter"} \cup (IF NavSatRequired THEN {"navsat"} ELSE {})

FdmPackets == [position : {"unset", "navsat"}, altitude : {"altimeter", "navsat"}]

Init ==
    /\ pc = "loop"
    /\ stopRequested = FALSE
    /\ arrived = << >>
    /\ newest = ZeroMotors
    /\ hasMotorPacket = FALSE
    /\ lastMotorCommand = ZeroMotors
    /\ motorAge = Timeout + 1
    /\ motorTimedOut = FALSE
    /\ rotor = ZeroMotors
    /\ received = {}
    /\ fdm = NoPacket
    /\ fdmAge = FdmPeriod
    /\ heartbeatAge = HeartbeatPeriod

-----------------------------------------------------------------------------
(* The environment. *)

Valid(datagram) ==
    /\ datagram.size = ServoPacketSize
    /\ \A m \in Motors : datagram.motors[m] # NotFinite

\* A datagram reaches the motor port; the kernel drops it when the receive
\* buffer is full.
SitlSend(datagram) ==
    /\ Running
    /\ IF Len(arrived) < RecvBuffer
         THEN /\ arrived' = Append(arrived, datagram)
              /\ newest' = IF Valid(datagram) THEN datagram.motors ELSE newest
         ELSE UNCHANGED socket
    /\ UNCHANGED <<process, motorState, rotor, received, fdmState, heartbeatAge>>

\* OnImu, OnAltimeter or OnNavSat runs on a Gazebo transport thread.
OnSensor(sensor) ==
    /\ Running
    /\ received' = received \cup {sensor}
    /\ UNCHANGED <<process, socket, motorState, rotor, fdmState, heartbeatAge>>

SignalHandler ==
    /\ Running
    /\ stopRequested' = TRUE
    /\ UNCHANGED <<pc, socket, motorState, rotor, received, fdmState, heartbeatAge>>

Older(age, limit) == IF age < limit THEN age + 1 ELSE age

Tick ==
    /\ Running
    /\ motorAge' = Older(motorAge, Timeout + 1)
    /\ fdmAge' = Older(fdmAge, FdmPeriod)
    /\ heartbeatAge' = Older(heartbeatAge, HeartbeatPeriod)
    /\ UNCHANGED <<process, socket, hasMotorPacket, lastMotorCommand,
                   motorTimedOut, rotor, received, fdm>>

-----------------------------------------------------------------------------
(* The main thread. *)

Goto(from, to) == pc = from /\ pc' = to /\ UNCHANGED stopRequested

\* A system call fails inside the step at `from`: UdpSocket throws, the
\* exception leaves Run, and main returns 1.
Throw(from) ==
    /\ SocketsMayFail
    /\ Goto(from, "failed")
    /\ UNCHANGED <<socket, motorState, rotor, received, fdmState, heartbeatAge>>

\* Mutant: the loop does not look at the stop request.
BeginIteration_IgnoresStop ==
    /\ Goto("loop", "receive")
    /\ UNCHANGED <<socket, motorState, rotor, received, fdmState, heartbeatAge>>

BeginIteration ==
    /\ ~stopRequested
    /\ Goto("loop", "receive")
    /\ UNCHANGED <<socket, motorState, rotor, received, fdmState, heartbeatAge>>

\* Mutant: the loop ends without publishing.
PublishZerosAndStop_Silent ==
    /\ stopRequested
    /\ Goto("loop", "stopped")
    /\ UNCHANGED <<socket, motorState, rotor, received, fdmState, heartbeatAge>>

\* The loop ends: raw zeros are published, without the velocity converter.
PublishZerosAndStop ==
    /\ stopRequested
    /\ Goto("loop", "stopped")
    /\ rotor' = ZeroMotors
    /\ UNCHANGED <<socket, motorState, received, fdmState, heartbeatAge>>

\* Mutant: the latch survives a new packet.
AcceptCommand_KeepsLatch(packetMotors) ==
    /\ lastMotorCommand' = SitlPacketToBetaflightMotorOrder(packetMotors)
    /\ motorAge' = 0
    /\ hasMotorPacket' = TRUE
    /\ UNCHANGED motorTimedOut

\* Mutant: only the first packet of an outage is taken over.
AcceptCommand_FirstOnly(packetMotors) ==
    /\ lastMotorCommand' = IF hasMotorPacket /\ ~motorTimedOut THEN lastMotorCommand
                           ELSE SitlPacketToBetaflightMotorOrder(packetMotors)
    /\ motorAge' = 0
    /\ hasMotorPacket' = TRUE
    /\ motorTimedOut' = FALSE

AcceptCommand(packetMotors) ==
    /\ lastMotorCommand' = SitlPacketToBetaflightMotorOrder(packetMotors)
    /\ motorAge' = 0
    /\ hasMotorPacket' = TRUE
    /\ motorTimedOut' = FALSE

\* One turn of the loop of ReceiveMotorPackets.
ReceiveDatagram ==
    /\ arrived # << >>
    /\ Goto("receive", "receive")
    /\ IF Valid(Head(arrived))
         THEN AcceptCommand(Head(arrived).motors)
         ELSE UNCHANGED motorState
    /\ arrived' = Tail(arrived)
    /\ UNCHANGED <<newest, rotor, received, fdmState, heartbeatAge>>

\* recvfrom answers EAGAIN.
SocketEmpty ==
    /\ arrived = << >>
    /\ Goto("receive", "publish")
    /\ UNCHANGED <<socket, motorState, rotor, received, fdmState, heartbeatAge>>

\* Mutant: the timeout is only logged.
CommandInForce_NoTimeout == hasMotorPacket

CommandInForce == hasMotorPacket /\ motorAge <= Timeout

PublishMotorCommand ==
    /\ Goto("publish", "fdm")
    /\ rotor' = RotorVelocities(IF CommandInForce THEN lastMotorCommand ELSE ZeroMotors)
    /\ motorTimedOut' = (motorTimedOut \/ (hasMotorPacket /\ ~CommandInForce))
    /\ UNCHANGED <<socket, hasMotorPacket, lastMotorCommand, motorAge,
                   received, fdmState, heartbeatAge>>

\* Mutant: NavSat is not waited for.
SnapshotReady_WithoutNavSat == {"imu", "altimeter"} \subseteq received

\* GazeboStateSubscriber::Snapshot returns a value.
SnapshotReady ==
    /\ {"imu", "altimeter"} \subseteq received
    /\ NavSatRequired => "navsat" \in received

\* FdmBuilder::Build, reduced to where the position and altitude come from.
Build(sensors) ==
    [position |-> IF "navsat" \in sensors THEN "navsat" ELSE "unset",
     altitude |-> IF AltitudeSource = "gps" /\ "navsat" \in sensors
                    THEN "navsat" ELSE "altimeter"]

FdmDue == fdmAge >= FdmPeriod /\ SnapshotReady

SendFdm ==
    /\ Goto("fdm", "rangefinders")
    /\ IF FdmDue
         THEN fdm' = Build(received) /\ fdmAge' = 0
         ELSE UNCHANGED fdmState
    /\ UNCHANGED <<socket, motorState, rotor, received, heartbeatAge>>

SendFdmThrows == FdmDue /\ Throw("fdm")

\* RangefinderManager::Update and OdometryManager::Update: what they send is
\* modelled in modules of their own; here they may throw.
UpdateRangefinders ==
    /\ Goto("rangefinders", "odometry")
    /\ UNCHANGED <<socket, motorState, rotor, received, fdmState, heartbeatAge>>

UpdateOdometry ==
    /\ Goto("odometry", "heartbeat")
    /\ UNCHANGED <<socket, motorState, rotor, received, fdmState, heartbeatAge>>

UpdateThrows == HasMavlinkOutput /\ \E at \in {"rangefinders", "odometry"} : Throw(at)

\* Mutant: the heartbeat waits for the sensors.
HeartbeatDue_NeedsSensors ==
    HasMavlinkOutput /\ heartbeatAge >= HeartbeatPeriod /\ SnapshotReady

HeartbeatDue == HasMavlinkOutput /\ heartbeatAge >= HeartbeatPeriod

\* The heartbeat, the status log and the sleep that end an iteration.
SendMavlinkHeartbeat ==
    /\ Goto("heartbeat", "loop")
    /\ heartbeatAge' = IF HeartbeatDue THEN 0 ELSE heartbeatAge
    /\ UNCHANGED <<socket, motorState, rotor, received, fdmState>>

HeartbeatThrows == HeartbeatDue /\ Throw("heartbeat")

\* recvfrom fails with something other than EAGAIN.
ReceiveThrows == Throw("receive")

MainThread ==
    \/ BeginIteration
    \/ PublishZerosAndStop
    \/ ReceiveDatagram
    \/ SocketEmpty
    \/ PublishMotorCommand
    \/ SendFdm
    \/ UpdateRangefinders
    \/ UpdateOdometry
    \/ SendMavlinkHeartbeat

Failure ==
    \/ ReceiveThrows
    \/ SendFdmThrows
    \/ UpdateThrows
    \/ HeartbeatThrows

Next ==
    \/ \E datagram \in Datagrams : SitlSend(datagram)
    \/ \E sensor \in SensorsRequired : OnSensor(sensor)
    \/ SignalHandler
    \/ Tick
    \/ MainThread
    \/ Failure

\* The scheduler runs the main thread and the clock advances.  Nothing is
\* assumed of SITL, of Gazebo or of the operator.
Fairness == WF_vars(MainThread) /\ WF_vars(Tick)

Spec == Init /\ [][Next]_vars
FairSpec == Spec /\ Fairness

-----------------------------------------------------------------------------
(* Correctness. *)

\* Every variable keeps its type, and every age stays within its limit.
TypeOK ==
    /\ pc \in {"loop", "receive", "publish", "fdm", "rangefinders", "odometry",
               "heartbeat", "stopped", "failed"}
    /\ stopRequested \in BOOLEAN
    /\ arrived \in Seq(Datagrams)
    /\ Len(arrived) <= RecvBuffer
    /\ newest \in Commands
    /\ hasMotorPacket \in BOOLEAN
    /\ lastMotorCommand \in Commands
    /\ motorAge \in 0 .. Timeout + 1
    /\ motorTimedOut \in BOOLEAN
    /\ rotor \in Velocities
    /\ received \subseteq SensorsRequired
    /\ fdm \in FdmPackets \cup {NoPacket}
    /\ fdmAge \in 0 .. FdmPeriod
    /\ heartbeatAge \in 0 .. HeartbeatPeriod

\* The timeout latch tells the truth: it is set only while a command was
\* received and has expired, whatever arrives between two iterations
\* (BridgeApp.cc, motorTimedOut_).
TimeoutLatchTruthful == motorTimedOut => hasMotorPacket /\ motorAge > Timeout

NoneUsable(datagrams) == \A i \in 1 .. Len(datagrams) : ~Valid(datagrams[i])

\* After a publication, and while no usable packet waits, rotors that are not
\* idle follow the newest usable packet that SITL got into the receive buffer:
\* the queue of a stalled loop is drained to its end, and malformed packets
\* neither drive the rotors nor hide a good one (ReceiveMotorPackets).
NewestCommandDrives ==
    /\ pc = "fdm"
    /\ rotor # IdleVelocities
    /\ NoneUsable(arrived)
    => rotor = RotorVelocities(SitlPacketToBetaflightMotorOrder(newest))

\* Whatever SITL sends, Gazebo is told velocities between the configured
\* bounds, or the zeros of the initial and the final state (Convert).
RotorWithinRange ==
    \/ rotor = ZeroMotors
    \/ \A r \in Motors : /\ rotor[r] >= MinRotorVelocity * FullScale
                         /\ rotor[r] <= MaxRotorVelocity * FullScale

\* An orderly end leaves the rotors at zero velocity, and nothing that arrives
\* late drives them again (the Publish after the loop of Run).
OrderlyStopLeavesZero == pc = "stopped" => rotor = ZeroMotors

\* Every FDM packet takes its position and its altitude from the configured
\* sources, so the flight controller never sees the source change in flight
\* nor the default position taken for a home (Snapshot and Build together
\* with the rule of Validate on altitude_source).
FdmSourcesAsConfigured ==
    fdm # NoPacket =>
        /\ fdm.position = (IF NavSatRequired THEN "navsat" ELSE "unset")
        /\ fdm.altitude = (IF AltitudeSource = "gps" THEN "navsat" ELSE "altimeter")

\* What makes the invariants above inductive: before the first packet no
\* command is in force; the last usable datagram of the receive buffer is the
\* newest packet, which is the last command once none is left; and after a
\* publication the rotors follow the last command or are idle.
BeforeFirstPacket == ~hasMotorPacket => motorAge = Timeout + 1

NewestIsLastUsable ==
    \A i \in 1 .. Len(arrived) :
        /\ Valid(arrived[i])
        /\ \A j \in i + 1 .. Len(arrived) : ~Valid(arrived[j])
        => arrived[i].motors = newest

NewestIsLastCommand ==
    NoneUsable(arrived) => lastMotorCommand = SitlPacketToBetaflightMotorOrder(newest)

PublishedLastCommand ==
    pc = "fdm" => rotor \in {IdleVelocities, RotorVelocities(lastMotorCommand)}

InductiveInvariant ==
    /\ TypeOK
    /\ TimeoutLatchTruthful
    /\ BeforeFirstPacket
    /\ NewestIsLastUsable
    /\ NewestIsLastCommand
    /\ PublishedLastCommand
    /\ RotorWithinRange
    /\ OrderlyStopLeavesZero
    /\ FdmSourcesAsConfigured

\* What the usable packets SITL may send ask of the rotors.
Setpoints ==
    {RotorVelocities(SitlPacketToBetaflightMotorOrder(datagram.motors)) :
        datagram \in {d \in Datagrams : Valid(d)}}

\* The bridge seen as the failsafe: a setpoint is what a packet accepted from
\* the socket asks for; the queue and the timeout latch do not show.
Failsafe == INSTANCE MotorFailsafe WITH
    Setpoints <- Setpoints,
    Idle <- IdleVelocities,
    AtRest <- ZeroMotors,
    mode <- IF Running THEN "driving" ELSE pc,
    setpoint <- RotorVelocities(lastMotorCommand),
    age <- motorAge

\* Every behaviour of the bridge is one of the failsafe's (MotorFailsafe.tla).
ImplementsFailsafe == Failsafe!Spec

SitlSends == \E datagram \in Datagrams : SitlSend(datagram)

\* When SITL falls silent its last command expires for good, whatever else goes
\* on, or the bridge ends.  The rotors are then left with the velocities of a
\* zero command: the configured minimum, which is zero only where the minimum
\* is (PublishMotorCommandIfNeeded and Convert; SilentSitlStopsRotors below).
SilentSitlTimesOut ==
    \/ []<><<SitlSends>>_vars
    \/ <>~Running
    \/ <>[](rotor = IdleVelocities)

\* A stop request ends the bridge, unless SITL sends without end: the drain
\* loop of ReceiveMotorPackets has no bound of its own (Run).
StopRequestEndsBridge ==
    []<><<SitlSends>>_vars \/ (stopRequested ~> ~Running)

\* What the bridge owes its consumers keeps flowing while it runs: FDM packets
\* once every required sensor was heard, and with a MAVLink output the
\* heartbeat, sensors or not (SendFdmIfNeeded, SendMavlinkHeartbeatIfNeeded).
PeriodicOutputFlows ==
    \/ []<><<SitlSends>>_vars
    \/ <>~Running
    \/ /\ SensorsRequired \subseteq received ~> fdmAge = 0
       /\ HasMavlinkOutput => []<>(heartbeatAge = 0)

\* docs/betaflight_gazebo_bridge_plan.md: "Set all motors to zero when the
\* plugin is destroyed": however the bridge ends, the rotors are at zero.
EveryEndLeavesZero == ~Running => rotor = ZeroMotors

\* docs/observability.md: "If motor packets stop, the bridge logs a timeout and
\* publishes zero motor velocity": once packets came and SITL is silent, the
\* rotors end up standing still, or the bridge ends.
SilentSitlStopsRotors ==
    \/ []~hasMotorPacket
    \/ []<><<SitlSends>>_vars
    \/ <>~Running
    \/ <>[](rotor = ZeroMotors)
=============================================================================
