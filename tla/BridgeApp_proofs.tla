-------------------------- MODULE BridgeApp_proofs --------------------------
(***************************************************************************)
(* Theorems about BridgeApp, for every value of its constants.             *)
(***************************************************************************)
EXTENDS BridgeApp, TLAPS

\* Putting a packet in Betaflight order gives a command.
LEMMA OrderType ==
    ASSUME NEW packetMotors \in Commands
    PROVE  SitlPacketToBetaflightMotorOrder(packetMotors) \in Commands
BY DEF SitlPacketToBetaflightMotorOrder, Commands, Motors

\* Applying the configured map gives a command.
LEMMA ApplyType ==
    ASSUME NEW command \in Commands
    PROVE  Apply(command) \in Commands
BY MotorMapAssumption DEF Apply, ValidMap, Commands

\* Clamping keeps a command between zero and full throttle.
LEMMA ClampBound ==
    ASSUME NEW c \in Int
    PROVE  Clamp(c) \in Nat /\ Clamp(c) <= FullScale
BY FullScaleAssumption DEF Clamp

\* A converted velocity lies between the configured bounds (Convert).
LEMMA ConvertBound ==
    ASSUME NEW c \in Int
    PROVE  /\ Convert(c) \in Nat
           /\ Convert(c) >= MinRotorVelocity * FullScale
           /\ Convert(c) <= MaxRotorVelocity * FullScale
<1> DEFINE k == Clamp(c)
           range == MaxRotorVelocity - MinRotorVelocity
<1>1. k \in Nat /\ k <= FullScale
  BY ClampBound
<1>2. /\ range \in Nat
      /\ MinRotorVelocity \in Nat /\ MaxRotorVelocity \in Nat /\ FullScale \in Nat
  BY VelocityAssumption, FullScaleAssumption DEF ValidRange
<1>3. PICK slack \in Nat : FullScale = k + slack
  <2>1. FullScale - k \in Nat /\ FullScale = k + (FullScale - k)
    BY <1>1, <1>2
  <2>. QED BY <2>1
<1> HIDE DEF k
<1>4. k * range \in Nat /\ slack * range \in Nat
  BY <1>1, <1>2, <1>3
<1>5. MinRotorVelocity * FullScale \in Nat
  BY <1>2
<1>6. MaxRotorVelocity * FullScale = MinRotorVelocity * FullScale + k * range + slack * range
  <2> HIDE DEF range
  <2>1. MaxRotorVelocity = MinRotorVelocity + range
    BY <1>2 DEF range
  <2>2. (k + slack) * range = k * range + slack * range
    BY <1>1, <1>2, <1>3
  <2>3. (MinRotorVelocity + range) * FullScale = MinRotorVelocity * FullScale + FullScale * range
    BY <1>2
  <2>. QED BY <2>1, <2>2, <2>3, <1>2, <1>3, <1>4, <1>5
<1>7. Convert(c) = MinRotorVelocity * FullScale + k * range
  BY DEF Convert, k
<1> HIDE DEF range
<1>. QED BY <1>4, <1>5, <1>6, <1>7

\* Every command gives every rotor a velocity between the bounds.
LEMMA RotorVelocitiesBound ==
    ASSUME NEW command \in Commands
    PROVE  /\ RotorVelocities(command) \in Velocities
           /\ \A r \in Motors :
                /\ RotorVelocities(command)[r] >= MinRotorVelocity * FullScale
                /\ RotorVelocities(command)[r] <= MaxRotorVelocity * FullScale
<1>1. Apply(command) \in Commands
  BY ApplyType
<1>. QED BY <1>1, ConvertBound DEF RotorVelocities, Velocities, Commands

\* The SITL packet order [M2, M3, M4, M1] puts packet motor i at this index.
LogicalIndex(i) == IF i = 3 THEN 0 ELSE i + 1

\* Four different motors of four are all of them: a map that Validate accepts
\* is a permutation.
LEMMA ValidMapIsOnto ==
    ASSUME NEW map, ValidMap(map), NEW m \in Motors
    PROVE  \E r \in Motors : map[r] = m
<1>1. /\ map[0] \in 0 .. 3 /\ map[1] \in 0 .. 3 /\ map[2] \in 0 .. 3 /\ map[3] \in 0 .. 3
      /\ map[0] # map[1] /\ map[0] # map[2] /\ map[0] # map[3]
      /\ map[1] # map[2] /\ map[1] # map[3] /\ map[2] # map[3]
  BY DEF ValidMap, Motors
<1>2. map[0] = m \/ map[1] = m \/ map[2] = m \/ map[3] = m
  BY <1>1 DEF Motors
<1>. QED BY <1>2 DEF Motors

\* Whatever a usable SITL packet holds, each of its motors turns one rotor, the
\* same for every packet, and no two motors turn the same one: the packet's
\* order and the configured map lose no command and give none twice
\* (SitlPacketToBetaflightMotorOrder, MotorMapper::Apply).
THEOREM EachMotorTurnsOneRotor ==
    \E rotorOf \in [Motors -> Motors] :
        /\ \A i, j \in Motors : rotorOf[i] = rotorOf[j] => i = j
        /\ \A packet \in Commands : \A i \in Motors :
              RotorVelocities(SitlPacketToBetaflightMotorOrder(packet))[rotorOf[i]]
                  = Convert(packet[i])
<1> DEFINE rotorOf == [i \in Motors |->
                          CHOOSE r \in Motors : MotorMap[r] = LogicalIndex(i)]
<1>1. ASSUME NEW i \in Motors
      PROVE  rotorOf[i] \in Motors /\ MotorMap[rotorOf[i]] = LogicalIndex(i)
  <2>1. LogicalIndex(i) \in Motors
    BY DEF LogicalIndex, Motors
  <2>2. \E r \in Motors : MotorMap[r] = LogicalIndex(i)
    BY <2>1, ValidMapIsOnto, MotorMapAssumption
  <2>. QED BY <2>2
<1>2. rotorOf \in [Motors -> Motors]
  BY <1>1, Zenon
<1> HIDE DEF rotorOf
<1>3. ASSUME NEW i \in Motors, NEW j \in Motors, rotorOf[i] = rotorOf[j]
      PROVE  i = j
  <2>1. LogicalIndex(i) = LogicalIndex(j)
    BY <1>1, <1>3
  <2>. QED BY <2>1 DEF LogicalIndex, Motors
<1>4. ASSUME NEW packet \in Commands, NEW i \in Motors
      PROVE  RotorVelocities(SitlPacketToBetaflightMotorOrder(packet))[rotorOf[i]]
                 = Convert(packet[i])
  <2>1. LogicalIndex(i) \in Motors
    BY DEF LogicalIndex, Motors
  <2>2. SitlPacketToBetaflightMotorOrder(packet)[LogicalIndex(i)] = packet[i]
    BY <2>1 DEF SitlPacketToBetaflightMotorOrder, LogicalIndex, Motors
  <2>. QED BY <2>2, <1>1 DEF RotorVelocities, Apply
<1>. QED BY <1>2, <1>3, <1>4

\* More throttle never turns a rotor more slowly (Convert).
THEOREM MoreThrottleIsNotSlower ==
    ASSUME NEW c \in Int, NEW d \in Int, c <= d
    PROVE  Convert(c) <= Convert(d)
<1> DEFINE range == MaxRotorVelocity - MinRotorVelocity
<1>1. range \in Nat /\ MinRotorVelocity * FullScale \in Int
  BY VelocityAssumption, FullScaleAssumption DEF ValidRange
<1>2. Clamp(c) \in Nat /\ Clamp(d) \in Nat /\ Clamp(c) <= Clamp(d)
  BY ClampBound, FullScaleAssumption DEF Clamp
<1>3. PICK more \in Nat : Clamp(d) = Clamp(c) + more
  <2>1. Clamp(d) - Clamp(c) \in Nat /\ Clamp(d) = Clamp(c) + (Clamp(d) - Clamp(c))
    BY <1>2
  <2>. QED BY <2>1
<1> HIDE DEF range
<1>4. Clamp(d) * range = Clamp(c) * range + more * range
  BY <1>1, <1>2, <1>3
<1>5. more * range \in Nat /\ Clamp(c) * range \in Nat
  BY <1>1, <1>2, <1>3
<1>. QED BY <1>1, <1>4, <1>5 DEF Convert, range

\* Four zeros are a command and a setting of the rotors.
LEMMA ZeroMotorsType == ZeroMotors \in Commands /\ ZeroMotors \in Velocities
BY DEF ZeroMotors, Velocities, Commands

\* The velocities of no command are those of four zero commands.
LEMMA IdleType == IdleVelocities \in Velocities
BY ZeroMotorsType, RotorVelocitiesBound DEF IdleVelocities

\* A usable datagram carries a command.
LEMMA ValidDatagram ==
    ASSUME NEW datagram \in Datagrams, Valid(datagram)
    PROVE  datagram.motors \in Commands
<1>1. /\ datagram.motors \in [Motors -> Int \cup {NotFinite}]
      /\ \A m \in Motors : datagram.motors[m] # NotFinite
  BY DatagramAssumption DEF Valid
<1>. QED BY <1>1 DEF Commands

\* What a publication sends is typed and within the bounds.
LEMMA PublishedType ==
    ASSUME TypeOK
    PROVE  LET published == RotorVelocities(IF CommandInForce THEN lastMotorCommand ELSE ZeroMotors)
           IN  /\ published \in Velocities
               /\ \A r \in Motors : /\ published[r] >= MinRotorVelocity * FullScale
                                    /\ published[r] <= MaxRotorVelocity * FullScale
<1>1. (IF CommandInForce THEN lastMotorCommand ELSE ZeroMotors) \in Commands
  BY ZeroMotorsType DEF TypeOK
<1>. QED BY <1>1, RotorVelocitiesBound

-----------------------------------------------------------------------------
(* Type correctness. *)

LEMMA InitTypeOK == Init => TypeOK
<1> SUFFICES ASSUME Init PROVE TypeOK
  OBVIOUS
<1>1. /\ stopRequested \in BOOLEAN
      /\ hasMotorPacket \in BOOLEAN
      /\ motorTimedOut \in BOOLEAN
  BY DEF Init
<1>2. /\ arrived \in Seq(Datagrams)
      /\ Len(arrived) <= RecvBuffer
      /\ motorAge \in 0 .. Timeout + 1
      /\ fdmAge \in 0 .. FdmPeriod
      /\ heartbeatAge \in 0 .. HeartbeatPeriod
  BY PeriodAssumption, RecvBufferAssumption DEF Init
<1>. QED BY <1>1, <1>2, ZeroMotorsType DEF Init, TypeOK

\* A clock reading stays within the limit its age is counted to.
LEMMA OlderType ==
    ASSUME NEW limit \in Nat, NEW age \in 0 .. limit
    PROVE  Older(age, limit) \in 0 .. limit
BY DEF Older

\* Every step keeps the types.
LEMMA TypeStep == TypeOK /\ [Next]_vars => TypeOK'
<1> SUFFICES ASSUME TypeOK, [Next]_vars PROVE TypeOK'
  OBVIOUS
<1> USE DEF TypeOK, process, motorState, socket, fdmState
<1>1. ASSUME NEW datagram \in Datagrams, SitlSend(datagram) PROVE TypeOK'
  <2>1. CASE Len(arrived) < RecvBuffer
    <3>1. arrived' \in Seq(Datagrams) /\ Len(arrived') <= RecvBuffer
      BY <1>1, <2>1, RecvBufferAssumption DEF SitlSend
    <3>2. newest' \in Commands
      BY <1>1, <2>1, ValidDatagram DEF SitlSend
    <3>. QED BY <1>1, <3>1, <3>2 DEF SitlSend
  <2>2. CASE ~(Len(arrived) < RecvBuffer)
    BY <1>1, <2>2 DEF SitlSend
  <2>. QED BY <2>1, <2>2
<1>2. ASSUME NEW sensor \in SensorsRequired, OnSensor(sensor) PROVE TypeOK'
  BY <1>2 DEF OnSensor
<1>3. ASSUME SignalHandler PROVE TypeOK'
  BY <1>3 DEF SignalHandler
<1>4. ASSUME Tick PROVE TypeOK'
  <2>1. /\ motorAge' \in 0 .. Timeout + 1
        /\ fdmAge' \in 0 .. FdmPeriod
        /\ heartbeatAge' \in 0 .. HeartbeatPeriod
    BY <1>4, OlderType, PeriodAssumption DEF Tick
  <2>. QED BY <1>4, <2>1 DEF Tick
<1>5. ASSUME BeginIteration PROVE TypeOK'
  BY <1>5 DEF BeginIteration, Goto
<1>6. ASSUME PublishZerosAndStop PROVE TypeOK'
  BY <1>6, ZeroMotorsType DEF PublishZerosAndStop, Goto
<1>7. ASSUME ReceiveDatagram PROVE TypeOK'
  <2>1. /\ Head(arrived) \in Datagrams
        /\ arrived' \in Seq(Datagrams)
        /\ Len(arrived') <= RecvBuffer
    BY <1>7, RecvBufferAssumption DEF ReceiveDatagram
  <2>2. CASE Valid(Head(arrived))
    <3>1. SitlPacketToBetaflightMotorOrder(Head(arrived).motors) \in Commands
      BY <2>1, <2>2, ValidDatagram, OrderType
    <3>2. AcceptCommand(Head(arrived).motors)
      BY <1>7, <2>2 DEF ReceiveDatagram
    <3>3. /\ hasMotorPacket' \in BOOLEAN
          /\ motorTimedOut' \in BOOLEAN
      BY <3>2 DEF AcceptCommand
    <3>4. /\ lastMotorCommand' \in Commands
          /\ motorAge' \in 0 .. Timeout + 1
      BY <3>1, <3>2, PeriodAssumption DEF AcceptCommand
    <3>. QED BY <1>7, <2>1, <3>3, <3>4 DEF ReceiveDatagram, Goto
  <2>3. CASE ~Valid(Head(arrived))
    BY <1>7, <2>1, <2>3 DEF ReceiveDatagram, Goto
  <2>. QED BY <2>2, <2>3
<1>8. ASSUME SocketEmpty PROVE TypeOK'
  BY <1>8 DEF SocketEmpty, Goto
<1>9. ASSUME PublishMotorCommand PROVE TypeOK'
  <2>1. rotor' \in Velocities
    BY <1>9, PublishedType DEF PublishMotorCommand
  <2>. QED BY <1>9, <2>1 DEF PublishMotorCommand, Goto
<1>10. ASSUME SendFdm PROVE TypeOK'
  <2>1. Build(received) \in FdmPackets
    BY DEF Build, FdmPackets
  <2>. QED BY <1>10, <2>1, PeriodAssumption DEF SendFdm, Goto
<1>11. ASSUME UpdateRangefinders \/ UpdateOdometry PROVE TypeOK'
  BY <1>11 DEF UpdateRangefinders, UpdateOdometry, Goto
<1>12. ASSUME SendMavlinkHeartbeat PROVE TypeOK'
  BY <1>12, PeriodAssumption DEF SendMavlinkHeartbeat, Goto
<1>13. ASSUME Failure PROVE TypeOK'
  BY <1>13 DEF Failure, ReceiveThrows, SendFdmThrows, UpdateThrows, HeartbeatThrows, Throw, Goto
<1>14. CASE UNCHANGED vars
  BY <1>14 DEF vars
<1>. QED
  BY <1>1, <1>2, <1>3, <1>4, <1>5, <1>6, <1>7, <1>8, <1>9, <1>10, <1>11, <1>12, <1>13, <1>14
  DEF Next, MainThread

\* Every variable of the bridge keeps its type, whatever arrives and fails.
THEOREM TypeCorrect == Spec => []TypeOK
<1>. QED BY InitTypeOK, TypeStep, PTL DEF Spec

-----------------------------------------------------------------------------
(* The inductive invariant. *)

LEMMA InitInvariant == Init => InductiveInvariant
<1> SUFFICES ASSUME Init PROVE InductiveInvariant
  OBVIOUS
<1>1. TypeOK
  BY InitTypeOK
<1>2. /\ TimeoutLatchTruthful
      /\ BeforeFirstPacket
      /\ PublishedLastCommand
      /\ RotorWithinRange
      /\ OrderlyStopLeavesZero
      /\ FdmSourcesAsConfigured
  BY DEF Init, TimeoutLatchTruthful, BeforeFirstPacket, PublishedLastCommand,
         RotorWithinRange, OrderlyStopLeavesZero, FdmSourcesAsConfigured
<1>3. NewestIsLastUsable
  BY DEF Init, NewestIsLastUsable
<1>4. NewestIsLastCommand
  <2>1. SitlPacketToBetaflightMotorOrder(ZeroMotors) = ZeroMotors
    BY DEF SitlPacketToBetaflightMotorOrder, ZeroMotors, Motors
  <2>. QED BY <2>1 DEF Init, NewestIsLastCommand
<1>. QED BY <1>1, <1>2, <1>3, <1>4 DEF InductiveInvariant

\* A step that touches neither the socket nor the motor state, the rotors or
\* the FDM packet, and does not arrive at the states the invariant speaks of,
\* preserves it.
LEMMA FrameStep ==
    ASSUME InductiveInvariant, TypeOK',
           UNCHANGED <<arrived, newest, hasMotorPacket, lastMotorCommand, motorAge,
                       motorTimedOut, rotor, fdm>>,
           pc' = pc \/ pc' \notin {"fdm", "stopped"}
    PROVE  InductiveInvariant'
<1> USE DEF InductiveInvariant
<1>1. TimeoutLatchTruthful' /\ BeforeFirstPacket' /\ RotorWithinRange' /\ FdmSourcesAsConfigured'
  BY DEF TimeoutLatchTruthful, BeforeFirstPacket, RotorWithinRange, FdmSourcesAsConfigured
<1>2. NewestIsLastUsable' /\ NewestIsLastCommand'
  BY DEF NewestIsLastUsable, NewestIsLastCommand, NoneUsable
<1>3. PublishedLastCommand' /\ OrderlyStopLeavesZero'
  BY DEF PublishedLastCommand, OrderlyStopLeavesZero
<1>. QED BY <1>1, <1>2, <1>3

\* The receive buffer after a datagram arrived.
LEMMA SitlSendStep ==
    ASSUME InductiveInvariant, TypeOK', NEW datagram \in Datagrams, SitlSend(datagram)
    PROVE  InductiveInvariant'
<1> USE DEF InductiveInvariant
<1>1. CASE ~(Len(arrived) < RecvBuffer)
  BY <1>1, FrameStep DEF SitlSend, socket, process, motorState, fdmState
<1>2. CASE Len(arrived) < RecvBuffer
  <2>1. /\ arrived' = Append(arrived, datagram)
        /\ newest' = IF Valid(datagram) THEN datagram.motors ELSE newest
        /\ UNCHANGED <<pc, hasMotorPacket, lastMotorCommand, motorAge, motorTimedOut,
                       rotor, fdm>>
    BY <1>2 DEF SitlSend, process, motorState, fdmState
  <2>2. /\ Len(arrived) \in Nat
        /\ Len(arrived') = Len(arrived) + 1
        /\ \A i \in 1 .. Len(arrived) : arrived'[i] = arrived[i]
        /\ arrived'[Len(arrived) + 1] = datagram
    BY <2>1 DEF TypeOK
  <2>3. TimeoutLatchTruthful' /\ BeforeFirstPacket' /\ RotorWithinRange'
        /\ FdmSourcesAsConfigured' /\ PublishedLastCommand' /\ OrderlyStopLeavesZero'
    BY <2>1 DEF TimeoutLatchTruthful, BeforeFirstPacket, RotorWithinRange,
         FdmSourcesAsConfigured, PublishedLastCommand, OrderlyStopLeavesZero
  <2>4. NewestIsLastUsable'
    <3> SUFFICES ASSUME NEW i \in 1 .. Len(arrived'),
                        Valid(arrived'[i]),
                        \A j \in i + 1 .. Len(arrived') : ~Valid(arrived'[j])
                 PROVE  arrived'[i].motors = newest'
      BY DEF NewestIsLastUsable, Valid
    <3>1. CASE i = Len(arrived) + 1
      BY <3>1, <2>1, <2>2
    <3>2. CASE i \in 1 .. Len(arrived)
      <4>1. ~Valid(datagram)
        BY <3>2, <2>2
      <4>2. \A j \in i + 1 .. Len(arrived) : ~Valid(arrived[j])
        BY <3>2, <2>2
      <4>3. Valid(arrived[i])
        BY <3>2, <2>2
      <4>. QED BY <3>2, <4>1, <4>2, <4>3, <2>1, <2>2 DEF NewestIsLastUsable
    <3>. QED BY <3>1, <3>2, <2>2
  <2>5. NewestIsLastCommand'
    <3> SUFFICES ASSUME NoneUsable(arrived')
                 PROVE  lastMotorCommand' = SitlPacketToBetaflightMotorOrder(newest')
      BY DEF NewestIsLastCommand
    <3>1. ~Valid(datagram)
      BY <2>2 DEF NoneUsable
    <3>2. NoneUsable(arrived)
      BY <2>2 DEF NoneUsable
    <3>. QED BY <2>1, <3>1, <3>2 DEF NewestIsLastCommand
  <2>. QED BY <2>3, <2>4, <2>5
<1>. QED BY <1>1, <1>2

\* The command after a datagram was taken from the receive buffer.
LEMMA ReceiveDatagramStep ==
    ASSUME InductiveInvariant, TypeOK', ReceiveDatagram
    PROVE  InductiveInvariant'
<1> USE DEF InductiveInvariant
<1>1. /\ arrived # << >>
      /\ arrived' = Tail(arrived)
      /\ pc' = "receive"
      /\ UNCHANGED <<newest, rotor, fdm>>
  BY DEF ReceiveDatagram, Goto, fdmState
<1>2. /\ Len(arrived) \in Nat
      /\ Len(arrived) >= 1
      /\ Len(arrived') = Len(arrived) - 1
      /\ \A i \in 1 .. Len(arrived') : arrived'[i] = arrived[i + 1]
      /\ Head(arrived) = arrived[1]
  BY <1>1 DEF TypeOK
<1>3. RotorWithinRange' /\ FdmSourcesAsConfigured'
      /\ PublishedLastCommand' /\ OrderlyStopLeavesZero'
  BY <1>1 DEF RotorWithinRange, FdmSourcesAsConfigured, PublishedLastCommand,
              OrderlyStopLeavesZero
<1>4. NewestIsLastUsable'
  <2> SUFFICES ASSUME NEW i \in 1 .. Len(arrived'),
                      Valid(arrived'[i]),
                      \A j \in i + 1 .. Len(arrived') : ~Valid(arrived'[j])
               PROVE  arrived'[i].motors = newest'
    BY DEF NewestIsLastUsable, Valid
  <2>1. \A j \in i + 2 .. Len(arrived) : ~Valid(arrived[j])
    <3> SUFFICES ASSUME NEW j \in i + 2 .. Len(arrived) PROVE ~Valid(arrived[j])
      OBVIOUS
    <3>1. j - 1 \in i + 1 .. Len(arrived') /\ arrived'[j - 1] = arrived[j]
      BY <1>2
    <3>. QED BY <3>1
  <2>2. i + 1 \in 1 .. Len(arrived) /\ arrived'[i] = arrived[i + 1] /\ (i + 1) + 1 = i + 2
    BY <1>2
  <2>. QED BY <2>1, <2>2, <1>1 DEF NewestIsLastUsable
<1>5. NoneUsable(arrived') => \A j \in 2 .. Len(arrived) : ~Valid(arrived[j])
  <2> SUFFICES ASSUME NoneUsable(arrived'), NEW j \in 2 .. Len(arrived)
               PROVE  ~Valid(arrived[j])
    OBVIOUS
  <2>1. j - 1 \in 1 .. Len(arrived') /\ arrived'[j - 1] = arrived[j]
    BY <1>2
  <2>. QED BY <2>1 DEF NoneUsable
<1>6. CASE Valid(Head(arrived))
  <2>1. AcceptCommand(Head(arrived).motors)
    BY <1>6 DEF ReceiveDatagram
  <2>2. TimeoutLatchTruthful' /\ BeforeFirstPacket'
    BY <2>1 DEF AcceptCommand, TimeoutLatchTruthful, BeforeFirstPacket
  <2>3. NewestIsLastCommand'
    <3>1. NoneUsable(arrived') => arrived[1].motors = newest
      BY <1>2, <1>5, <1>6 DEF NewestIsLastUsable
    <3>. QED BY <3>1, <2>1, <1>1, <1>2 DEF AcceptCommand, NewestIsLastCommand
  <2>. QED BY <1>3, <1>4, <2>2, <2>3
<1>7. CASE ~Valid(Head(arrived))
  <2>1. UNCHANGED <<hasMotorPacket, lastMotorCommand, motorAge, motorTimedOut>>
    BY <1>7 DEF ReceiveDatagram, motorState
  <2>2. TimeoutLatchTruthful' /\ BeforeFirstPacket'
    BY <2>1 DEF TimeoutLatchTruthful, BeforeFirstPacket
  <2>3. NoneUsable(arrived') => NoneUsable(arrived)
    BY <1>2, <1>5, <1>7 DEF NoneUsable
  <2>4. NewestIsLastCommand'
    BY <2>1, <2>3, <1>1 DEF NewestIsLastCommand
  <2>. QED BY <1>3, <1>4, <2>2, <2>4
<1>. QED BY <1>6, <1>7

\* The rotors after a publication.
LEMMA PublishStep ==
    ASSUME InductiveInvariant, TypeOK', PublishMotorCommand
    PROVE  InductiveInvariant'
<1> USE DEF InductiveInvariant
<1>1. /\ pc' = "fdm"
      /\ rotor' = RotorVelocities(IF CommandInForce THEN lastMotorCommand ELSE ZeroMotors)
      /\ motorTimedOut' = (motorTimedOut \/ (hasMotorPacket /\ ~CommandInForce))
      /\ UNCHANGED <<arrived, newest, hasMotorPacket, lastMotorCommand, motorAge, fdm>>
  BY DEF PublishMotorCommand, Goto, socket, fdmState
<1>2. TimeoutLatchTruthful'
  <2>1. motorTimedOut' => hasMotorPacket /\ ~(motorAge <= Timeout)
    BY <1>1, PeriodAssumption DEF TypeOK, TimeoutLatchTruthful, CommandInForce
  <2>. QED BY <1>1, <2>1, PeriodAssumption DEF TimeoutLatchTruthful, TypeOK
<1>3. BeforeFirstPacket' /\ FdmSourcesAsConfigured' /\ OrderlyStopLeavesZero'
  BY <1>1 DEF BeforeFirstPacket, FdmSourcesAsConfigured, OrderlyStopLeavesZero
<1>4. NewestIsLastUsable' /\ NewestIsLastCommand'
  BY <1>1 DEF NewestIsLastUsable, NewestIsLastCommand, NoneUsable
<1>5. PublishedLastCommand'
  BY <1>1 DEF PublishedLastCommand, IdleVelocities
<1>6. RotorWithinRange'
  BY <1>1, PublishedType DEF RotorWithinRange
<1>. QED BY <1>2, <1>3, <1>4, <1>5, <1>6

\* The FDM packet after SendFdm: only sensors that are subscribed are heard.
LEMMA SendFdmStep ==
    ASSUME InductiveInvariant, TypeOK', SendFdm
    PROVE  InductiveInvariant'
<1> USE DEF InductiveInvariant
<1>1. /\ pc' = "rangefinders"
      /\ UNCHANGED <<arrived, newest, hasMotorPacket, lastMotorCommand, motorAge,
                     motorTimedOut, rotor>>
  BY DEF SendFdm, Goto, socket, motorState
<1>2. CASE ~FdmDue
  BY <1>1, <1>2, FrameStep DEF SendFdm, fdmState
<1>3. CASE FdmDue
  <2>1. fdm' = Build(received) /\ SnapshotReady
    BY <1>3 DEF SendFdm, FdmDue
  <2>2. "navsat" \in received <=> NavSatRequired
    BY <2>1 DEF SnapshotReady, TypeOK, SensorsRequired
  <2>3. FdmSourcesAsConfigured'
    BY <2>1, <2>2, AltitudeSourceAssumption DEF Build, FdmSourcesAsConfigured
  <2>4. TimeoutLatchTruthful' /\ BeforeFirstPacket' /\ RotorWithinRange'
        /\ PublishedLastCommand' /\ OrderlyStopLeavesZero'
    BY <1>1 DEF TimeoutLatchTruthful, BeforeFirstPacket, RotorWithinRange,
                PublishedLastCommand, OrderlyStopLeavesZero
  <2>5. NewestIsLastUsable' /\ NewestIsLastCommand'
    BY <1>1 DEF NewestIsLastUsable, NewestIsLastCommand, NoneUsable
  <2>. QED BY <2>3, <2>4, <2>5
<1>. QED BY <1>2, <1>3

\* Time passes: an expired command stays expired.
LEMMA TickStep ==
    ASSUME InductiveInvariant, TypeOK', Tick
    PROVE  InductiveInvariant'
<1> USE DEF InductiveInvariant
<1>1. /\ motorAge' = Older(motorAge, Timeout + 1)
      /\ UNCHANGED <<pc, arrived, newest, hasMotorPacket, lastMotorCommand,
                     motorTimedOut, rotor, fdm>>
  BY DEF Tick, process, socket
<1>2. TimeoutLatchTruthful' /\ BeforeFirstPacket'
  BY <1>1, PeriodAssumption DEF Older, TypeOK, TimeoutLatchTruthful, BeforeFirstPacket
<1>3. RotorWithinRange' /\ FdmSourcesAsConfigured'
      /\ PublishedLastCommand' /\ OrderlyStopLeavesZero'
  BY <1>1 DEF RotorWithinRange, FdmSourcesAsConfigured, PublishedLastCommand,
              OrderlyStopLeavesZero
<1>4. NewestIsLastUsable' /\ NewestIsLastCommand'
  BY <1>1 DEF NewestIsLastUsable, NewestIsLastCommand, NoneUsable
<1>. QED BY <1>2, <1>3, <1>4

\* The loop ends.
LEMMA StopStep ==
    ASSUME InductiveInvariant, TypeOK', PublishZerosAndStop
    PROVE  InductiveInvariant'
<1> USE DEF InductiveInvariant
<1>1. /\ pc' = "stopped"
      /\ rotor' = ZeroMotors
      /\ UNCHANGED <<arrived, newest, hasMotorPacket, lastMotorCommand, motorAge,
                     motorTimedOut, fdm>>
  BY DEF PublishZerosAndStop, Goto, socket, motorState, fdmState
<1>2. TimeoutLatchTruthful' /\ BeforeFirstPacket' /\ RotorWithinRange'
      /\ FdmSourcesAsConfigured' /\ PublishedLastCommand' /\ OrderlyStopLeavesZero'
  BY <1>1 DEF TimeoutLatchTruthful, BeforeFirstPacket, RotorWithinRange,
              FdmSourcesAsConfigured, PublishedLastCommand, OrderlyStopLeavesZero
<1>3. NewestIsLastUsable' /\ NewestIsLastCommand'
  BY <1>1 DEF NewestIsLastUsable, NewestIsLastCommand, NoneUsable
<1>. QED BY <1>2, <1>3

\* Every step keeps the invariant.
LEMMA InvariantStep == InductiveInvariant /\ [Next]_vars => InductiveInvariant'
<1> SUFFICES ASSUME InductiveInvariant, [Next]_vars PROVE InductiveInvariant'
  OBVIOUS
<1>1. TypeOK'
  BY TypeStep DEF InductiveInvariant
<1> USE DEF process, socket, motorState, fdmState
<1>2. ASSUME NEW datagram \in Datagrams, SitlSend(datagram) PROVE InductiveInvariant'
  BY <1>1, <1>2, SitlSendStep
<1>3. ASSUME NEW sensor \in SensorsRequired, OnSensor(sensor) PROVE InductiveInvariant'
  BY <1>1, <1>3, FrameStep DEF OnSensor
<1>4. CASE SignalHandler
  BY <1>1, <1>4, FrameStep DEF SignalHandler
<1>5. CASE Tick
  BY <1>1, <1>5, TickStep
<1>6. CASE BeginIteration \/ SocketEmpty \/ UpdateRangefinders \/ UpdateOdometry
           \/ SendMavlinkHeartbeat
  BY <1>1, <1>6, FrameStep
  DEF BeginIteration, SocketEmpty, UpdateRangefinders, UpdateOdometry,
      SendMavlinkHeartbeat, Goto
<1>7. CASE PublishZerosAndStop
  BY <1>1, <1>7, StopStep
<1>8. CASE ReceiveDatagram
  BY <1>1, <1>8, ReceiveDatagramStep
<1>9. CASE PublishMotorCommand
  BY <1>1, <1>9, PublishStep
<1>10. CASE SendFdm
  BY <1>1, <1>10, SendFdmStep
<1>11. CASE Failure
  BY <1>1, <1>11, FrameStep
  DEF Failure, ReceiveThrows, SendFdmThrows, UpdateThrows, HeartbeatThrows, Throw, Goto
<1>12. CASE UNCHANGED vars
  BY <1>1, <1>12, FrameStep DEF vars
<1>. QED
  BY <1>2, <1>3, <1>4, <1>5, <1>6, <1>7, <1>8, <1>9, <1>10, <1>11, <1>12
  DEF Next, MainThread

\* The motor path, the timeout latch, the FDM sources and the queue stay in the
\* relations that InductiveInvariant states, through every step of the bridge.
THEOREM InvariantHolds == Spec => []InductiveInvariant
<1>. QED BY InitInvariant, InvariantStep, PTL DEF Spec

-----------------------------------------------------------------------------
(* The safety properties. *)

\* The timeout latch is set only while a received command has expired.
THEOREM LatchTruthful == Spec => []TimeoutLatchTruthful
<1>1. InductiveInvariant => TimeoutLatchTruthful
  BY DEF InductiveInvariant
<1>. QED BY <1>1, InvariantHolds, PTL

\* Gazebo is only ever told zeros or velocities between the configured bounds.
THEOREM RotorsWithinRange == Spec => []RotorWithinRange
<1>1. InductiveInvariant => RotorWithinRange
  BY DEF InductiveInvariant
<1>. QED BY <1>1, InvariantHolds, PTL

\* After an orderly stop the rotors are at zero.
THEOREM OrderlyStop == Spec => []OrderlyStopLeavesZero
<1>1. InductiveInvariant => OrderlyStopLeavesZero
  BY DEF InductiveInvariant
<1>. QED BY <1>1, InvariantHolds, PTL

\* FDM packets always use the configured sources.
THEOREM FdmSources == Spec => []FdmSourcesAsConfigured
<1>1. InductiveInvariant => FdmSourcesAsConfigured
  BY DEF InductiveInvariant
<1>. QED BY <1>1, InvariantHolds, PTL

\* After a publication with no usable packet waiting, rotors that are not idle
\* follow the newest usable packet that got into the receive buffer.
THEOREM NewestDrives == Spec => []NewestCommandDrives
<1>1. InductiveInvariant => NewestCommandDrives
  BY DEF InductiveInvariant, NewestCommandDrives, NewestIsLastCommand, PublishedLastCommand
<1>. QED BY <1>1, InvariantHolds, PTL

-----------------------------------------------------------------------------
(* The refinement. *)

LEMMA RefineInit == Init => Failsafe!Init
BY DEF Init, Failsafe!Init, Running, IdleVelocities

\* Steps that keep what the failsafe sees are stutters.
LEMMA RefineStutter ==
    ASSUME Running <=> Running', ~Running => pc' = pc,
           UNCHANGED <<lastMotorCommand, motorAge, rotor>>
    PROVE  UNCHANGED Failsafe!vars
<1>1. (IF Running THEN "driving" ELSE pc) = (IF Running' THEN "driving" ELSE pc')
  OBVIOUS
<1>2. RotorVelocities(lastMotorCommand)' = RotorVelocities(lastMotorCommand)
  BY DEF RotorVelocities, Apply, Convert, Clamp
<1>. QED BY <1>1, <1>2 DEF Failsafe!vars

\* Reading a datagram is a new setpoint, or nothing to the failsafe.
LEMMA RefineReceive ==
    ASSUME TypeOK, ReceiveDatagram
    PROVE  [Failsafe!Next]_Failsafe!vars
<1>1. /\ pc = "receive"
      /\ pc' = "receive"
      /\ UNCHANGED rotor
      /\ Head(arrived) \in Datagrams
  BY DEF ReceiveDatagram, Goto, TypeOK
<1>2. Running /\ Running'
  BY <1>1 DEF Running
<1>3. CASE Valid(Head(arrived))
  <2> DEFINE command == SitlPacketToBetaflightMotorOrder(Head(arrived).motors)
  <2>1. lastMotorCommand' = command /\ motorAge' = 0
    BY <1>3 DEF ReceiveDatagram, AcceptCommand
  <2>2. RotorVelocities(command) \in Setpoints
    BY <1>1, <1>3 DEF Setpoints
  <2>3. RotorVelocities(lastMotorCommand)' = RotorVelocities(command)
    BY <2>1 DEF RotorVelocities, Apply, Convert, Clamp
  <2>4. Failsafe!TakeOver(RotorVelocities(command))
    BY <1>1, <1>2, <2>1, <2>3 DEF Failsafe!TakeOver
  <2>. QED BY <2>2, <2>4 DEF Failsafe!Next
<1>4. CASE ~Valid(Head(arrived))
  <2>1. UNCHANGED <<lastMotorCommand, motorAge>>
    BY <1>4 DEF ReceiveDatagram, motorState
  <2>. QED BY <1>1, <1>2, <2>1, RefineStutter
<1>. QED BY <1>3, <1>4

\* A tick brings the setpoint nearer to its end.
LEMMA RefineTick ==
    ASSUME TypeOK, Tick
    PROVE  [Failsafe!Next]_Failsafe!vars
<1>1. /\ motorAge' = Older(motorAge, Timeout + 1)
      /\ UNCHANGED <<pc, lastMotorCommand, rotor>>
      /\ Running
  BY DEF Tick, process
<1>2. Running'
  BY <1>1 DEF Running
<1>3. CASE motorAge <= Timeout
  <2>1. motorAge' = motorAge + 1
    BY <1>1, <1>3, PeriodAssumption DEF Older, TypeOK
  <2>2. RotorVelocities(lastMotorCommand)' = RotorVelocities(lastMotorCommand)
    BY <1>1 DEF RotorVelocities, Apply, Convert, Clamp
  <2>. QED BY <1>1, <1>2, <1>3, <2>1, <2>2 DEF Failsafe!Tick, Failsafe!Next
<1>4. CASE ~(motorAge <= Timeout)
  <2>1. motorAge' = motorAge
    BY <1>1, <1>4, PeriodAssumption DEF Older, TypeOK
  <2>. QED BY <1>1, <1>2, <2>1, RefineStutter
<1>. QED BY <1>3, <1>4

\* A publication drives the rotors by the setpoint that holds.
LEMMA RefinePublish ==
    ASSUME InductiveInvariant, PublishMotorCommand
    PROVE  Failsafe!Drive
<1>1. /\ pc = "publish"
      /\ pc' = "fdm"
      /\ rotor' = RotorVelocities(IF CommandInForce THEN lastMotorCommand ELSE ZeroMotors)
      /\ UNCHANGED <<lastMotorCommand, motorAge>>
  BY DEF PublishMotorCommand, Goto
<1>2. Running /\ Running'
  BY <1>1 DEF Running
<1>3. CommandInForce <=> motorAge <= Timeout
  BY PeriodAssumption DEF CommandInForce, InductiveInvariant, BeforeFirstPacket, TypeOK
<1>4. rotor' = IF motorAge <= Timeout THEN RotorVelocities(lastMotorCommand) ELSE IdleVelocities
  BY <1>1, <1>3 DEF IdleVelocities
<1>5. RotorVelocities(lastMotorCommand)' = RotorVelocities(lastMotorCommand)
  BY <1>1 DEF RotorVelocities, Apply, Convert, Clamp
<1>. QED BY <1>1, <1>2, <1>4, <1>5 DEF Failsafe!Drive, Failsafe!Holds

\* The zeros after the loop are an orderly stop.
LEMMA RefineStop ==
    ASSUME PublishZerosAndStop
    PROVE  Failsafe!Stop
<1>1. /\ pc = "loop"
      /\ pc' = "stopped"
      /\ rotor' = ZeroMotors
      /\ UNCHANGED <<lastMotorCommand, motorAge>>
  BY DEF PublishZerosAndStop, Goto, motorState
<1>2. Running /\ ~Running'
  BY <1>1 DEF Running
<1>3. RotorVelocities(lastMotorCommand)' = RotorVelocities(lastMotorCommand)
  BY <1>1 DEF RotorVelocities, Apply, Convert, Clamp
<1>. QED BY <1>1, <1>2, <1>3 DEF Failsafe!Stop

\* An exception out of the loop leaves the rotors as they are.
LEMMA RefineFail ==
    ASSUME Failure
    PROVE  Failsafe!Fail
<1>1. /\ pc \in {"receive", "fdm", "rangefinders", "odometry", "heartbeat"}
      /\ pc' = "failed"
      /\ UNCHANGED <<rotor, lastMotorCommand, motorAge>>
  BY DEF Failure, ReceiveThrows, SendFdmThrows, UpdateThrows, HeartbeatThrows,
         Throw, Goto, motorState
<1>2. Running /\ ~Running'
  BY <1>1 DEF Running
<1>3. RotorVelocities(lastMotorCommand)' = RotorVelocities(lastMotorCommand)
  BY <1>1 DEF RotorVelocities, Apply, Convert, Clamp
<1>. QED BY <1>1, <1>2, <1>3 DEF Failsafe!Fail

\* Every step of the bridge is a step of the failsafe or none.
LEMMA RefineStep ==
    InductiveInvariant /\ [Next]_vars => [Failsafe!Next]_Failsafe!vars
<1> SUFFICES ASSUME InductiveInvariant, [Next]_vars
             PROVE  [Failsafe!Next]_Failsafe!vars
  OBVIOUS
<1>1. TypeOK
  BY DEF InductiveInvariant
<1> USE DEF process, motorState, Running
<1>2. ASSUME NEW datagram \in Datagrams, SitlSend(datagram)
      PROVE  UNCHANGED Failsafe!vars
  BY <1>2, RefineStutter DEF SitlSend
<1>3. ASSUME NEW sensor \in SensorsRequired, OnSensor(sensor)
      PROVE  UNCHANGED Failsafe!vars
  BY <1>3, RefineStutter DEF OnSensor
<1>4. CASE SignalHandler
  BY <1>4, RefineStutter DEF SignalHandler
<1>5. CASE Tick
  BY <1>1, <1>5, RefineTick
<1>6. CASE BeginIteration \/ SocketEmpty \/ UpdateRangefinders \/ UpdateOdometry
           \/ SendMavlinkHeartbeat \/ SendFdm
  BY <1>6, RefineStutter
  DEF BeginIteration, SocketEmpty, UpdateRangefinders, UpdateOdometry,
      SendMavlinkHeartbeat, SendFdm, Goto
<1>7. CASE PublishZerosAndStop
  BY <1>7, RefineStop DEF Failsafe!Next
<1>8. CASE ReceiveDatagram
  BY <1>1, <1>8, RefineReceive
<1>9. CASE PublishMotorCommand
  BY <1>9, RefinePublish DEF Failsafe!Next
<1>10. CASE Failure
  BY <1>10, RefineFail DEF Failsafe!Next
<1>11. CASE UNCHANGED vars
  BY <1>11, RefineStutter DEF vars
<1>. QED
  BY <1>2, <1>3, <1>4, <1>5, <1>6, <1>7, <1>8, <1>9, <1>10, <1>11 DEF Next, MainThread

\* The bridge implements the motor failsafe: whatever the socket, the loop and
\* the timeout latch do, Gazebo sees setpoints that hold for Timeout ticks.
THEOREM BridgeImplementsFailsafe == Spec => ImplementsFailsafe
<1>. QED BY RefineInit, InvariantHolds, RefineStep, PTL
         DEF Spec, ImplementsFailsafe, Failsafe!Spec
=============================================================================
