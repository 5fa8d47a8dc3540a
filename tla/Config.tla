------------------------------- MODULE Config -------------------------------
(***************************************************************************)
(* ConfigLoader: which YAML files the bridge accepts, and the BridgeConfig *)
(* it makes of them.                                                       *)
(*                                                                         *)
(* A file is a function from the keys it gives (of all sections, under the *)
(* names of the BridgeConfig fields) to their values.  A value that YAML   *)
(* cannot convert to the type of its field is Malformed.  A double is an   *)
(* integer or NotANumber, a time is in tenths of a second.  The logging    *)
(* section, which nothing depends on, is left out.  Below zero is at most  *)
(* -1 for these numbers.                                                   *)
(***************************************************************************)
EXTENDS Integers, Sequences, TLC

CONSTANTS
    Ipv4,           \* the texts that inet_pton(AF_INET) accepts
    NotANumber,
    Malformed,
    Absent          \* std::nullopt

Defaults ==
    [sitlAddress |-> "127.0.0.1", motorPort |-> 9002, fdmPort |-> 9003, rcPort |-> 9004,
     imuTopic |-> "/imu", altimeterTopic |-> "/altimeter", navsatTopic |-> Absent,
     actuatorTopic |-> "/X3/gazebo/command/motor_speed",
     rateHz |-> 500, frameMode |-> "gazebo_bridge", pressureMode |-> "from_altitude",
     altitudeSource |-> "altimeter", seaLevelPressurePa |-> 101325,
     motorMap |-> <<0, 1, 2, 3>>, minRotorVelocity |-> 0, maxRotorVelocity |-> 800,
     timeout |-> 1, publishZeroOnTimeout |-> TRUE,
     mavlinkAddress |-> "127.0.0.1", mavlinkPort |-> 14550, systemId |-> 1, componentId |-> 158,
     odometryEnabled |-> FALSE, odometryTopic |-> "/model/X3/odometry",
     rangefinders |-> << >>]

RangefinderDefaults ==
    [enabled |-> TRUE, name |-> "", gazeboTopic |-> "", output |-> "", sitlAddress |-> "",
     sitlPort |-> 0, mavlinkMessage |-> "", orientation |-> "", sensorId |-> Absent]

\* ReadScalar and ReadPort: a key the file gives replaces the default.
Loaded(file) ==
    LET config == file @@ Defaults
    IN  [config EXCEPT !.rangefinders = [i \in DOMAIN @ |-> @[i] @@ RangefinderDefaults]]

-----------------------------------------------------------------------------
(* What ConfigLoader::Load refuses while it reads. *)

Given(map, keys) == {map[k] : k \in keys \cap DOMAIN map}

WellTyped(map) == \A k \in DOMAIN map : map[k] # Malformed

PortsInRange(map) ==
    Given(map, {"motorPort", "fdmPort", "rcPort", "mavlinkPort", "sitlPort"}) \subseteq 1 .. 65535

Loads(file) ==
    /\ WellTyped(file)
    /\ PortsInRange(file)
    /\ \A map \in Given(file, {"motorMap"}) : Len(map) = 4
    /\ Given(file, {"systemId", "componentId"}) \subseteq 1 .. 255
    /\ \A entries \in Given(file, {"rangefinders"}) : \A i \in DOMAIN entries :
          /\ WellTyped(entries[i])
          /\ PortsInRange(entries[i])
          /\ Given(entries[i], {"sensorId"}) \subseteq 0 .. 255

-----------------------------------------------------------------------------
(* ConfigLoader::Validate. *)

\* <= of doubles, which no comparison with a NaN satisfies.
AtMost(x, y) == x # NotANumber /\ y # NotANumber /\ x <= y

ValidTopics(config) ==
    /\ "" \notin {config.imuTopic, config.altimeterTopic, config.actuatorTopic, config.navsatTopic}
    /\ config.odometryEnabled => config.odometryTopic # ""

ValidFdm(config) ==
    /\ ~AtMost(config.rateHz, 0)
    /\ config.frameMode \in {"gazebo_bridge", "passthrough"}
    /\ ~AtMost(config.seaLevelPressurePa, 0)
    /\ config.pressureMode \in {"from_altitude", "zero"}
    /\ \/ config.altitudeSource = "altimeter"
       \/ config.altitudeSource = "gps" /\ config.navsatTopic # Absent

\* Mutant: only the order of the two velocities is looked at.
ValidVelocities_OrderOnly(config) == ~AtMost(config.maxRotorVelocity, config.minRotorVelocity)

ValidVelocities(config) ==
    /\ ~AtMost(config.minRotorVelocity, -1)
    /\ ~AtMost(config.maxRotorVelocity, config.minRotorVelocity)

ValidMotors(config) ==
    /\ ~AtMost(config.timeout, 0)
    /\ ValidVelocities(config)
    /\ \A i, j \in 1 .. 4 :
          /\ config.motorMap[i] \in 0 .. 3
          /\ config.motorMap[i] = config.motorMap[j] => i = j

IsTfmini(entry) == entry.output = "tfmini"
IsDistance(entry) == entry.output = "mavlink" /\ entry.mavlinkMessage = "distance_sensor"
IsObstacle(entry) == entry.output = "mavlink" /\ entry.mavlinkMessage = "obstacle_distance"

\* No two of the entries that `Has` picks have the same key.
Unique(entries, Has(_), Key(_)) ==
    \A i, j \in DOMAIN entries :
        Has(entries[i]) /\ Has(entries[j]) /\ Key(entries[i]) = Key(entries[j]) => i = j

\* Endpoints are compared as they are spelled, not by the host they reach.
DistinctEndpoints(entries) ==
    Unique(entries, IsTfmini, LAMBDA entry : <<entry.sitlAddress, entry.sitlPort>>)

\* Entries that are not enabled have to be valid too.
ValidRangefinders(entries) ==
    /\ \A i \in DOMAIN entries :
          LET entry == entries[i]
          IN  /\ entry.name # "" /\ entry.gazeboTopic # ""
              /\ \/ IsTfmini(entry) /\ entry.sitlAddress # "" /\ entry.sitlPort # 0
                 \/ IsDistance(entry) /\ entry.orientation = "forward" /\ entry.sensorId # Absent
                 \/ IsObstacle(entry) /\ entry.orientation = "forward"
    /\ Unique(entries, LAMBDA entry : TRUE, LAMBDA entry : entry.name)
    /\ Unique(entries, LAMBDA entry : TRUE, LAMBDA entry : entry.gazeboTopic)
    /\ DistinctEndpoints(entries)
    /\ Unique(entries, IsDistance, LAMBDA entry : entry.sensorId)
    /\ Unique(entries, IsObstacle, LAMBDA entry : "obstacle_distance")

\* sitl.address is not looked at.
Validate(config) ==
    /\ config.mavlinkAddress \in Ipv4
    /\ ValidTopics(config)
    /\ ValidFdm(config)
    /\ ValidMotors(config)
    /\ ValidRangefinders(config.rangefinders)

Accepted(file) == Loads(file) /\ Validate(Loaded(file))
=============================================================================
