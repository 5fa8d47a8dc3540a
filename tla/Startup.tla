------------------------------ MODULE Startup -------------------------------
(***************************************************************************)
(* The life of the bridge process: main loads the configuration, BridgeApp *)
(* constructs its members in the order they are declared and then opens    *)
(* its sockets, Run uses them, and whatever ends it, an exception or a     *)
(* signal, the destructors give every descriptor back.                     *)
(*                                                                         *)
(* Any system call and any subscription to a topic whose name is valid may *)
(* fail from outside; `outside` remembers that one did.  What else fails,  *)
(* an address or a topic that is refused, is the configuration's.  The     *)
(* destructors run as one step.                                            *)
(***************************************************************************)
EXTENDS Config, FiniteSets, FiniteSetsExt

CONSTANTS
    Files,          \* the YAML files the bridge may be started with
    Topics,         \* the names gz-transport takes for a topic
    Closed          \* the descriptor -1

ASSUME ClosedAssumption == Closed \notin Nat

Sockets == {"motor", "fdm", "mavlink", "rangefinder", "odometry"}

\* The members whose construction can fail, then the body of the constructor.
Members == <<"stateSubscriber", "actuatorPublisher", "velocityConverter", "rangefinders",
             "odometry", "motorSocket", "fdmSocket", "mavlinkSocket">>

Enabled(entries) == {i \in DOMAIN entries : entries[i].enabled}

\* Mutant: disabled mappings are set up too.
Connections_All(entries) == {i \in DOMAIN entries : IsTfmini(entries[i])}

\* The mappings Update connects.
Connections(entries) == {i \in Enabled(entries) : IsTfmini(entries[i])}

VARIABLES
    file,           \* the file main was given; never changes
    phase,          \* where the process is
    constructed,    \* how many of the members exist
    fd,             \* fd_ of each UdpSocket
    destination,    \* the sockets with hasDestination_
    bound,          \* motorSocket_ is bound
    tcp,            \* tcp of each enabled TFmini mapping
    open,           \* the descriptors the kernel holds open
    outside,        \* something outside the program failed
    ran             \* Run was reached

config == Loaded(file)
vars == <<file, phase, constructed, fd, destination, bound, tcp, open, outside, ran>>

Init ==
    /\ file \in Files
    /\ phase = "load"
    /\ constructed = 0
    /\ fd = [s \in Sockets |-> Closed]
    /\ destination = {}
    /\ bound = FALSE
    /\ tcp = << >>
    /\ open = {}
    /\ outside = FALSE
    /\ ran = FALSE

-----------------------------------------------------------------------------
(* What the steps are made of. *)

\* The kernel gives the lowest descriptor that is free.
NewDescriptor == Min((1 .. Cardinality(open) + 1) \ open)

Constructs(member) ==
    /\ phase = "construct"
    /\ constructed < Len(Members)
    /\ Members[constructed + 1] = member

Constructed == constructed' = constructed + 1 /\ UNCHANGED <<phase, outside>>

\* An exception leaves the constructor.
Throws(fromOutside) ==
    /\ phase' = "unwind"
    /\ outside' = (outside \/ fromOutside)
    /\ UNCHANGED constructed

\* Mutant: the descriptor stays open when fcntl fails.
OpenAfterFailedCreate_Leaks == open \cup {NewDescriptor}

\* CreateSocket throws because socket or fcntl fails; fcntl's failure closes.
OpenAfterFailedCreate == open

CreateSocketFails ==
    /\ open' = OpenAfterFailedCreate
    /\ Throws(TRUE)
    /\ UNCHANGED <<fd, destination, bound>>

CreateSocket(s) ==
    /\ fd' = [fd EXCEPT ![s] = NewDescriptor]
    /\ open' = open \cup {NewDescriptor}

\* The topics the constructor of a member subscribes to or advertises.
TopicsOf(member) ==
    CASE member = "stateSubscriber" ->
            {config.imuTopic, config.altimeterTopic, config.navsatTopic} \ {Absent}
      [] member = "actuatorPublisher" -> {config.actuatorTopic}
      [] member = "rangefinders" ->
            {config.rangefinders[i].gazeboTopic : i \in Enabled(config.rangefinders)}
      [] member = "odometry" -> IF config.odometryEnabled THEN {config.odometryTopic} ELSE {}
      [] OTHER -> {}

\* Mutant: what Subscribe returns is not looked at.
Subscribes_Unchecked(topics) == Constructed

\* The end of a constructor: a Subscribe or an Advertise that returns false
\* throws; one of a name that is not valid always does.
Subscribes(topics) ==
    \/ topics \subseteq Topics /\ Constructed
    \/ \E topic \in topics : Throws(topic \in Topics)

\* SetDestination, and the subscriptions after it.  A throwing inet_pton or
\* Subscribe leaves the descriptor to the destructor of the socket.
SetDestination(s, address, topics) ==
    \/ CreateSocketFails
    \/ /\ CreateSocket(s)
       /\ IF address \in Ipv4
            THEN destination' = destination \cup {s} /\ Subscribes(topics)
            ELSE destination' = destination /\ Throws(FALSE)
       /\ UNCHANGED bound

NoSocket == UNCHANGED <<fd, destination, bound, open>>

\* Mutant: only an output for every mapping counts.
HasMavlink_All(entries) ==
    \A i \in DOMAIN entries : entries[i].enabled /\ entries[i].output = "mavlink"

\* hasMavlink of RangefinderManager, which opens the socket of the distances.
HasMavlink(entries) == \E i \in Enabled(entries) : entries[i].output = "mavlink"

\* Mutant: the odometry is forgotten.
HasMavlinkOutput_NoOdometry ==
    \E i \in DOMAIN config.rangefinders :
        config.rangefinders[i].enabled /\ config.rangefinders[i].output = "mavlink"

\* hasMavlinkOutput_ of BridgeApp, which opens the socket of the heartbeat.
HasMavlinkOutput ==
    \/ config.odometryEnabled
    \/ \E i \in DOMAIN config.rangefinders :
          config.rangefinders[i].enabled /\ config.rangefinders[i].output = "mavlink"

-----------------------------------------------------------------------------
(* main and the constructor of BridgeApp. *)

LoadConfig ==
    /\ phase = "load"
    /\ IF Accepted(file)
         THEN /\ phase' = "construct"
              /\ tcp' = [i \in Connections(config.rangefinders) |-> Closed]
         ELSE phase' = "unwind" /\ UNCHANGED tcp
    /\ UNCHANGED <<file, constructed, fd, destination, bound, open, outside, ran>>

ConstructNode ==
    /\ \E member \in {"stateSubscriber", "actuatorPublisher"} :
          Constructs(member) /\ Subscribes(TopicsOf(member))
    /\ NoSocket
    /\ UNCHANGED <<file, tcp, ran>>

ConstructVelocityConverter ==
    /\ Constructs("velocityConverter")
    /\ IF \/ AtMost(config.minRotorVelocity, -1)
          \/ AtMost(config.maxRotorVelocity, config.minRotorVelocity)
         THEN Throws(FALSE)
         ELSE Constructed
    /\ NoSocket
    /\ UNCHANGED <<file, tcp, ran>>

ConstructRangefinders ==
    /\ Constructs("rangefinders")
    /\ IF HasMavlink(config.rangefinders)
         THEN SetDestination("rangefinder", config.mavlinkAddress, TopicsOf("rangefinders"))
         ELSE Subscribes(TopicsOf("rangefinders")) /\ NoSocket
    /\ UNCHANGED <<file, tcp, ran>>

ConstructOdometry ==
    /\ Constructs("odometry")
    /\ IF config.odometryEnabled
         THEN SetDestination("odometry", config.mavlinkAddress, TopicsOf("odometry"))
         ELSE Constructed /\ NoSocket
    /\ UNCHANGED <<file, tcp, ran>>

BindMotorSocket ==
    /\ Constructs("motorSocket")
    /\ \/ CreateSocketFails
       \/ /\ CreateSocket("motor")
          /\ \/ bound' = TRUE /\ Constructed
             \/ bound' = FALSE /\ Throws(TRUE)
          /\ UNCHANGED destination
    /\ UNCHANGED <<file, tcp, ran>>

ConnectFdmSocket ==
    /\ Constructs("fdmSocket")
    /\ SetDestination("fdm", config.sitlAddress, {})
    /\ UNCHANGED <<file, tcp, ran>>

ConnectMavlinkSocket ==
    /\ Constructs("mavlinkSocket")
    /\ IF HasMavlinkOutput
         THEN SetDestination("mavlink", config.mavlinkAddress, {})
         ELSE Constructed /\ NoSocket
    /\ UNCHANGED <<file, tcp, ran>>

-----------------------------------------------------------------------------
(* Run and the end. *)

Run ==
    /\ phase = "construct"
    /\ constructed = Len(Members)
    /\ phase' = "run"
    /\ ran' = TRUE
    /\ UNCHANGED <<file, constructed, fd, destination, bound, tcp, open, outside>>

\* Connect of a mapping; a failure, of inet_pton or of connect, gives the
\* descriptor back at once.
ConnectTcp(i) ==
    /\ phase = "run"
    /\ tcp[i] = Closed
    /\ config.rangefinders[i].sitlAddress \in Ipv4
    /\ tcp' = [tcp EXCEPT ![i] = NewDescriptor]
    /\ open' = open \cup {NewDescriptor}
    /\ UNCHANGED <<file, phase, constructed, fd, destination, bound, outside, ran>>

\* The connection fails, while it is made or when a frame is sent.
CloseTcp(i) ==
    /\ phase = "run"
    /\ tcp[i] # Closed
    /\ tcp' = [tcp EXCEPT ![i] = Closed]
    /\ open' = open \ {tcp[i]}
    /\ UNCHANGED <<file, phase, constructed, fd, destination, bound, outside, ran>>

\* A stop request, or an exception of a socket or of a command.
LeaveRun ==
    /\ phase = "run"
    /\ phase' = "unwind"
    /\ UNCHANGED <<file, constructed, fd, destination, bound, tcp, open, outside, ran>>

\* ~UdpSocket and ~Mapping of everything that was constructed.
Destroy ==
    /\ phase = "unwind"
    /\ open' = open \ ({fd[s] : s \in Sockets} \cup {tcp[i] : i \in DOMAIN tcp})
    /\ fd' = [s \in Sockets |-> Closed]
    /\ tcp' = [i \in DOMAIN tcp |-> Closed]
    /\ destination' = {}
    /\ bound' = FALSE
    /\ constructed' = 0
    /\ phase' = "exited"
    /\ UNCHANGED <<file, outside, ran>>

Construct ==
    \/ ConstructNode \/ ConstructVelocityConverter
    \/ ConstructRangefinders \/ ConstructOdometry
    \/ BindMotorSocket \/ ConnectFdmSocket \/ ConnectMavlinkSocket

Next ==
    \/ LoadConfig
    \/ Construct
    \/ Run
    \/ \E i \in DOMAIN tcp : ConnectTcp(i) \/ CloseTcp(i)
    \/ LeaveRun
    \/ Destroy

Spec == Init /\ [][Next]_vars

-----------------------------------------------------------------------------
(* Correctness. *)

\* Every variable keeps its type.
TypeOK ==
    /\ file \in Files
    /\ phase \in {"load", "construct", "run", "unwind", "exited"}
    /\ constructed \in 0 .. Len(Members)
    /\ fd \in [Sockets -> Nat \cup {Closed}]
    /\ destination \subseteq Sockets
    /\ bound \in BOOLEAN
    /\ \A i \in DOMAIN tcp :
          /\ tcp[i] \in Nat \cup {Closed}
          /\ config.rangefinders[i].enabled /\ config.rangefinders[i].output = "tfmini"
    /\ open \subseteq Nat
    /\ outside \in BOOLEAN
    /\ ran \in BOOLEAN

\* Every open descriptor belongs to exactly one socket or mapping, also in the
\* middle of a constructor that throws, and none survives the bridge.
DescriptorsHaveOneOwner ==
    LET owners == {s \in Sockets : fd[s] # Closed}
        mappings == {i \in DOMAIN tcp : tcp[i] # Closed}
    IN  /\ open = {fd[s] : s \in owners} \cup {tcp[i] : i \in mappings}
        /\ Cardinality(open) = Cardinality(owners) + Cardinality(mappings)
        /\ phase = "exited" => open = {}

\* Whatever the configuration enables, the loop finds the sockets it uses: no
\* Send is "called before UDP destination was configured" and no Receive "on
\* closed UDP socket" (UdpSocket.cc), although who opens which socket is
\* decided in three places.
RunFindsItsSockets ==
    phase = "run" =>
        /\ bound /\ fd["motor"] # Closed
        /\ \A s \in {"fdm"}
                \cup (IF config.odometryEnabled THEN {"odometry", "mavlink"} ELSE {})
                \cup (IF \E i \in DOMAIN config.rangefinders :
                            /\ config.rangefinders[i].enabled
                            /\ config.rangefinders[i].output = "mavlink"
                        THEN {"rangefinder", "mavlink"} ELSE {}) :
              fd[s] # Closed /\ s \in destination

\* What the constructors ask of a configuration beyond ConfigLoader::Validate,
\* which does not look at sitl.address and asks of a topic only that it is not
\* empty.
Startable ==
    /\ config.sitlAddress \in Ipv4
    /\ \A n \in DOMAIN Members : TopicsOf(Members[n]) \subseteq Topics

\* Validate misses two kinds of error and no other: a file it accepts makes a
\* constructor throw, when nothing outside fails, only for sitl.address or for
\* the name of a topic in use, and none with such an error gets as far as Run.
OnlyAddressAndTopicsEscapeValidation ==
    /\ phase = "unwind" /\ ~ran /\ ~outside /\ Accepted(file) => ~Startable
    /\ ran => Accepted(file) /\ Startable
=============================================================================
