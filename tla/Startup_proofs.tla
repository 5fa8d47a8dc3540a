--------------------------- MODULE Startup_proofs ---------------------------
(***************************************************************************)
(* Proofs about Startup, for any YAML files and any addresses.             *)
(***************************************************************************)
EXTENDS Startup, FiniteSetTheorems, TLAPS

-----------------------------------------------------------------------------
(* Descriptors. *)

\* A set of descriptors that is not empty has a lowest one.
LEMMA LowestDescriptor ==
    ASSUME NEW S \in SUBSET Nat, S # {}
    PROVE  Min(S) \in S
<1> DEFINE Less == OpToRel(<, Nat)
<1>1. IsWellFoundedOn(Less, Nat)
  BY NatLessThanWellFounded
<1>2. \A m, n \in Nat : <<m, n>> \in Less <=> m < n
  BY DEF OpToRel
<1> HIDE DEF Less
<1>3. PICK x \in S : \A y \in S : <<y, x>> \notin Less
  BY <1>1, WFMin
<1>4. ASSUME NEW y \in S PROVE x <= y
  <2>1. x \in Nat /\ y \in Nat
    OBVIOUS
  <2>2. ~(y < x)
    BY <1>2, <1>3, <2>1
  <2>. QED BY <2>1, <2>2
<1>. QED BY <1>4 DEF Min

\* The kernel finds a descriptor that is not open, for one more than are open
\* cannot all be taken.
LEMMA NewDescriptorIsFree ==
    ASSUME IsFiniteSet(open)
    PROVE  NewDescriptor \in Nat \ open
<1> DEFINE candidates == 1 .. Cardinality(open) + 1
<1>1. Cardinality(open) \in Nat
  BY FS_CardinalityType
<1>2. IsFiniteSet(candidates) /\ Cardinality(candidates) = Cardinality(open) + 1
  BY <1>1, FS_Interval
<1>3. ~(candidates \subseteq open)
  BY <1>1, <1>2, FS_Subset
<1>4. candidates \ open \subseteq Nat /\ candidates \ open # {}
  BY <1>1, <1>3
<1>. QED BY <1>4, LowestDescriptor DEF NewDescriptor

-----------------------------------------------------------------------------
(* The order of construction.                                              *)

LEMMA MembersInOrder ==
    /\ Len(Members) = 8
    /\ \A n \in 0 .. 7 :
          /\ Members[n + 1] = "stateSubscriber" <=> n = 0
          /\ Members[n + 1] = "actuatorPublisher" <=> n = 1
          /\ Members[n + 1] = "velocityConverter" <=> n = 2
          /\ Members[n + 1] = "rangefinders" <=> n = 3
          /\ Members[n + 1] = "odometry" <=> n = 4
          /\ Members[n + 1] = "motorSocket" <=> n = 5
          /\ Members[n + 1] = "fdmSocket" <=> n = 6
          /\ Members[n + 1] = "mavlinkSocket" <=> n = 7
<1>1. Len(Members) = 8
  BY DEF Members
<1>2. /\ Members[1] = "stateSubscriber" /\ Members[2] = "actuatorPublisher"
      /\ Members[3] = "velocityConverter" /\ Members[4] = "rangefinders"
      /\ Members[5] = "odometry" /\ Members[6] = "motorSocket"
      /\ Members[7] = "fdmSocket" /\ Members[8] = "mavlinkSocket"
  BY DEF Members
<1>. QED BY <1>1, <1>2

\* Which member is under construction tells how many there are.
LEMMA ConstructsInOrder ==
    ASSUME constructed \in 0 .. Len(Members)
    PROVE  /\ Constructs("stateSubscriber") => constructed = 0
           /\ Constructs("actuatorPublisher") => constructed = 1
           /\ Constructs("velocityConverter") => constructed = 2
           /\ Constructs("rangefinders") => constructed = 3
           /\ Constructs("odometry") => constructed = 4
           /\ Constructs("motorSocket") => constructed = 5
           /\ Constructs("fdmSocket") => constructed = 6
           /\ Constructs("mavlinkSocket") => constructed = 7
BY MembersInOrder DEF Constructs

\* The configuration does not change while the bridge runs.
LEMMA FileStays == [Next]_vars => file' = file /\ config' = config
<1> SUFFICES ASSUME [Next]_vars PROVE file' = file /\ config' = config OBVIOUS
<1>1. file' = file
  BY DEF Next, vars, LoadConfig, Construct, ConstructNode,
         ConstructVelocityConverter, ConstructRangefinders, ConstructOdometry,
         BindMotorSocket, ConnectFdmSocket, ConnectMavlinkSocket,
         Run, ConnectTcp, CloseTcp, LeaveRun, Destroy
<1>. QED BY <1>1 DEF config

\* The subscriptions of a member succeed, or its constructor throws; when
\* nothing outside fails, whether a name is refused decides.
LEMMA SubscribesOrThrows ==
    ASSUME NEW topics, Subscribes(topics)
    PROVE  \/ topics \subseteq Topics /\ Constructed
           \/ Throws(TRUE)
           \/ ~(topics \subseteq Topics) /\ Throws(FALSE)
<1>1. CASE topics \subseteq Topics /\ Constructed
  BY <1>1
<1>2. ASSUME NEW topic \in topics, Throws(topic \in Topics)
      PROVE  Throws(TRUE) \/ (~(topics \subseteq Topics) /\ Throws(FALSE))
  <2>1. CASE topic \in Topics
    <3>1. (topic \in Topics) = TRUE
      BY <2>1
    <3>. QED BY <1>2, <3>1 DEF Throws
  <2>2. CASE topic \notin Topics
    <3>1. (topic \in Topics) = FALSE
      BY <2>2
    <3>. QED BY <1>2, <2>2, <3>1 DEF Throws
  <2>. QED BY <2>1, <2>2
<1>. QED BY <1>1, <1>2 DEF Subscribes

-----------------------------------------------------------------------------
(* Types and what belongs to the mappings.                                 *)

\* What counts as a mapping is one that the configuration enables.
Mapped ==
    /\ tcp = [i \in DOMAIN tcp |-> tcp[i]]
    /\ phase = "load" => DOMAIN tcp = {}
    /\ DOMAIN tcp \subseteq Connections(config.rangefinders)

Typed == TypeOK /\ Mapped

\* The socket that a constructor opens, or whose descriptor it leaves alone.
LEMMA SetDestinationKeepsTypes ==
    ASSUME NEW s \in Sockets, NEW address, NEW topics, SetDestination(s, address, topics),
           IsFiniteSet(open), Typed, phase = "construct", constructed < Len(Members)
    PROVE  /\ fd' \in [Sockets -> Nat \cup {Closed}] /\ open' \subseteq Nat
           /\ destination' \subseteq Sockets /\ bound' = bound
           /\ phase' \in {"construct", "unwind"} /\ outside' \in BOOLEAN
           /\ constructed' \in 0 .. Len(Members)
<1>1. NewDescriptor \in Nat
  BY NewDescriptorIsFree
<1>2. Len(Members) = 8
  BY MembersInOrder
<1>3. CASE CreateSocketFails
  BY <1>3 DEF CreateSocketFails, OpenAfterFailedCreate, Throws, Typed, TypeOK
<1>4. CASE CreateSocket(s) /\ address \in Ipv4 /\ ~CreateSocketFails
  <2>1. Subscribes(topics)
    BY <1>4 DEF SetDestination
  <2>2. Constructed \/ Throws(TRUE) \/ Throws(FALSE)
    BY <2>1, SubscribesOrThrows
  <2>3. /\ fd' \in [Sockets -> Nat \cup {Closed}] /\ open' \subseteq Nat
        /\ destination' \subseteq Sockets /\ bound' = bound
    BY <1>1, <1>4 DEF SetDestination, CreateSocket, Typed, TypeOK
  <2>4. CASE Constructed
    BY <1>2, <2>3, <2>4 DEF Constructed, Typed, TypeOK
  <2>5. CASE Throws(TRUE) \/ Throws(FALSE)
    BY <1>2, <2>3, <2>5 DEF Throws, Typed, TypeOK
  <2>. QED BY <2>2, <2>4, <2>5
<1>5. CASE CreateSocket(s) /\ address \notin Ipv4 /\ ~CreateSocketFails
  BY <1>1, <1>2, <1>5 DEF SetDestination, CreateSocket, Throws, Typed, TypeOK
<1>. QED BY <1>3, <1>4, <1>5 DEF SetDestination

\* A step of construction keeps the types.
LEMMA ConstructKeepsTypes ==
    ASSUME Typed, IsFiniteSet(open), Construct, file' = file, config' = config
    PROVE  Typed'
<1>0. /\ file \in Files /\ phase = "construct" /\ constructed \in 0 .. Len(Members)
      /\ constructed < Len(Members) /\ Len(Members) = 8 /\ outside \in BOOLEAN
  BY MembersInOrder
  DEF Typed, TypeOK, Construct, ConstructNode, ConstructVelocityConverter,
      ConstructRangefinders, ConstructOdometry, BindMotorSocket,
      ConnectFdmSocket, ConnectMavlinkSocket, Constructs
<1>1. tcp' = tcp /\ ran' = ran
  BY DEF Construct, ConstructNode, ConstructVelocityConverter,
         ConstructRangefinders, ConstructOdometry, BindMotorSocket,
         ConnectFdmSocket, ConnectMavlinkSocket
<1> DEFINE Kept == /\ fd' \in [Sockets -> Nat \cup {Closed}] /\ open' \subseteq Nat
                   /\ destination' \subseteq Sockets /\ bound' \in BOOLEAN
                   /\ phase' \in {"construct", "unwind"} /\ outside' \in BOOLEAN
                   /\ constructed' \in 0 .. Len(Members)
<1>2. (\E b \in BOOLEAN : Throws(b)) => /\ phase' \in {"construct", "unwind"} /\ outside' \in BOOLEAN
                                        /\ constructed' \in 0 .. Len(Members)
  BY <1>0 DEF Throws
<1>3. Constructed => /\ phase' \in {"construct", "unwind"} /\ outside' \in BOOLEAN
                     /\ constructed' \in 0 .. Len(Members)
  BY <1>0 DEF Constructed
<1>4. NoSocket => /\ fd' \in [Sockets -> Nat \cup {Closed}] /\ open' \subseteq Nat
                  /\ destination' \subseteq Sockets /\ bound' \in BOOLEAN
  BY DEF NoSocket, Typed, TypeOK
<1>5. ASSUME NEW s \in Sockets, NEW address, NEW topics, SetDestination(s, address, topics)
      PROVE  Kept
  BY <1>0, <1>5, SetDestinationKeepsTypes DEF Typed, TypeOK
<1>6. Kept
  <2>1. CASE ConstructNode \/ ConstructVelocityConverter
    BY <1>2, <1>3, <1>4, <2>1, SubscribesOrThrows DEF ConstructNode, ConstructVelocityConverter
  <2>2. CASE ConstructRangefinders \/ ConstructOdometry
    BY <1>2, <1>3, <1>4, <1>5, <2>2, SubscribesOrThrows
    DEF ConstructRangefinders, ConstructOdometry, Sockets
  <2>3. CASE ConnectFdmSocket \/ ConnectMavlinkSocket
    BY <1>3, <1>4, <1>5, <2>3 DEF ConnectFdmSocket, ConnectMavlinkSocket, Sockets
  <2>4. CASE BindMotorSocket
    <3>1. NewDescriptor \in Nat
      BY NewDescriptorIsFree
    <3>2. CASE CreateSocketFails
      BY <1>2, <3>2 DEF CreateSocketFails, OpenAfterFailedCreate, Typed, TypeOK
    <3>3. CASE CreateSocket("motor") /\ ~CreateSocketFails
      BY <1>2, <1>3, <2>4, <3>1, <3>3
      DEF BindMotorSocket, CreateSocket, Typed, TypeOK, Sockets
    <3>. QED BY <2>4, <3>2, <3>3 DEF BindMotorSocket
  <2>. QED BY <2>1, <2>2, <2>3, <2>4 DEF Construct
<1>. QED BY <1>0, <1>1, <1>6 DEF Typed, TypeOK, Mapped

\* The types hold at the start.
LEMMA InitTyped == Init => Typed
<1> SUFFICES ASSUME Init PROVE Typed OBVIOUS
<1>1. 0 \in 0 .. Len(Members)
  BY MembersInOrder
<1>2. DOMAIN tcp = {} /\ tcp = [i \in DOMAIN tcp |-> tcp[i]]
  BY DEF Init
<1>. QED BY <1>1, <1>2 DEF Init, Typed, TypeOK, Mapped

\* Every step keeps the types, while finitely many descriptors are open.
LEMMA TypedStep == Typed /\ IsFiniteSet(open) /\ [Next]_vars => Typed'
<1> SUFFICES ASSUME Typed, IsFiniteSet(open), [Next]_vars PROVE Typed' OBVIOUS
<1>0. file' = file /\ config' = config
  BY FileStays
<1>1. CASE Construct
  BY <1>0, <1>1, ConstructKeepsTypes
<1>2. CASE LoadConfig
  <2>1. CASE Accepted(file)
    <3>1. /\ tcp' = [i \in Connections(config.rangefinders) |-> Closed]
          /\ phase' = "construct"
      BY <1>2, <2>1 DEF LoadConfig
    <3>2. \A i \in Connections(config.rangefinders) :
             config.rangefinders[i].enabled /\ config.rangefinders[i].output = "tfmini"
      BY DEF Connections, Enabled, IsTfmini
    <3>. QED BY <1>0, <1>2, <2>1, <3>1, <3>2 DEF LoadConfig, Typed, TypeOK, Mapped
  <2>2. CASE ~Accepted(file)
    BY <1>0, <1>2, <2>2 DEF LoadConfig, Typed, TypeOK, Mapped
  <2>. QED BY <2>1, <2>2
<1>3. CASE Run \/ LeaveRun
  BY <1>0, <1>3 DEF Run, LeaveRun, Typed, TypeOK, Mapped
<1>4. ASSUME NEW i \in DOMAIN tcp, ConnectTcp(i) PROVE Typed'
  <2>1. NewDescriptor \in Nat
    BY NewDescriptorIsFree
  <2>. QED
    BY <1>0, <1>4, <2>1 DEF ConnectTcp, Typed, TypeOK, Mapped
<1>5. ASSUME NEW i \in DOMAIN tcp, CloseTcp(i) PROVE Typed'
  BY <1>0, <1>5 DEF CloseTcp, Typed, TypeOK, Mapped
<1>6. CASE Destroy
  <2>1. 0 \in 0 .. Len(Members)
    BY MembersInOrder
  <2>. QED BY <1>0, <1>6, <2>1 DEF Destroy, Typed, TypeOK, Mapped
<1>7. CASE UNCHANGED vars
  BY <1>0, <1>7 DEF vars, Typed, TypeOK, Mapped
<1>. QED BY <1>1, <1>2, <1>3, <1>4, <1>5, <1>6, <1>7 DEF Next

-----------------------------------------------------------------------------
(* Who owns the descriptors.                                               *)

SocketOwners == {s \in Sockets : fd[s] # Closed}
MappingOwners == {i \in DOMAIN tcp : tcp[i] # Closed}

\* The owners are counted as they come and go, one descriptor each.  A socket
\* whose constructor has not run has no descriptor yet, so that none is lost.
Owned ==
    /\ IsFiniteSet(open) /\ IsFiniteSet(SocketOwners) /\ IsFiniteSet(MappingOwners)
    /\ open = {fd[s] : s \in SocketOwners} \cup {tcp[i] : i \in MappingOwners}
    /\ Cardinality(open) = Cardinality(SocketOwners) + Cardinality(MappingOwners)
    /\ \A s, t \in SocketOwners : fd[s] = fd[t] => s = t
    /\ \A i, j \in MappingOwners : tcp[i] = tcp[j] => i = j
    /\ \A s \in SocketOwners, i \in MappingOwners : fd[s] # tcp[i]
    /\ phase = "exited" => open = {}

NotYetOpened ==
    /\ phase = "load" => constructed = 0
    /\ phase \in {"load", "construct"} =>
          /\ constructed < 4 => fd["rangefinder"] = Closed
          /\ constructed < 5 => fd["odometry"] = Closed
          /\ constructed < 6 => fd["motor"] = Closed
          /\ constructed < 7 => fd["fdm"] = Closed
          /\ constructed < 8 => fd["mavlink"] = Closed

\* A new descriptor for a socket that has none.
LEMMA CreateSocketKeepsOwners ==
    ASSUME Typed, Owned, NEW s \in Sockets, fd[s] = Closed, CreateSocket(s), tcp' = tcp,
           phase' # "exited"
    PROVE  Owned'
<1>1. NewDescriptor \in Nat \ open
  BY NewDescriptorIsFree DEF Owned
<1>2. NewDescriptor # Closed
  BY <1>1, ClosedAssumption
<1>3. /\ fd' = [fd EXCEPT ![s] = NewDescriptor] /\ fd \in [Sockets -> Nat \cup {Closed}]
      /\ open' = open \cup {NewDescriptor}
  BY DEF CreateSocket, Typed, TypeOK
<1>4. /\ SocketOwners' = SocketOwners \cup {s} /\ s \notin SocketOwners
      /\ MappingOwners' = MappingOwners
  BY <1>2, <1>3 DEF SocketOwners, MappingOwners
<1>5. /\ IsFiniteSet(open') /\ IsFiniteSet(SocketOwners')
      /\ Cardinality(open') = Cardinality(open) + 1
      /\ Cardinality(SocketOwners') = Cardinality(SocketOwners) + 1
  BY <1>1, <1>3, <1>4, FS_AddElement DEF Owned
<1>6. Cardinality(open') = Cardinality(SocketOwners') + Cardinality(MappingOwners')
  BY <1>4, <1>5, FS_CardinalityType DEF Owned
<1>7. \A t \in SocketOwners : fd'[t] = fd[t] /\ fd[t] \in open /\ fd[t] # NewDescriptor
  BY <1>1, <1>3, <1>4 DEF Owned, SocketOwners
<1>8. \A i \in MappingOwners : tcp[i] \in open /\ tcp[i] # NewDescriptor
  BY <1>1 DEF Owned
<1>9. fd'[s] = NewDescriptor
  BY <1>3
<1>10. open' = {fd'[t] : t \in SocketOwners'} \cup {tcp'[i] : i \in MappingOwners'}
  <2>1. {fd'[t] : t \in SocketOwners'} = {fd[t] : t \in SocketOwners} \cup {NewDescriptor}
    BY <1>4, <1>7, <1>9
  <2>2. {tcp'[i] : i \in MappingOwners'} = {tcp[i] : i \in MappingOwners}
    BY <1>4, Zenon
  <2>3. open = {fd[t] : t \in SocketOwners} \cup {tcp[i] : i \in MappingOwners}
    BY DEF Owned
  <2>. QED BY <1>3, <2>1, <2>2, <2>3
<1>11. \A t, u \in SocketOwners' : fd'[t] = fd'[u] => t = u
  BY <1>4, <1>7, <1>9 DEF Owned
<1>12. \A t \in SocketOwners', i \in MappingOwners' : fd'[t] # tcp'[i]
  BY <1>4, <1>7, <1>8, <1>9 DEF Owned
<1>. QED BY <1>4, <1>5, <1>6, <1>10, <1>11, <1>12 DEF Owned

\* Nothing opens or closes.
LEMMA QuietKeepsOwners ==
    ASSUME Owned, UNCHANGED <<fd, tcp, open>>, phase' = "exited" => phase = "exited"
    PROVE  Owned'
<1>1. SocketOwners' = SocketOwners /\ MappingOwners' = MappingOwners
  BY DEF SocketOwners, MappingOwners
<1>2. fd' = fd /\ tcp' = tcp /\ open' = open
  OBVIOUS
<1>3. {fd'[s] : s \in SocketOwners'} \cup {tcp'[i] : i \in MappingOwners'}
         = {fd[s] : s \in SocketOwners} \cup {tcp[i] : i \in MappingOwners}
  BY <1>1, <1>2, Zenon
<1>. QED BY <1>1, <1>2, <1>3 DEF Owned

\* A new descriptor for the connection of a mapping.
LEMMA ConnectKeepsOwners ==
    ASSUME Typed, Owned, NEW i \in DOMAIN tcp, ConnectTcp(i)
    PROVE  Owned'
<1>1. NewDescriptor \in Nat \ open
  BY NewDescriptorIsFree DEF Owned
<1>2. NewDescriptor # Closed
  BY <1>1, ClosedAssumption
<1>3. /\ tcp[i] = Closed /\ tcp' = [tcp EXCEPT ![i] = NewDescriptor]
      /\ open' = open \cup {NewDescriptor} /\ fd' = fd /\ phase' = "run"
      /\ tcp = [j \in DOMAIN tcp |-> tcp[j]]
  BY DEF ConnectTcp, Typed, Mapped
<1>4. /\ DOMAIN tcp' = DOMAIN tcp /\ tcp'[i] = NewDescriptor
      /\ \A j \in DOMAIN tcp : j # i => tcp'[j] = tcp[j]
  BY <1>3
<1>5. /\ MappingOwners' = MappingOwners \cup {i} /\ i \notin MappingOwners
      /\ SocketOwners' = SocketOwners
  BY <1>2, <1>3, <1>4 DEF SocketOwners, MappingOwners
<1>6. /\ IsFiniteSet(open') /\ IsFiniteSet(MappingOwners')
      /\ Cardinality(open') = Cardinality(open) + 1
      /\ Cardinality(MappingOwners') = Cardinality(MappingOwners) + 1
  BY <1>1, <1>3, <1>5, FS_AddElement DEF Owned
<1>7. Cardinality(open') = Cardinality(SocketOwners') + Cardinality(MappingOwners')
  BY <1>5, <1>6, FS_CardinalityType DEF Owned
<1>8. \A s \in SocketOwners : fd[s] \in open /\ fd[s] # NewDescriptor
  BY <1>1 DEF Owned
<1>9. \A j \in MappingOwners : tcp'[j] = tcp[j] /\ tcp[j] \in open /\ tcp[j] # NewDescriptor
  BY <1>1, <1>4, <1>5 DEF Owned, MappingOwners
<1>10. open' = {fd'[s] : s \in SocketOwners'} \cup {tcp'[j] : j \in MappingOwners'}
  BY <1>3, <1>4, <1>5, <1>9 DEF Owned
<1>11. \A j, k \in MappingOwners' : tcp'[j] = tcp'[k] => j = k
  BY <1>4, <1>5, <1>9 DEF Owned
<1>12. \A s \in SocketOwners', j \in MappingOwners' : fd'[s] # tcp'[j]
  BY <1>3, <1>4, <1>5, <1>8, <1>9 DEF Owned
<1>. QED BY <1>3, <1>5, <1>6, <1>7, <1>10, <1>11, <1>12 DEF Owned

\* A mapping gives its descriptor back.
LEMMA CloseKeepsOwners ==
    ASSUME Typed, Owned, NEW i \in DOMAIN tcp, CloseTcp(i)
    PROVE  Owned'
<1>1. /\ tcp[i] # Closed /\ tcp' = [tcp EXCEPT ![i] = Closed]
      /\ open' = open \ {tcp[i]} /\ fd' = fd /\ phase' = "run"
      /\ tcp = [j \in DOMAIN tcp |-> tcp[j]]
  BY DEF CloseTcp, Typed, Mapped
<1>2. /\ DOMAIN tcp' = DOMAIN tcp /\ tcp'[i] = Closed
      /\ \A j \in DOMAIN tcp : j # i => tcp'[j] = tcp[j]
  BY <1>1
<1>3. /\ MappingOwners' = MappingOwners \ {i} /\ i \in MappingOwners
      /\ SocketOwners' = SocketOwners
  BY <1>1, <1>2 DEF SocketOwners, MappingOwners
<1>4. tcp[i] \in open
  BY <1>3 DEF Owned
<1>5. /\ IsFiniteSet(open') /\ IsFiniteSet(MappingOwners')
      /\ Cardinality(open') = Cardinality(open) - 1
      /\ Cardinality(MappingOwners') = Cardinality(MappingOwners) - 1
  BY <1>1, <1>3, <1>4, FS_RemoveElement DEF Owned
<1>6. Cardinality(open') = Cardinality(SocketOwners') + Cardinality(MappingOwners')
  BY <1>3, <1>5, FS_CardinalityType DEF Owned
<1>7. \A s \in SocketOwners : fd[s] # tcp[i]
  BY <1>3 DEF Owned
<1>8. \A j \in MappingOwners' : tcp'[j] = tcp[j] /\ tcp[j] # tcp[i] /\ j \in MappingOwners
  BY <1>2, <1>3 DEF Owned, MappingOwners
<1>9. open' = {fd'[s] : s \in SocketOwners'} \cup {tcp'[j] : j \in MappingOwners'}
  <2>1. \A d \in open' : d \in {fd'[s] : s \in SocketOwners'} \cup {tcp'[j] : j \in MappingOwners'}
    BY <1>1, <1>3, <1>8 DEF Owned
  <2>2. \A s \in SocketOwners' : fd'[s] \in open'
    BY <1>1, <1>3, <1>7 DEF Owned
  <2>3. \A j \in MappingOwners' : tcp'[j] \in open'
    BY <1>1, <1>8 DEF Owned
  <2>. QED BY <2>1, <2>2, <2>3
<1>10. \A j, k \in MappingOwners' : tcp'[j] = tcp'[k] => j = k
  BY <1>8 DEF Owned
<1>11. \A s \in SocketOwners', j \in MappingOwners' : fd'[s] # tcp'[j]
  BY <1>1, <1>3, <1>8 DEF Owned
<1>. QED BY <1>1, <1>3, <1>5, <1>6, <1>9, <1>10, <1>11 DEF Owned

\* The destructors give back what is open, and nothing is left.
LEMMA DestroyKeepsOwners ==
    ASSUME Typed, Owned, Destroy
    PROVE  Owned'
<1>1. /\ fd' = [s \in Sockets |-> Closed] /\ tcp' = [i \in DOMAIN tcp |-> Closed]
      /\ open' = open \ ({fd[s] : s \in Sockets} \cup {tcp[i] : i \in DOMAIN tcp})
  BY DEF Destroy
<1>2. SocketOwners' = {} /\ MappingOwners' = {}
  BY <1>1 DEF SocketOwners, MappingOwners
<1>3. open' = {}
  BY <1>1 DEF Owned, SocketOwners, MappingOwners
<1>. QED BY <1>2, <1>3, FS_EmptySet DEF Owned

\* No descriptor is owned at the start.
LEMMA InitOwned == Init => Owned /\ NotYetOpened
<1> SUFFICES ASSUME Init PROVE Owned /\ NotYetOpened OBVIOUS
<1>1. SocketOwners = {} /\ MappingOwners = {} /\ open = {}
  BY DEF Init, SocketOwners, MappingOwners
<1>2. Owned
  BY <1>1, FS_EmptySet DEF Owned
<1>3. NotYetOpened
  BY DEF Init, NotYetOpened, Sockets
<1>. QED BY <1>2, <1>3

\* A constructor that fails leaves the descriptors alone or to their owners.
LEMMA SetDestinationKeepsOwners ==
    ASSUME Typed, Owned, phase = "construct", NEW s \in Sockets, fd[s] = Closed, tcp' = tcp,
           NEW address, NEW topics, SetDestination(s, address, topics)
    PROVE  Owned'
<1>1. phase' # "exited"
  BY SubscribesOrThrows DEF SetDestination, CreateSocketFails, Throws, Constructed
<1>2. CASE CreateSocketFails
  BY <1>1, <1>2, QuietKeepsOwners DEF CreateSocketFails, OpenAfterFailedCreate
<1>3. CASE CreateSocket(s)
  BY <1>1, <1>3, CreateSocketKeepsOwners
<1>. QED BY <1>2, <1>3 DEF SetDestination

\* A step of construction gives each new descriptor one owner.
LEMMA ConstructKeepsOwners ==
    ASSUME Typed, Owned, NotYetOpened, Construct
    PROVE  Owned'
<1>0. /\ phase = "construct" /\ constructed \in 0 .. Len(Members) /\ tcp' = tcp
  BY DEF Typed, TypeOK, Construct, ConstructNode, ConstructVelocityConverter,
         ConstructRangefinders, ConstructOdometry, BindMotorSocket,
         ConnectFdmSocket, ConnectMavlinkSocket, Constructs
<1>1. ASSUME NoSocket, Constructed \/ Throws(TRUE) \/ Throws(FALSE) PROVE Owned'
  BY <1>0, <1>1, QuietKeepsOwners DEF NoSocket, Constructed, Throws
<1>2. CASE ConstructNode \/ ConstructVelocityConverter
  BY <1>1, <1>2, SubscribesOrThrows DEF ConstructNode, ConstructVelocityConverter
<1>3. CASE ConstructRangefinders
  <2>1. fd["rangefinder"] = Closed /\ "rangefinder" \in Sockets
    BY <1>0, <1>3, ConstructsInOrder DEF ConstructRangefinders, NotYetOpened, Sockets
  <2>. QED
    BY <1>0, <1>1, <1>3, <2>1, SetDestinationKeepsOwners, SubscribesOrThrows
    DEF ConstructRangefinders
<1>4. CASE ConstructOdometry
  <2>1. fd["odometry"] = Closed /\ "odometry" \in Sockets
    BY <1>0, <1>4, ConstructsInOrder DEF ConstructOdometry, NotYetOpened, Sockets
  <2>. QED BY <1>0, <1>1, <1>4, <2>1, SetDestinationKeepsOwners DEF ConstructOdometry
<1>5. CASE ConnectFdmSocket
  <2>1. fd["fdm"] = Closed /\ "fdm" \in Sockets
    BY <1>0, <1>5, ConstructsInOrder DEF ConnectFdmSocket, NotYetOpened, Sockets
  <2>. QED BY <1>0, <1>5, <2>1, SetDestinationKeepsOwners DEF ConnectFdmSocket
<1>6. CASE ConnectMavlinkSocket
  <2>1. fd["mavlink"] = Closed /\ "mavlink" \in Sockets
    BY <1>0, <1>6, ConstructsInOrder DEF ConnectMavlinkSocket, NotYetOpened, Sockets
  <2>. QED BY <1>0, <1>1, <1>6, <2>1, SetDestinationKeepsOwners DEF ConnectMavlinkSocket
<1>7. CASE BindMotorSocket
  <2>1. fd["motor"] = Closed /\ "motor" \in Sockets
    BY <1>0, <1>7, ConstructsInOrder DEF BindMotorSocket, NotYetOpened, Sockets
  <2>2. phase' # "exited"
    BY <1>0, <1>7 DEF BindMotorSocket, CreateSocketFails, Throws, Constructed
  <2>3. CASE CreateSocketFails
    BY <1>0, <2>2, <2>3, QuietKeepsOwners DEF CreateSocketFails, OpenAfterFailedCreate
  <2>4. CASE CreateSocket("motor")
    BY <1>0, <2>1, <2>2, <2>4, CreateSocketKeepsOwners
  <2>. QED BY <1>7, <2>3, <2>4 DEF BindMotorSocket
<1>. QED BY <1>2, <1>3, <1>4, <1>5, <1>6, <1>7 DEF Construct

\* Every step keeps one owner for each descriptor.
LEMMA OwnedStep == Typed /\ Owned /\ NotYetOpened /\ [Next]_vars => Owned'
<1> SUFFICES ASSUME Typed, Owned, NotYetOpened, [Next]_vars PROVE Owned' OBVIOUS
<1>1. CASE Construct
  BY <1>1, ConstructKeepsOwners
<1>2. CASE LoadConfig
  <2>1. MappingOwners = {} /\ MappingOwners' = {} /\ SocketOwners' = SocketOwners
    BY <1>2 DEF LoadConfig, Typed, Mapped, MappingOwners, SocketOwners
  <2>2. UNCHANGED <<fd, open>> /\ phase' # "exited"
    BY <1>2 DEF LoadConfig
  <2>. QED BY <2>1, <2>2 DEF Owned
<1>3. CASE Run \/ LeaveRun
  BY <1>3, QuietKeepsOwners DEF Run, LeaveRun
<1>4. ASSUME NEW i \in DOMAIN tcp, ConnectTcp(i) \/ CloseTcp(i) PROVE Owned'
  BY <1>4, ConnectKeepsOwners, CloseKeepsOwners
<1>5. CASE Destroy
  BY <1>5, DestroyKeepsOwners
<1>6. CASE UNCHANGED vars
  BY <1>6, QuietKeepsOwners DEF vars
<1>. QED BY <1>1, <1>2, <1>3, <1>4, <1>5, <1>6 DEF Next

\* A member that is constructed opens its own socket and no other.
LEMMA SetDestinationOpensOne ==
    ASSUME Typed, phase = "construct", NEW s \in Sockets, NEW address, NEW topics,
           SetDestination(s, address, topics)
    PROVE  \/ phase' = "unwind"
           \/ /\ phase' = "construct" /\ constructed' = constructed + 1
              /\ \A t \in Sockets : t # s => fd'[t] = fd[t]
BY SubscribesOrThrows
DEF SetDestination, CreateSocketFails, CreateSocket, Throws, Constructed, Typed, TypeOK

\* Every step leaves the sockets to come without descriptors.
LEMMA NotYetOpenedStep == Typed /\ NotYetOpened /\ [Next]_vars => NotYetOpened'
<1> SUFFICES ASSUME Typed, NotYetOpened, [Next]_vars PROVE NotYetOpened' OBVIOUS
<1>0. /\ constructed \in 0 .. 8 /\ constructed \in 0 .. Len(Members)
      /\ Sockets = {"motor", "fdm", "mavlink", "rangefinder", "odometry"}
  BY MembersInOrder DEF Typed, TypeOK, Sockets
<1> DEFINE Quiet == phase' = "construct" /\ constructed' = constructed + 1 /\ fd' = fd
<1>1. ASSUME phase = "construct", Quiet PROVE NotYetOpened'
  BY <1>0, <1>1 DEF NotYetOpened
<1>2. ASSUME phase' \notin {"load", "construct"} PROVE NotYetOpened'
  BY <1>2 DEF NotYetOpened
<1>3. CASE ConstructNode \/ ConstructVelocityConverter
  BY <1>1, <1>2, <1>3, SubscribesOrThrows
  DEF ConstructNode, ConstructVelocityConverter, Throws,
      Constructed, Constructs, NoSocket
<1>4. CASE ConstructRangefinders
  <2>1. constructed = 3 /\ phase = "construct"
    BY <1>0, <1>4, ConstructsInOrder DEF ConstructRangefinders, Constructs
  <2>2. CASE HasMavlink(config.rangefinders)
    BY <1>0, <1>2, <1>4, <2>1, <2>2, SetDestinationOpensOne
    DEF ConstructRangefinders, NotYetOpened
  <2>3. CASE ~HasMavlink(config.rangefinders)
    BY <1>1, <1>2, <1>4, <2>1, <2>3, SubscribesOrThrows
    DEF ConstructRangefinders, Constructed, Throws, NoSocket
  <2>. QED BY <2>2, <2>3
<1>5. CASE ConstructOdometry
  <2>1. constructed = 4 /\ phase = "construct"
    BY <1>0, <1>5, ConstructsInOrder DEF ConstructOdometry, Constructs
  <2>2. CASE config.odometryEnabled
    BY <1>0, <1>2, <1>5, <2>1, <2>2, SetDestinationOpensOne DEF ConstructOdometry, NotYetOpened
  <2>3. CASE ~config.odometryEnabled
    BY <1>1, <1>5, <2>1, <2>3 DEF ConstructOdometry, Constructed, NoSocket
  <2>. QED BY <2>2, <2>3
<1>6. CASE BindMotorSocket
  <2>1. constructed = 5 /\ phase = "construct"
    BY <1>0, <1>6, ConstructsInOrder DEF BindMotorSocket, Constructs
  <2>2. \/ phase' = "unwind"
        \/ /\ phase' = "construct" /\ constructed' = 6
           /\ \A t \in Sockets : t # "motor" => fd'[t] = fd[t]
    BY <1>6, <2>1
    DEF BindMotorSocket, CreateSocketFails, CreateSocket, Throws, Constructed, Typed, TypeOK
  <2>. QED BY <1>0, <1>2, <2>1, <2>2 DEF NotYetOpened
<1>7. CASE ConnectFdmSocket
  <2>1. constructed = 6 /\ phase = "construct"
    BY <1>0, <1>7, ConstructsInOrder DEF ConnectFdmSocket, Constructs
  <2>. QED
    BY <1>0, <1>2, <1>7, <2>1, SetDestinationOpensOne DEF ConnectFdmSocket, NotYetOpened
<1>8. CASE ConnectMavlinkSocket
  <2>1. constructed = 7 /\ phase = "construct"
    BY <1>0, <1>8, ConstructsInOrder DEF ConnectMavlinkSocket, Constructs
  <2>2. CASE HasMavlinkOutput
    BY <1>0, <1>2, <1>8, <2>1, <2>2, SetDestinationOpensOne
    DEF ConnectMavlinkSocket, NotYetOpened
  <2>3. CASE ~HasMavlinkOutput
    BY <1>1, <1>8, <2>1, <2>3 DEF ConnectMavlinkSocket, Constructed, NoSocket
  <2>. QED BY <2>2, <2>3
<1>9. CASE LoadConfig
  BY <1>2, <1>9 DEF LoadConfig, NotYetOpened
<1>10. CASE Run \/ LeaveRun \/ Destroy \/ \E i \in DOMAIN tcp : ConnectTcp(i) \/ CloseTcp(i)
  BY <1>2, <1>10 DEF Run, LeaveRun, Destroy, ConnectTcp, CloseTcp
<1>11. CASE UNCHANGED vars
  BY <1>11 DEF vars, NotYetOpened
<1>. QED
  BY <1>3, <1>4, <1>5, <1>6, <1>7, <1>8, <1>9, <1>10, <1>11 DEF Next, Construct

\* Each descriptor has one owner in every state.
LEMMA OwnersHold == Spec => [](Typed /\ Owned /\ NotYetOpened)
<1>1. Typed /\ Owned /\ NotYetOpened /\ [Next]_vars => (Typed /\ Owned /\ NotYetOpened)'
  <2>1. Owned => IsFiniteSet(open)
    BY DEF Owned
  <2>. QED BY <2>1, TypedStep, OwnedStep, NotYetOpenedStep
<1>. QED BY <1>1, InitTyped, InitOwned, PTL DEF Spec

\* Every variable keeps its type: what counts as a mapping is enabled and has a
\* serial output, whatever the configuration (Update of RangefinderManager).
THEOREM StartupTypeCorrect == Spec => []TypeOK
<1>1. Typed => TypeOK BY DEF Typed
<1>. QED BY <1>1, OwnersHold, PTL

\* Every open descriptor has one owner, also in the middle of a constructor that
\* throws, and none survives the bridge (~UdpSocket, ~Mapping), for any
\* configuration.
THEOREM OneOwnerPerDescriptor == Spec => []DescriptorsHaveOneOwner
<1>1. Owned => DescriptorsHaveOneOwner
  BY DEF Owned, SocketOwners, MappingOwners, DescriptorsHaveOneOwner
<1>. QED BY <1>1, OwnersHold, PTL

-----------------------------------------------------------------------------
(* What construction leaves behind.                                        *)

Ready(s) == fd[s] # Closed /\ s \in destination

\* The sockets the members so far have opened.
Progress ==
    /\ phase = "run" => constructed = 8
    /\ phase \in {"construct", "run"} =>
          /\ constructed >= 4 /\ HasMavlink(config.rangefinders) => Ready("rangefinder")
          /\ constructed >= 5 /\ config.odometryEnabled => Ready("odometry")
          /\ constructed >= 6 => bound /\ fd["motor"] # Closed
          /\ constructed >= 7 => Ready("fdm")
          /\ constructed >= 8 /\ HasMavlinkOutput => Ready("mavlink")

\* The members so far took what the configuration gives them.
Accepting ==
    phase \in {"construct", "run"} =>
        /\ \A n \in 1 .. constructed : TopicsOf(Members[n]) \subseteq Topics
        /\ constructed >= 7 => config.sitlAddress \in Ipv4

\* What an error in a constructor is about.
Escapes ==
    /\ phase = "construct" => Accepted(file)
    /\ phase = "run" => ran
    /\ OnlyAddressAndTopicsEscapeValidation

\* A destination that is accepted leaves its socket open and directed, and
\* touches no other.
LEMMA SetDestinationMakesReady ==
    ASSUME Typed, Owned, phase = "construct", NEW s \in Sockets, NEW address, NEW topics,
           SetDestination(s, address, topics)
    PROVE  \/ /\ phase' = "unwind"
              /\ outside' \/ address \notin Ipv4 \/ ~(topics \subseteq Topics)
           \/ /\ phase' = "construct" /\ constructed' = constructed + 1
              /\ address \in Ipv4 /\ topics \subseteq Topics
              /\ fd'[s] # Closed /\ s \in destination'
              /\ \A t \in Sockets : t # s => fd'[t] = fd[t]
              /\ destination \subseteq destination' /\ bound' = bound
<1>1. NewDescriptor # Closed
  BY NewDescriptorIsFree, ClosedAssumption DEF Owned
<1>2. CASE CreateSocketFails
  BY <1>2 DEF CreateSocketFails, Throws
<1>3. CASE CreateSocket(s) /\ ~CreateSocketFails
  <2>1. fd'[s] # Closed /\ \A t \in Sockets : t # s => fd'[t] = fd[t]
    BY <1>1, <1>3 DEF CreateSocket, Typed, TypeOK
  <2>2. CASE address \in Ipv4
    BY <1>3, <2>1, <2>2, SubscribesOrThrows DEF SetDestination, Throws, Constructed
  <2>3. CASE address \notin Ipv4
    BY <1>3, <2>3 DEF SetDestination, Throws
  <2>. QED BY <2>2, <2>3
<1>. QED BY <1>2, <1>3 DEF SetDestination

\* Nothing has been built and nothing has failed at the start.
LEMMA InitProgress == Init => Progress /\ Accepting /\ Escapes
BY DEF Init, Progress, Accepting, Escapes, OnlyAddressAndTopicsEscapeValidation

\* A step of construction opens the sockets of its member.
LEMMA ConstructProgress ==
    ASSUME Typed, Owned, Progress, Construct, config' = config
    PROVE  Progress'
<1>0. /\ phase = "construct" /\ constructed \in 0 .. 8 /\ constructed \in 0 .. Len(Members)
      /\ Sockets = {"motor", "fdm", "mavlink", "rangefinder", "odometry"}
      /\ HasMavlinkOutput' = HasMavlinkOutput
  BY MembersInOrder
  DEF Typed, TypeOK, Construct, ConstructNode, ConstructVelocityConverter,
      ConstructRangefinders, ConstructOdometry, BindMotorSocket,
      ConnectFdmSocket, ConnectMavlinkSocket, Constructs, Sockets, HasMavlinkOutput
<1>1. ASSUME phase' = "unwind" PROVE Progress'
  BY <1>1 DEF Progress
<1> DEFINE Quiet == Constructed /\ NoSocket
<1>2. ASSUME Quiet, constructed \notin {5, 6}, constructed = 3 => ~HasMavlink(config.rangefinders),
             constructed = 4 => ~config.odometryEnabled,
             constructed = 7 => ~HasMavlinkOutput
      PROVE  Progress'
  BY <1>0, <1>2 DEF Progress, Ready, Constructed, NoSocket
<1>3. ASSUME NEW topics, Subscribes(topics) PROVE Constructed \/ phase' = "unwind"
  BY <1>3, SubscribesOrThrows DEF Throws
<1>4. CASE ConstructNode \/ ConstructVelocityConverter
  <2>1. constructed \in {0, 1, 2}
    BY <1>0, <1>4, ConstructsInOrder DEF ConstructNode, ConstructVelocityConverter
  <2>. QED
    BY <1>1, <1>2, <1>3, <1>4, <2>1 DEF ConstructNode, ConstructVelocityConverter, Throws
<1>5. CASE ConstructRangefinders
  <2>1. constructed = 3
    BY <1>0, <1>5, ConstructsInOrder DEF ConstructRangefinders
  <2>2. CASE HasMavlink(config.rangefinders)
    BY <1>0, <1>1, <1>5, <2>1, <2>2, SetDestinationMakesReady
    DEF ConstructRangefinders, Progress, Ready
  <2>3. CASE ~HasMavlink(config.rangefinders)
    BY <1>1, <1>2, <1>3, <1>5, <2>1, <2>3 DEF ConstructRangefinders
  <2>. QED BY <2>2, <2>3
<1>6. CASE ConstructOdometry
  <2>1. constructed = 4
    BY <1>0, <1>6, ConstructsInOrder DEF ConstructOdometry
  <2>2. CASE config.odometryEnabled
    BY <1>0, <1>1, <1>6, <2>1, <2>2, SetDestinationMakesReady
    DEF ConstructOdometry, Progress, Ready
  <2>3. CASE ~config.odometryEnabled
    BY <1>2, <1>6, <2>1, <2>3 DEF ConstructOdometry
  <2>. QED BY <2>2, <2>3
<1>7. CASE BindMotorSocket
  <2>1. constructed = 5
    BY <1>0, <1>7, ConstructsInOrder DEF BindMotorSocket
  <2>2. NewDescriptor # Closed
    BY NewDescriptorIsFree, ClosedAssumption DEF Owned
  <2>3. CASE phase' # "unwind"
    <3>1. /\ CreateSocket("motor") /\ Constructed /\ bound' = TRUE
          /\ destination' = destination
      BY <1>7, <2>3 DEF BindMotorSocket, CreateSocketFails, Throws
    <3>2. /\ fd'["motor"] # Closed
          /\ \A t \in Sockets : t # "motor" => fd'[t] = fd[t]
      BY <1>0, <2>2, <3>1 DEF CreateSocket, Typed, TypeOK
    <3>. QED BY <1>0, <2>1, <3>1, <3>2 DEF Constructed, Progress, Ready
  <2>. QED BY <1>1, <2>3
<1>8. CASE ConnectFdmSocket
  <2>1. constructed = 6
    BY <1>0, <1>8, ConstructsInOrder DEF ConnectFdmSocket
  <2>. QED
    <3>1. CASE phase' # "unwind"
      <4>1. /\ phase' = "construct" /\ constructed' = 7 /\ bound' = bound
            /\ fd'["fdm"] # Closed /\ "fdm" \in destination'
            /\ destination \subseteq destination'
            /\ \A t \in Sockets : t # "fdm" => fd'[t] = fd[t]
        BY <1>0, <1>8, <2>1, <3>1, SetDestinationMakesReady DEF ConnectFdmSocket
      <4>2. Ready("fdm")'
        BY <4>1 DEF Ready
      <4>3. /\ Ready("rangefinder") => Ready("rangefinder")'
            /\ Ready("odometry") => Ready("odometry")'
            /\ fd'["motor"] = fd["motor"]
        BY <1>0, <4>1 DEF Ready
      <4>. QED BY <1>0, <2>1, <4>1, <4>2, <4>3 DEF Progress
    <3>. QED BY <1>1, <3>1
<1>9. CASE ConnectMavlinkSocket
  <2>1. constructed = 7
    BY <1>0, <1>9, ConstructsInOrder DEF ConnectMavlinkSocket
  <2>2. CASE HasMavlinkOutput
    <3>1. CASE phase' # "unwind"
      <4>1. /\ phase' = "construct" /\ constructed' = 8 /\ bound' = bound
            /\ fd'["mavlink"] # Closed /\ "mavlink" \in destination'
            /\ destination \subseteq destination'
            /\ \A t \in Sockets : t # "mavlink" => fd'[t] = fd[t]
        BY <1>0, <1>9, <2>1, <2>2, <3>1, SetDestinationMakesReady DEF ConnectMavlinkSocket
      <4>2. Ready("mavlink")'
        BY <4>1 DEF Ready
      <4>3. /\ Ready("rangefinder") => Ready("rangefinder")'
            /\ Ready("odometry") => Ready("odometry")'
            /\ Ready("fdm") => Ready("fdm")'
            /\ fd'["motor"] = fd["motor"]
        BY <1>0, <4>1 DEF Ready
      <4>. QED BY <1>0, <2>1, <4>1, <4>2, <4>3 DEF Progress
    <3>. QED BY <1>1, <3>1
  <2>3. CASE ~HasMavlinkOutput
    BY <1>2, <1>9, <2>1, <2>3 DEF ConnectMavlinkSocket
  <2>. QED BY <2>2, <2>3
<1>. QED BY <1>3, <1>4, <1>5, <1>6, <1>7, <1>8, <1>9 DEF Construct

\* Every step keeps the sockets of the members built so far.
LEMMA ProgressStep == Typed /\ Owned /\ NotYetOpened /\ Progress /\ [Next]_vars => Progress'
<1> SUFFICES ASSUME Typed, Owned, NotYetOpened, Progress, [Next]_vars PROVE Progress' OBVIOUS
<1>0. config' = config /\ (HasMavlinkOutput' <=> HasMavlinkOutput)
  BY FileStays DEF HasMavlinkOutput
<1>1. CASE Construct
  BY <1>0, <1>1, ConstructProgress
<1>2. CASE LoadConfig
  <2>1. constructed' = 0 /\ phase' \in {"construct", "unwind"}
    BY <1>2 DEF LoadConfig, NotYetOpened
  <2>. QED BY <2>1 DEF Progress
<1>3. CASE Run
  BY <1>0, <1>3, MembersInOrder DEF Run, Progress, Ready
<1>4. CASE LeaveRun \/ Destroy
  BY <1>4 DEF LeaveRun, Destroy, Progress
<1>5. CASE \E i \in DOMAIN tcp : ConnectTcp(i) \/ CloseTcp(i)
  BY <1>0, <1>5 DEF ConnectTcp, CloseTcp, Progress, Ready
<1>6. CASE UNCHANGED vars
  BY <1>0, <1>6 DEF vars, Progress, Ready
<1>. QED BY <1>1, <1>2, <1>3, <1>4, <1>5, <1>6 DEF Next

\* A step of construction builds the next of the eight members.
LEMMA ConstructStarts ==
    Typed /\ Construct => phase = "construct" /\ constructed \in 0 .. 7
<1> SUFFICES ASSUME Typed, Construct PROVE phase = "construct" /\ constructed \in 0 .. 7
  OBVIOUS
<1>1. phase = "construct" /\ constructed < Len(Members)
  BY DEF Construct, ConstructNode, ConstructVelocityConverter, ConstructRangefinders,
         ConstructOdometry, BindMotorSocket, ConnectFdmSocket, ConnectMavlinkSocket, Constructs
<1>2. constructed \in 0 .. Len(Members) /\ Len(Members) = 8
  BY MembersInOrder DEF Typed, TypeOK
<1>. QED BY <1>1, <1>2

\* What a member subscribes to is asked of a startable configuration, and four
\* members subscribe to nothing.
LEMMA MemberTopics ==
    /\ \A n \in 0 .. 7 : Startable => TopicsOf(Members[n + 1]) \subseteq Topics
    /\ TopicsOf("velocityConverter") = {} /\ TopicsOf("motorSocket") = {}
    /\ TopicsOf("fdmSocket") = {} /\ TopicsOf("mavlinkSocket") = {}
<1>1. DOMAIN Members = 1 .. 8
  BY DEF Members
<1>. QED BY <1>1 DEF Startable, TopicsOf

\* A constructor takes its part of an accepted configuration, or throws: for an
\* address or a topic that Validate let pass, or because something outside fails.
LEMMA ConstructTakesOrThrows ==
    ASSUME Typed, Owned, Accepted(file), Construct
    PROVE  /\ phase = "construct" /\ constructed \in 0 .. 7
           /\ \/ phase' = "unwind" /\ (outside' \/ ~Startable)
              \/ /\ phase' = "construct" /\ constructed' = constructed + 1
                 /\ TopicsOf(Members[constructed + 1]) \subseteq Topics
                 /\ constructed = 6 => config.sitlAddress \in Ipv4
<1> DEFINE member == Members[constructed + 1]
           Takes == /\ phase' = "construct" /\ constructed' = constructed + 1
                    /\ TopicsOf(member) \subseteq Topics
                    /\ constructed = 6 => config.sitlAddress \in Ipv4
           Fails == phase' = "unwind" /\ (outside' \/ ~Startable)
<1>0. /\ phase = "construct" /\ constructed \in 0 .. 7 /\ constructed \in 0 .. Len(Members)
      /\ Sockets = {"motor", "fdm", "mavlink", "rangefinder", "odometry"}
  BY ConstructStarts, MembersInOrder DEF Sockets
<1>1. /\ config.mavlinkAddress \in Ipv4
      /\ ~AtMost(config.minRotorVelocity, -1)
      /\ ~AtMost(config.maxRotorVelocity, config.minRotorVelocity)
  BY DEF Accepted, Validate, ValidMotors, ValidVelocities, config
<1>2. Startable => TopicsOf(member) \subseteq Topics
  BY <1>0, MemberTopics
<1>3. ASSUME Throws(TRUE) PROVE Fails
  BY <1>3 DEF Throws
<1>4. ASSUME Constructed, TopicsOf(member) \subseteq Topics, constructed # 6 PROVE Takes
  BY <1>0, <1>4 DEF Constructed
<1>5. ASSUME Subscribes(TopicsOf(member)), constructed # 6 PROVE Takes \/ Fails
  <2>1. CASE TopicsOf(member) \subseteq Topics /\ Constructed
    BY <1>4, <1>5, <2>1
  <2>2. CASE Throws(TRUE)
    BY <1>3, <2>2
  <2>3. CASE ~(TopicsOf(member) \subseteq Topics) /\ Throws(FALSE)
    BY <1>2, <2>3 DEF Throws
  <2>. QED BY <1>5, <2>1, <2>2, <2>3, SubscribesOrThrows
<1>6. ASSUME NEW s \in Sockets, NEW topics, topics = TopicsOf(member),
             SetDestination(s, config.mavlinkAddress, topics), constructed # 6
      PROVE  Takes \/ Fails
  BY <1>0, <1>1, <1>2, <1>6, SetDestinationMakesReady
<1>7. CASE ConstructNode
  <2>1. PICK m \in {"stateSubscriber", "actuatorPublisher"} :
           Constructs(m) /\ Subscribes(TopicsOf(m))
    BY <1>7 DEF ConstructNode
  <2>2. m = member /\ constructed # 6
    BY <1>0, <2>1, ConstructsInOrder DEF Constructs
  <2>. QED BY <1>0, <1>5, <2>1, <2>2
<1>8. CASE ConstructVelocityConverter
  <2>1. constructed = 2 /\ member = "velocityConverter"
    BY <1>0, <1>8, ConstructsInOrder DEF ConstructVelocityConverter, Constructs
  <2>2. Constructed
    BY <1>1, <1>8 DEF ConstructVelocityConverter
  <2>. QED BY <1>0, <1>4, <2>1, <2>2, MemberTopics
<1>9. CASE ConstructRangefinders
  <2>1. constructed = 3 /\ member = "rangefinders"
    BY <1>0, <1>9, ConstructsInOrder DEF ConstructRangefinders, Constructs
  <2>. QED BY <1>0, <1>5, <1>6, <1>9, <2>1 DEF ConstructRangefinders
<1>10. CASE ConstructOdometry
  <2>1. constructed = 4 /\ member = "odometry"
    BY <1>0, <1>10, ConstructsInOrder DEF ConstructOdometry, Constructs
  <2>2. CASE config.odometryEnabled
    BY <1>0, <1>6, <1>10, <2>1, <2>2 DEF ConstructOdometry
  <2>3. CASE ~config.odometryEnabled
    <3>1. TopicsOf("odometry") = {} /\ Constructed
      BY <1>10, <2>3 DEF ConstructOdometry, TopicsOf
    <3>. QED BY <1>0, <1>4, <2>1, <3>1
  <2>. QED BY <2>2, <2>3
<1>11. CASE BindMotorSocket
  <2>1. constructed = 5 /\ member = "motorSocket"
    BY <1>0, <1>11, ConstructsInOrder DEF BindMotorSocket, Constructs
  <2>2. Constructed \/ Throws(TRUE)
    BY <1>11 DEF BindMotorSocket, CreateSocketFails
  <2>3. TopicsOf(member) \subseteq Topics
    BY <2>1, MemberTopics
  <2>4. CASE Constructed
    BY <1>0, <1>4, <2>1, <2>3, <2>4
  <2>5. CASE Throws(TRUE)
    BY <1>0, <1>3, <2>5
  <2>. QED BY <2>2, <2>4, <2>5
<1>12. CASE ConnectFdmSocket
  <2>1. constructed = 6 /\ member = "fdmSocket"
    BY <1>0, <1>12, ConstructsInOrder DEF ConnectFdmSocket, Constructs
  <2>2. SetDestination("fdm", config.sitlAddress, {}) /\ "fdm" \in Sockets
    BY <1>0, <1>12 DEF ConnectFdmSocket
  <2>3. \/ phase' = "unwind" /\ (outside' \/ config.sitlAddress \notin Ipv4)
        \/ /\ phase' = "construct" /\ constructed' = constructed + 1
           /\ config.sitlAddress \in Ipv4
    <3>1. {} \subseteq Topics
      OBVIOUS
    <3>. QED BY <1>0, <2>2, <3>1, SetDestinationMakesReady
  <2>. QED BY <1>0, <2>1, <2>3, MemberTopics DEF Startable
<1>13. CASE ConnectMavlinkSocket
  <2>1. constructed = 7 /\ member = "mavlinkSocket" /\ TopicsOf(member) = {}
    BY <1>0, <1>13, ConstructsInOrder, MemberTopics DEF ConnectMavlinkSocket, Constructs
  <2>2. CASE HasMavlinkOutput
    <3>1. SetDestination("mavlink", config.mavlinkAddress, {}) /\ "mavlink" \in Sockets
      BY <1>0, <1>13, <2>2 DEF ConnectMavlinkSocket
    <3>2. {} = TopicsOf(member) /\ constructed # 6
      BY <2>1
    <3>3. Takes \/ Fails
      BY <1>6, <3>1, <3>2
    <3>. QED BY <1>0, <3>3
  <2>3. CASE ~HasMavlinkOutput
    BY <1>0, <1>4, <1>13, <2>1, <2>3 DEF ConnectMavlinkSocket
  <2>. QED BY <2>2, <2>3
<1>. QED
  BY <1>0, <1>7, <1>8, <1>9, <1>10, <1>11, <1>12, <1>13 DEF Construct

\* The configuration that is asked for does not change.
LEMMA StartableStays ==
    [Next]_vars => /\ Startable' = Startable /\ (Accepted(file))' = Accepted(file)
                   /\ \A n \in Nat : (TopicsOf(Members[n]))' = TopicsOf(Members[n])
BY FileStays DEF Startable, TopicsOf

\* Every step keeps what the members so far took.
LEMMA AcceptingStep ==
    Typed /\ Owned /\ NotYetOpened /\ Accepting /\ Escapes /\ [Next]_vars => Accepting'
<1> SUFFICES ASSUME Typed, Owned, NotYetOpened, Accepting, Escapes, [Next]_vars
             PROVE  Accepting'
  OBVIOUS
<1>0. /\ config' = config
      /\ \A n \in Nat : (TopicsOf(Members[n]))' = TopicsOf(Members[n])
  BY FileStays, StartableStays
<1>1. CASE Construct
  <2>1. phase = "construct" /\ constructed \in 0 .. 7
    BY <1>1, ConstructStarts
  <2>2. CASE phase' = "unwind"
    BY <2>2 DEF Accepting
  <2>3. CASE phase' # "unwind"
    <3>1. /\ constructed' = constructed + 1 /\ TopicsOf(Members[constructed + 1]) \subseteq Topics
          /\ constructed = 6 => config.sitlAddress \in Ipv4
      BY <1>1, <2>1, <2>3, ConstructTakesOrThrows DEF Escapes
    <3>2. \A n \in 1 .. constructed : TopicsOf(Members[n]) \subseteq Topics
      BY <2>1 DEF Accepting
    <3>3. \A n \in 1 .. constructed + 1 : TopicsOf(Members[n]) \subseteq Topics
      BY <2>1, <3>1, <3>2
    <3>4. \A n \in 1 .. constructed' : (TopicsOf(Members[n]))' \subseteq Topics
      BY <1>0, <2>1, <3>1, <3>3
    <3>5. constructed' >= 7 => config'.sitlAddress \in Ipv4
      BY <1>0, <2>1, <3>1 DEF Accepting
    <3>. QED BY <3>4, <3>5 DEF Accepting
  <2>. QED BY <2>2, <2>3
<1>2. CASE LoadConfig
  <2>1. constructed' = 0
    BY <1>2 DEF LoadConfig, NotYetOpened
  <2>. QED BY <2>1 DEF Accepting
<1>3. CASE UNCHANGED constructed /\ (phase' \in {"construct", "run"} => phase \in {"construct", "run"})
  <2>1. ASSUME phase' \in {"construct", "run"}
        PROVE  /\ \A n \in 1 .. constructed' : (TopicsOf(Members[n]))' \subseteq Topics
               /\ constructed' >= 7 => config'.sitlAddress \in Ipv4
    BY <1>0, <1>3, <2>1 DEF Accepting
  <2>. QED BY <2>1 DEF Accepting
<1>4. CASE Destroy
  BY <1>4 DEF Destroy, Accepting
<1>5. Run \/ LeaveRun \/ (\E i \in DOMAIN tcp : ConnectTcp(i) \/ CloseTcp(i)) \/ UNCHANGED vars
        => /\ UNCHANGED constructed
           /\ phase' \in {"construct", "run"} => phase \in {"construct", "run"}
  BY DEF Run, LeaveRun, ConnectTcp, CloseTcp, vars
<1>. QED BY <1>1, <1>2, <1>3, <1>4, <1>5 DEF Next

\* Every step keeps the failures of accepted files to the address, the topics
\* or the outside.
LEMMA EscapesStep ==
    Typed /\ Owned /\ Progress /\ Accepting /\ Escapes /\ [Next]_vars => Escapes'
<1> SUFFICES ASSUME Typed, Owned, Progress, Accepting, Escapes, [Next]_vars PROVE Escapes'
  OBVIOUS
<1>0. Startable' = Startable /\ (Accepted(file))' = Accepted(file)
  BY StartableStays
<1>1. CASE Construct
  <2>1. phase = "construct" /\ Accepted(file) /\ ran' = ran
    BY <1>1
    DEF Escapes, Construct, ConstructNode, ConstructVelocityConverter,
        ConstructRangefinders, ConstructOdometry, BindMotorSocket,
        ConnectFdmSocket, ConnectMavlinkSocket, Constructs
  <2>2. phase' = "construct" \/ (phase' = "unwind" /\ (outside' \/ ~Startable))
    BY <1>1, <2>1, ConstructTakesOrThrows
  <2>. QED
    BY <1>0, <2>1, <2>2 DEF Escapes, OnlyAddressAndTopicsEscapeValidation
<1>2. CASE LoadConfig
  BY <1>0, <1>2 DEF LoadConfig, Escapes, OnlyAddressAndTopicsEscapeValidation
<1>3. CASE Run
  <2>1. phase = "construct" /\ constructed = 8 /\ phase' = "run" /\ ran'
    BY <1>3, MembersInOrder DEF Run
  <2>2. Accepted(file) /\ Startable
    <3>1. DOMAIN Members = 1 .. 8
      BY DEF Members
    <3>. QED BY <2>1, <3>1 DEF Accepting, Escapes, Startable
  <2>. QED BY <1>0, <2>1, <2>2 DEF Escapes, OnlyAddressAndTopicsEscapeValidation
<1>4. CASE LeaveRun
  BY <1>0, <1>4 DEF LeaveRun, Escapes, OnlyAddressAndTopicsEscapeValidation
<1>5. CASE Destroy
  BY <1>0, <1>5 DEF Destroy, Escapes, OnlyAddressAndTopicsEscapeValidation
<1>6. CASE \E i \in DOMAIN tcp : ConnectTcp(i) \/ CloseTcp(i)
  BY <1>0, <1>6 DEF ConnectTcp, CloseTcp, Escapes, OnlyAddressAndTopicsEscapeValidation
<1>7. CASE UNCHANGED vars
  BY <1>0, <1>7 DEF vars, Escapes, OnlyAddressAndTopicsEscapeValidation
<1>. QED BY <1>1, <1>2, <1>3, <1>4, <1>5, <1>6, <1>7 DEF Next

\* What construction leaves behind is there in every state.
LEMMA ConstructionHolds == Spec => [](Progress /\ Escapes)
<1>1. (Typed /\ Owned /\ NotYetOpened) /\ (Progress /\ Accepting /\ Escapes) /\ [Next]_vars
        => (Progress /\ Accepting /\ Escapes)'
  BY ProgressStep, AcceptingStep, EscapesStep
<1>. QED BY <1>1, InitProgress, OwnersHold, PTL DEF Spec

\* Whatever the configuration enables, Run finds the sockets it uses open, bound
\* and with their destinations, although who opens which is decided in three
\* places (the constructors of RangefinderManager, OdometryManager and BridgeApp).
THEOREM SocketsAreReady == Spec => []RunFindsItsSockets
<1>1. Progress => RunFindsItsSockets
  <2> SUFFICES ASSUME Progress, phase = "run" PROVE RunFindsItsSockets
    BY DEF RunFindsItsSockets
  <2>1. HasMavlink(config.rangefinders) <=>
          \E i \in DOMAIN config.rangefinders :
             /\ config.rangefinders[i].enabled
             /\ config.rangefinders[i].output = "mavlink"
    BY DEF HasMavlink, Enabled
  <2>. QED BY <2>1 DEF Progress, Ready, HasMavlinkOutput, RunFindsItsSockets
<1>. QED BY <1>1, ConstructionHolds, PTL

\* Of all the values the constructors look at, only sitl.address and the topics
\* in use can make one throw in a file that Validate accepts, and every one that
\* can does (ConfigLoader::Validate, BridgeApp::BridgeApp).
THEOREM ValidFilesStart == Spec => []OnlyAddressAndTopicsEscapeValidation
<1>1. Escapes => OnlyAddressAndTopicsEscapeValidation BY DEF Escapes
<1>. QED BY <1>1, ConstructionHolds, PTL
=============================================================================
