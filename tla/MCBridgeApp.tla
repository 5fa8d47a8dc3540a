---------------------------- MODULE MCBridgeApp ----------------------------
(* Instances of BridgeApp for TLC: the map of config/bridge.yaml, a throttle *)
(* of 2 units and one or four datagrams.                                     *)
EXTENDS BridgeApp

ShippedMap == [r \in Motors |-> (r + 1) % 4]

PacketSize == 16

Packet(m2, m3, m4, m1) ==
    [size |-> PacketSize,
     motors |-> [m \in Motors |-> CASE m = 0 -> m2 [] m = 1 -> m3
                                    [] m = 2 -> m4 [] OTHER -> m1]]

Low == Packet(0, 1, 1, 2)
\* A negative value, and one beyond full throttle.
OutOfRange == Packet(-3, 2, 3, 1)
WithNaN == Packet(2, NotFinite, 2, 2)
Truncated == [Low EXCEPT !.size = PacketSize - 1]

MotorDatagrams == {Low, OutOfRange, WithNaN, Truncated}
OneDatagram == {Low}
=============================================================================
