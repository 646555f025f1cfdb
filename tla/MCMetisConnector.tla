---------------------------- MODULE MCMetisConnector ----------------------------
(* Streams of the forwarder, and what a library may report, for TLC. *)
EXTENDS MetisConnector

Packet(length, kind) == [length |-> length, kind |-> kind]

Mixed == <<Packet(3, "data"), Packet(4, "data"), Packet(3, "control"), Packet(3, "data"),
           Packet(3, "alien")>>
OnePacket == <<Packet(3, "data")>>

AnyReport   == {{"Write"}, {"Read"}, {"Read", "Write"}}
WriteReport == {{"Write"}}
=============================================================================
