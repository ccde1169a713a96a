------------------------------ MODULE PacketFormats ------------------------------
(***************************************************************************)
(* The packets between the simulator and the GUI.  Each side has a         *)
(* Packets.hpp and a Packets.cpp of its own; "this class should be         *)
(* identical" says the one, and nothing but care makes it so.              *)
(*                                                                         *)
(* A packet on the wire is a sequence of values: the type, the fields in   *)
(* the order of operator<<, and for some a number of elements with the     *)
(* fields of each.  (The optional of a state packet is a sequence of at    *)
(* most one, its flag the length.)  The type is taken off by the receiver  *)
(* to find the handler, and operator>> reads on from there; it stops       *)
(* where its own list of fields ends.                                      *)
(***************************************************************************)
EXTENDS Integers, Sequences

-------------------------------------------------------------------------------
(* Telemetry: written by the simulator, read by the GUI.                   *)

(* The members of the simulator's classes, in no order.                    *)
TelemetryMembers ==
  [tick |-> {"tickNb"}, state |-> {"nodeId", "state"},
   position |-> {"nodeId", "x", "y", "classNode", "batteryLevel", "hopCount"},
   transmit |-> {"senderId", "receiverId", "isACK"},
   endTransmission |-> {"senderId", "receiverId"},
   receive |-> {"senderId", "receiverId", "state"},
   routing |-> {"receiverId", "senderId", "newRoute"},
   broadcast |-> {"nodeId"}, drop |-> {"nodeId"},
   retransmission |-> {"nodeId"}, stopSimulation |-> {"nodeId"},
   nodeMetrics |-> {"tickNb", "nodeId", "totalPacketsSent", "totalAcksReceived"},
   latency |-> {"tickNb", "nodeId"}, energy |-> {"tickNb", "nodeId"}]

(* What the constructors put into type.                                    *)
TelemetryType ==
  [tick |-> 1, state |-> 2, position |-> 3, transmit |-> 4, receive |-> 5,
   routing |-> 6, broadcast |-> 7, drop |-> 8, retransmission |-> 9,
   stopSimulation |-> 10, endTransmission |-> 11, nodeMetrics |-> 12,
   latency |-> 13, energy |-> 14]

TelemetryWritten ==
  [tick |-> <<"tickNb">>, state |-> <<"nodeId", "state">>,
   position |-> <<"nodeId", "classNode", "x", "y", "batteryLevel", "hopCount">>,
   transmit |-> <<"senderId", "receiverId", "isACK">>,
   endTransmission |-> <<"senderId", "receiverId">>,
   receive |-> <<"senderId", "receiverId", "state">>,
   routing |-> <<"receiverId", "senderId", "newRoute">>,
   broadcast |-> <<"nodeId">>, drop |-> <<"nodeId">>,
   retransmission |-> <<"nodeId">>, stopSimulation |-> <<"nodeId">>,
   nodeMetrics |-> <<"tickNb", "nodeId", "totalPacketsSent", "totalAcksReceived">>,
   latency |-> <<"tickNb", "nodeId">>, energy |-> <<"tickNb", "nodeId">>]

ElementsWritten ==
  [state |-> <<"isCommunicatingAck">>,
   latency |-> <<"packetId", "latency_ms", "originTimestamp", "deliveryTimestamp">>,
   energy |-> <<"tick", "energy">>]

(* PacketHandler::handlePacket: the handler for each type.                 *)
TelemetryHandler ==
  <<"tick", "state", "position", "transmit", "receive", "routing", "broadcast",
    "drop", "retransmission", "stopSimulation", "endTransmission",
    "nodeMetrics", "latency", "energy">>

TelemetryRead ==
  [tick |-> <<"tickNb">>, state |-> <<"nodeId", "state">>,
   position |-> <<"nodeId", "classNode", "x", "y", "batteryLevel", "hopCount">>,
   transmit |-> <<"senderId", "receiverId", "isACK">>,
   endTransmission |-> <<"senderId", "receiverId">>,
   receive |-> <<"senderId", "receiverId", "state">>,
   routing |-> <<"receiverId", "senderId", "newRoute">>,
   broadcast |-> <<"nodeId">>, drop |-> <<"nodeId">>,
   retransmission |-> <<"nodeId">>, stopSimulation |-> <<"nodeId">>,
   nodeMetrics |-> <<"tickNb", "nodeId", "totalPacketsSent", "totalAcksReceived">>,
   latency |-> <<"tickNb", "nodeId">>, energy |-> <<"tickNb", "nodeId">>]

ElementsRead ==
  [state |-> <<"isCommunicatingAck">>,
   latency |-> <<"packetId", "latency_ms", "originTimestamp", "deliveryTimestamp">>,
   energy |-> <<"tick", "energy">>]

(* The members of the GUI's copy of the classes.                           *)
TelemetryMembersRead ==
  [tick |-> {"tickNb"}, state |-> {"nodeId", "state"},
   position |-> {"nodeId", "x", "y", "classNode", "batteryLevel", "hopCount"},
   transmit |-> {"senderId", "receiverId", "isACK"},
   endTransmission |-> {"senderId", "receiverId"},
   receive |-> {"senderId", "receiverId", "state"},
   routing |-> {"receiverId", "senderId", "newRoute"},
   broadcast |-> {"nodeId"}, drop |-> {"nodeId"},
   retransmission |-> {"nodeId"}, stopSimulation |-> {"nodeId"},
   nodeMetrics |-> {"tickNb", "nodeId", "totalPacketsSent", "totalAcksReceived"},
   latency |-> {"tickNb", "nodeId"}, energy |-> {"tickNb", "nodeId"}]

-------------------------------------------------------------------------------
(* Commands: written by the GUI, read by the simulator.  A pong is the     *)
(* answer to a ping, and goes the other way.                               *)

CommandMembers ==
  [launch |-> {"distanceThreshold", "topologyString", "scenarioType", "maxSimulationTimeMs"},
   stop |-> {}, resume |-> {}, ping |-> {}, restart |-> {}, pause |-> {}]

CommandType ==
  [launch |-> 100, stop |-> 101, resume |-> 102, ping |-> 103, restart |-> 105,
   pause |-> 106]

CommandWritten ==
  [launch |-> <<"distanceThreshold", "topologyString", "scenarioType", "maxSimulationTimeMs">>,
   stop |-> <<>>, resume |-> <<>>, ping |-> <<>>, restart |-> <<>>, pause |-> <<>>]

(* CommandDispatcher::onCommand: the callback for each type; a pong would  *)
(* be unknown.                                                             *)
CommandHandler ==
  [t \in {100, 101, 102, 103, 105, 106} |->
     <<"launch", "stop", "resume", "ping", "unknown", "restart", "pause">>[t - 99]]

(* The simulator's copy has no time limit.                                 *)
CommandMembersRead ==
  [launch |-> {"distanceThreshold", "topologyString", "scenarioType"},
   stop |-> {}, resume |-> {}, ping |-> {}, restart |-> {}, pause |-> {}]

CommandRead ==
  [launch |-> <<"distanceThreshold", "topologyString", "scenarioType">>,
   stop |-> <<>>, resume |-> <<>>, ping |-> <<>>, restart |-> <<>>, pause |-> <<>>]

-------------------------------------------------------------------------------
(* The operators << and >>.                                                *)

WriteFields(fields, p) == [i \in DOMAIN fields |-> p[fields[i]]]

Names(fields) == {fields[i] : i \in DOMAIN fields}

Place(fields, f) == CHOOSE i \in DOMAIN fields : fields[i] = f

(* The fields that follow the first "at" values of the wire.               *)
ReadFields(fields, wire, at) == [f \in Names(fields) |-> wire[at + Place(fields, f)]]

WriteElements(fields, v) ==
  LET width == Len(fields)
  IN [k \in 1 .. Len(v) * width |-> v[((k - 1) \div width) + 1][fields[((k - 1) % width) + 1]]]

ReadElements(fields, wire, at) ==
  [i \in 1 .. wire[at + 1] |-> ReadFields(fields, wire, at + 1 + (i - 1) * Len(fields))]

WriteTelemetry(kind, p) ==
  <<TelemetryType[kind]>> \o WriteFields(TelemetryWritten[kind], p)

ReadTelemetry(kind, wire) == ReadFields(TelemetryRead[kind], wire, 1)

WriteList(kind, p, v) ==
  WriteTelemetry(kind, p) \o <<Len(v)>> \o WriteElements(ElementsWritten[kind], v)

ReadList(kind, wire) ==
  ReadElements(ElementsRead[kind], wire, 1 + Len(TelemetryRead[kind]))

WriteCommand(kind, p) ==
  <<CommandType[kind]>> \o WriteFields(CommandWritten[kind], p)

ReadCommand(kind, wire) == ReadFields(CommandRead[kind], wire, 1)
===============================================================================
