--------------------------------- MODULE Mesh ---------------------------------
(***************************************************************************)
(* The deployment that every level of the uplink is about: which nodes     *)
(* there are, where they route to, and the payloads they start with.       *)
(***************************************************************************)
EXTENDS Naturals, Sequences

CONSTANTS
  C2,              \* the battery-powered mesh nodes: they originate and relay
  C3,              \* the gateways, where payloads end
  NextHop,         \* [C2 -> C2 \cup C3], the routing of the topology file
  InitialPayloads  \* RRC_UPLINK_initialnbPayload, payloads queued at start

Nodes == C2 \cup C3

(* A payload is named by its originator and its rank there.                *)
Payload == C2 \X (1..InitialPayloads)

ASSUME RoutingAssumption ==
  /\ C2 \cap C3 = {}
  /\ NextHop \in [C2 -> Nodes]

ASSUME InitialPayloadsAssumption == InitialPayloads \in Nat
===============================================================================
