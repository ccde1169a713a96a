---------------------------- MODULE MCUplinkSites -----------------------------
(***************************************************************************)
(* RrcUplink on five deployments that each bring out a different hardship, *)
(* chosen once and for all in the initial state (variable `site`).  The    *)
(* line, the simplest deployment, has a module of its own, MCRrcUplink.    *)
(***************************************************************************)
EXTENDS Integers, Sequences, FiniteSets

CONSTANTS g, a, b, c, d,  \* g is the gateway
          NoAck

VARIABLES
  site,            \* the deployment
  step, transitions, communications, rescheduled, starts, ends, heard,
  nodeState, ack, received, isACKSlot, category, isTransmitting, slots, queue,
  localId, isExpectingAck, secondSleepWindow, delivered  \* as in RrcUplink

Symmetric(links) == links \cup {<<l[2], l[1]>> : l \in links}

WideId == 65536  \* 2^16, the width of a local id

(* The nodes are five, and the mark of an empty AckInformation is none.    *)
ASSUME SitesAssumption ==
  /\ g \notin {a, b, c, d} /\ a \notin {b, c, d} /\ b \notin {c, d} /\ c # d
  /\ NoAck \notin [to : {a, b, c, d}, id : 0..WideId-1]

(* The instances are of the module with the proofs, so that its theorems   *)
(* are theorems of each deployment.                                        *)

(* Two nodes that collide at the gateway: a -> g, b -> g.                  *)
Star == INSTANCE RrcUplinkProofs WITH
  C2 <- {a, b}, C3 <- {g}, NextHop <- [n \in {a, b} |-> g],
  HopCount <- [n \in {a, b} |-> 1], Reach <- Symmetric({<<a, g>>, <<b, g>>}),
  InitialPayloads <- 3, NodeSlots <- 3, TotalSlots <- 5, IdMod <- WideId

(* Two children that collide at their relay: b -> a -> g, c -> a -> g.     *)
Tree == INSTANCE RrcUplinkProofs WITH
  C2 <- {a, b, c}, C3 <- {g},
  NextHop <- [n \in {a, b, c} |-> IF n = a THEN g ELSE a],
  HopCount <- [n \in {a, b, c} |-> IF n = a THEN 1 ELSE 2],
  Reach <- Symmetric({<<a, g>>, <<b, a>>, <<c, a>>}),
  InitialPayloads <- 2, NodeSlots <- 2, TotalSlots <- 3, IdMod <- WideId

(* Four hops, the first and the last in one data slot category:            *)
(* d -> c -> b -> a -> g.                                                  *)
Chain == INSTANCE RrcUplinkProofs WITH
  C2 <- {a, b, c, d}, C3 <- {g},
  NextHop <- [n \in {a, b, c, d} |->
                CASE n = a -> g [] n = b -> a [] n = c -> b [] n = d -> c],
  HopCount <- [n \in {a, b, c, d} |->
                 CASE n = a -> 1 [] n = b -> 2 [] n = c -> 3 [] n = d -> 4],
  Reach <- Symmetric({<<a, g>>, <<b, a>>, <<c, b>>, <<d, c>>}),
  InitialPayloads <- 1, NodeSlots <- 2, TotalSlots <- 3, IdMod <- WideId

(* The link a -> b works one way only: while a acknowledges its child c,   *)
(* g acknowledges b, and b hears both.  The distance rule of PhyLayer      *)
(* gives no such reach; the handlers are written for the lost              *)
(* acknowledgements it causes ("ack can be lost",                          *)
(* C2_RRC_UplinkHandler.cpp:55).                                           *)
OneWay == INSTANCE RrcUplinkProofs WITH
  C2 <- {a, b, c}, C3 <- {g},
  NextHop <- [n \in {a, b, c} |-> IF n = c THEN a ELSE g],
  HopCount <- [n \in {a, b, c} |-> IF n = a THEN 1 ELSE 2],
  Reach <- Symmetric({<<a, g>>, <<b, g>>, <<c, a>>}) \cup {<<a, b>>},
  InitialPayloads <- 1, NodeSlots <- 2, TotalSlots <- 3, IdMod <- WideId

(* Two hops with local ids of one bit, b -> a -> g: the counters reach the *)
(* end of the field after two packets.                                     *)
NarrowId == INSTANCE RrcUplinkProofs WITH
  C2 <- {a, b}, C3 <- {g}, NextHop <- [n \in {a, b} |-> IF n = a THEN g ELSE a],
  HopCount <- [n \in {a, b} |-> IF n = a THEN 1 ELSE 2],
  Reach <- Symmetric({<<a, g>>, <<b, a>>}),
  InitialPayloads <- 2, NodeSlots <- 2, TotalSlots <- 3, IdMod <- 2

Init ==
  \/ site = "star" /\ Star!Init
  \/ site = "tree" /\ Tree!Init
  \/ site = "chain" /\ Chain!Init
  \/ site = "one way" /\ OneWay!Init
  \/ site = "narrow id" /\ NarrowId!Init

Next ==
  /\ UNCHANGED site
  /\ \/ site = "star" /\ Star!Next
     \/ site = "tree" /\ Tree!Next
     \/ site = "chain" /\ Chain!Next
     \/ site = "one way" /\ OneWay!Next
     \/ site = "narrow id" /\ NarrowId!Next

vars == <<site, Star!vars>>

Spec == Init /\ [][Next]_vars

-------------------------------------------------------------------------------
(* Where reach is symmetric, every acknowledgement reaches its addressee   *)
(* awake and undisturbed, so a data packet once received is never sent     *)
(* again; shown where data packets collide and where nodes four hops apart *)
(* share a data window (AckAlwaysHeard of RrcUplink).                      *)
AcksHeard ==
  /\ site = "star" => Star!AckAlwaysHeard
  /\ site = "tree" => Tree!AckAlwaysHeard
  /\ site = "chain" => Chain!AckAlwaysHeard

(* Collisions, lost acknowledgements and retransmissions under a counter   *)
(* cut to its field neither lose nor duplicate a payload, and the two ends *)
(* of every link agree up to the packet in transit.                        *)
OnceOnEverySite ==
  /\ site = "star" => Star!ExactlyOnce /\ Star!LinkAgreement
  /\ site = "tree" => Tree!ExactlyOnce /\ Tree!LinkAgreement
  /\ site = "chain" => Chain!ExactlyOnce /\ Chain!LinkAgreement
  /\ site = "one way" => OneWay!ExactlyOnce /\ OneWay!LinkAgreement
  /\ site = "narrow id" => NarrowId!ExactlyOnce /\ NarrowId!LinkAgreement

(* A relay that merges the traffic of two children with its own keeps each *)
(* originator's payloads in order, up to the gateway.                      *)
InOrderThroughRelay == site = "tree" => Tree!FifoPerOrigin

(* While a node owes an acknowledgement its addressee still waits, for     *)
(* exactly that packet, even when acknowledgements are lost in between;    *)
(* and every acknowledgement in the air is for that packet.                *)
AnswersAreAwaited ==
  /\ site = "one way" => OneWay!OwedIsAwaited /\ OneWay!NoStaleAck
  /\ site = "chain" => Chain!OwedIsAwaited /\ Chain!NoStaleAck

(* A node that lost its packet to a collision, or whose acknowledgement    *)
(* was lost, waits for it until the end of that cycle's ACK window and no  *)
(* longer, and never in a cycle in which it owes one (WaitsWithinOneCycle  *)
(* of RrcUplink).                                                          *)
GivesUpInTime ==
  /\ site = "star" => Star!WaitsWithinOneCycle
  /\ site = "tree" => Tree!WaitsWithinOneCycle
  /\ site = "one way" => OneWay!WaitsWithinOneCycle
===============================================================================
