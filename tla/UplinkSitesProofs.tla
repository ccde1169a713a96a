--------------------------- MODULE UplinkSitesProofs ---------------------------
(***************************************************************************)
(* The five deployments of MCUplinkSites meet the assumptions of the       *)
(* general theorems of RrcUplinkProofs, so what those say of every mesh    *)
(* holds of the behaviours of each deployment.                             *)
(***************************************************************************)
EXTENDS MCUplinkSites, TLAPS

(* Links used in both directions can be used in both directions.           *)
LEMMA SymmetricBothWays ==
  ASSUME NEW links, NEW N, links \subseteq N \X N
  PROVE  /\ Symmetric(links) \subseteq N \X N
         /\ \A p, q : <<p, q>> \in Symmetric(links) => <<q, p>> \in Symmetric(links)
         /\ \A p : <<p, p>> \in Symmetric(links) => <<p, p>> \in links
BY DEF Symmetric

-------------------------------------------------------------------------------
(* The star: two nodes that collide at the gateway.                        *)
StarInv ==
  /\ Star!AckAlwaysHeard
  /\ Star!ExactlyOnce
  /\ Star!LinkAgreement
  /\ Star!WaitsWithinOneCycle

LEMMA StarAssumptions ==
  /\ Star!RoutingAssumption /\ Star!TopologyAssumption /\ Star!SizeAssumption
  /\ Star!InitialPayloadsAssumption
  /\ Star!SymmetricReach
<1>. DEFINE links == {<<a, g>>, <<b, g>>}
            nodes == {a, b} \cup {g}
<1>1. links \subseteq nodes \X nodes /\ \A p : <<p, p>> \notin links
  BY SitesAssumption
<1>2. /\ Symmetric(links) \subseteq nodes \X nodes
      /\ \A p, q : <<p, q>> \in Symmetric(links) => <<q, p>> \in Symmetric(links)
      /\ \A p : <<p, p>> \notin Symmetric(links)
  BY <1>1, SymmetricBothWays
<1>3. Star!SymmetricReach
  BY <1>2 DEF Star!SymmetricReach, Star!Nodes
<1>4. Star!TopologyAssumption
  BY <1>2 DEF Star!TopologyAssumption, Star!Nodes
<1>5. Star!RoutingAssumption
  BY SitesAssumption DEF Star!RoutingAssumption, Star!Nodes
<1>6. Star!SizeAssumption
  <2>1. NoAck \notin Star!AckInfo
    BY SitesAssumption DEF Star!AckInfo
  <2>. QED BY <2>1 DEF Star!SizeAssumption, WideId
<1>7. Star!InitialPayloadsAssumption
  BY DEF Star!InitialPayloadsAssumption
<1>. QED BY <1>3, <1>4, <1>5, <1>6, <1>7

LEMMA StarCorrect == Star!Spec => []StarInv
<1>1. Star!Spec => []Star!AckAlwaysHeard
  BY StarAssumptions, Star!AcksAlwaysHeard
<1>2. Star!Spec => []Star!ExactlyOnce
  BY StarAssumptions, Star!ExactlyOnceCorrect
<1>3. Star!Spec => [](Star!LinkAgreement /\ Star!DataIsHead)
  BY StarAssumptions, Star!LinkCorrect
<1>4. Star!Spec => [](Star!AckBeforeNextData /\ Star!WaitsWithinOneCycle)
  BY StarAssumptions, Star!CycleCorrect
<1>. QED BY <1>1, <1>2, <1>3, <1>4, PTL DEF StarInv

LEMMA StarRuns == Spec /\ site = "star" => [](site = "star" /\ StarInv)
<1>1. Init /\ site = "star" => Star!Init
  BY DEF Init
<1>2. [Next]_vars /\ site = "star" => (site = "star")' /\ [Star!Next]_Star!vars
  BY DEF Next, vars
<1>. QED BY <1>1, <1>2, StarCorrect, PTL DEF Spec, Star!Spec

-------------------------------------------------------------------------------
(* The tree: two children that collide at their relay.                     *)
TreeInv ==
  /\ Tree!AckAlwaysHeard
  /\ Tree!ExactlyOnce
  /\ Tree!LinkAgreement
  /\ Tree!FifoPerOrigin
  /\ Tree!WaitsWithinOneCycle

LEMMA TreeAssumptions ==
  /\ Tree!RoutingAssumption /\ Tree!TopologyAssumption /\ Tree!SizeAssumption
  /\ Tree!InitialPayloadsAssumption
  /\ Tree!SymmetricReach
  /\ Tree!Acyclic
<1>. DEFINE links == {<<a, g>>, <<b, a>>, <<c, a>>}
            nodes == {a, b, c} \cup {g}
<1>1. links \subseteq nodes \X nodes /\ \A p : <<p, p>> \notin links
  BY SitesAssumption
<1>2. /\ Symmetric(links) \subseteq nodes \X nodes
      /\ \A p, q : <<p, q>> \in Symmetric(links) => <<q, p>> \in Symmetric(links)
      /\ \A p : <<p, p>> \notin Symmetric(links)
  BY <1>1, SymmetricBothWays
<1>3. Tree!SymmetricReach
  BY <1>2 DEF Tree!SymmetricReach, Tree!Nodes
<1>4. Tree!TopologyAssumption
  BY <1>2 DEF Tree!TopologyAssumption, Tree!Nodes
<1>5. Tree!RoutingAssumption
  BY SitesAssumption DEF Tree!RoutingAssumption, Tree!Nodes
<1>6. Tree!SizeAssumption
  <2>1. NoAck \notin Tree!AckInfo
    BY SitesAssumption DEF Tree!AckInfo
  <2>. QED BY <2>1 DEF Tree!SizeAssumption, WideId
<1>7. Tree!InitialPayloadsAssumption
  BY DEF Tree!InitialPayloadsAssumption
<1>8. Tree!Acyclic
  <2>. SUFFICES ASSUME NEW n \in {a, b, c}
                PROVE  n \notin Tree!Path(IF n = a THEN g ELSE a)
    BY DEF Tree!Acyclic
  <2>1. CASE n = a
    <3>. DEFINE after == {g}
    <3>1. after \in SUBSET Tree!Nodes /\ g \in after /\ after \cap {a, b, c} = {} /\ n \notin after
      BY SitesAssumption, <2>1 DEF Tree!Nodes
    <3>. QED BY <2>1, <3>1 DEF Tree!Path
  <2>2. CASE n # a
    <3>. DEFINE after == {a, g}
    <3>1. after \in SUBSET Tree!Nodes /\ a \in after /\ n \notin after
      BY SitesAssumption, <2>2 DEF Tree!Nodes
    <3>2. \A k \in after \cap {a, b, c} : (IF k = a THEN g ELSE a) \in after
      BY SitesAssumption
    <3>. QED BY <2>2, <3>1, <3>2 DEF Tree!Path
  <2>. QED BY <2>1, <2>2
<1>. QED BY <1>3, <1>4, <1>5, <1>6, <1>7, <1>8

LEMMA TreeCorrect == Tree!Spec => []TreeInv
<1>1. Tree!Spec => []Tree!AckAlwaysHeard
  BY TreeAssumptions, Tree!AcksAlwaysHeard
<1>2. Tree!Spec => []Tree!ExactlyOnce
  BY TreeAssumptions, Tree!ExactlyOnceCorrect
<1>3. Tree!Spec => [](Tree!LinkAgreement /\ Tree!DataIsHead)
  BY TreeAssumptions, Tree!LinkCorrect
<1>4. Tree!Spec => []Tree!FifoPerOrigin
  BY TreeAssumptions, Tree!FifoCorrect
<1>5. Tree!Spec => [](Tree!AckBeforeNextData /\ Tree!WaitsWithinOneCycle)
  BY TreeAssumptions, Tree!CycleCorrect
<1>. QED BY <1>1, <1>2, <1>3, <1>4, <1>5, PTL DEF TreeInv

LEMMA TreeRuns == Spec /\ site = "tree" => [](site = "tree" /\ TreeInv)
<1>1. Init /\ site = "tree" => Tree!Init
  BY DEF Init
<1>2. [Next]_vars /\ site = "tree" => (site = "tree")' /\ [Tree!Next]_Tree!vars
  BY DEF Next, vars, Star!vars, Star!clockVars, Star!airVars, Star!windowVars, Star!linkVars,
     Star!retryVars, Tree!vars, Tree!clockVars, Tree!airVars, Tree!windowVars, Tree!linkVars, Tree!retryVars
<1>. QED BY <1>1, <1>2, TreeCorrect, PTL DEF Spec, Tree!Spec

-------------------------------------------------------------------------------
(* The chain of four hops.                                                 *)
ChainInv ==
  /\ Chain!AckAlwaysHeard
  /\ Chain!ExactlyOnce
  /\ Chain!LinkAgreement
  /\ Chain!OwedIsAwaited
  /\ Chain!NoStaleAck

LEMMA ChainAssumptions ==
  /\ Chain!RoutingAssumption /\ Chain!TopologyAssumption /\ Chain!SizeAssumption
  /\ Chain!InitialPayloadsAssumption
  /\ Chain!SymmetricReach
<1>. DEFINE links == {<<a, g>>, <<b, a>>, <<c, b>>, <<d, c>>}
            nodes == {a, b, c, d} \cup {g}
<1>1. links \subseteq nodes \X nodes /\ \A p : <<p, p>> \notin links
  BY SitesAssumption
<1>2. /\ Symmetric(links) \subseteq nodes \X nodes
      /\ \A p, q : <<p, q>> \in Symmetric(links) => <<q, p>> \in Symmetric(links)
      /\ \A p : <<p, p>> \notin Symmetric(links)
  BY <1>1, SymmetricBothWays
<1>3. Chain!SymmetricReach
  BY <1>2 DEF Chain!SymmetricReach, Chain!Nodes
<1>4. Chain!TopologyAssumption
  BY <1>2 DEF Chain!TopologyAssumption, Chain!Nodes
<1>5. Chain!RoutingAssumption
  BY SitesAssumption DEF Chain!RoutingAssumption, Chain!Nodes
<1>6. Chain!SizeAssumption
  <2>1. NoAck \notin Chain!AckInfo
    BY SitesAssumption DEF Chain!AckInfo
  <2>. QED BY <2>1 DEF Chain!SizeAssumption, WideId
<1>7. Chain!InitialPayloadsAssumption
  BY DEF Chain!InitialPayloadsAssumption
<1>. QED BY <1>3, <1>4, <1>5, <1>6, <1>7

LEMMA ChainCorrect == Chain!Spec => []ChainInv
<1>1. Chain!Spec => []Chain!AckAlwaysHeard
  BY ChainAssumptions, Chain!AcksAlwaysHeard
<1>2. Chain!Spec => []Chain!ExactlyOnce
  BY ChainAssumptions, Chain!ExactlyOnceCorrect
<1>3. Chain!Spec => [](Chain!LinkAgreement /\ Chain!DataIsHead)
  BY ChainAssumptions, Chain!LinkCorrect
<1>4. Chain!Spec => [](Chain!NoStaleAck /\ Chain!OwedIsAwaited)
  BY ChainAssumptions, Chain!AnswersMatch
<1>. QED BY <1>1, <1>2, <1>3, <1>4, PTL DEF ChainInv

LEMMA ChainRuns == Spec /\ site = "chain" => [](site = "chain" /\ ChainInv)
<1>1. Init /\ site = "chain" => Chain!Init
  BY DEF Init
<1>2. [Next]_vars /\ site = "chain" => (site = "chain")' /\ [Chain!Next]_Chain!vars
  BY DEF Next, vars, Star!vars, Star!clockVars, Star!airVars, Star!windowVars, Star!linkVars,
     Star!retryVars, Chain!vars, Chain!clockVars, Chain!airVars, Chain!windowVars, Chain!linkVars, Chain!retryVars
<1>. QED BY <1>1, <1>2, ChainCorrect, PTL DEF Spec, Chain!Spec

-------------------------------------------------------------------------------
(* The link that works one way.                                            *)
OneWayInv ==
  /\ OneWay!ExactlyOnce
  /\ OneWay!LinkAgreement
  /\ OneWay!OwedIsAwaited
  /\ OneWay!NoStaleAck
  /\ OneWay!WaitsWithinOneCycle

LEMMA OneWayAssumptions ==
  /\ OneWay!RoutingAssumption /\ OneWay!TopologyAssumption /\ OneWay!SizeAssumption
  /\ OneWay!InitialPayloadsAssumption
<1>. DEFINE links == {<<a, g>>, <<b, g>>, <<c, a>>}
            nodes == {a, b, c} \cup {g}
<1>1. links \subseteq nodes \X nodes /\ \A p : <<p, p>> \notin links
  BY SitesAssumption
<1>2. /\ Symmetric(links) \subseteq nodes \X nodes
      /\ \A p, q : <<p, q>> \in Symmetric(links) => <<q, p>> \in Symmetric(links)
      /\ \A p : <<p, p>> \notin Symmetric(links)
  BY <1>1, SymmetricBothWays
<1>3. OneWay!TopologyAssumption
  <2>1. <<a, b>> \in nodes \X nodes /\ a # b
    BY SitesAssumption
  <2>. QED BY <1>2, <2>1 DEF OneWay!TopologyAssumption, OneWay!Nodes
<1>4. OneWay!RoutingAssumption
  BY SitesAssumption DEF OneWay!RoutingAssumption, OneWay!Nodes
<1>5. OneWay!SizeAssumption
  <2>1. NoAck \notin OneWay!AckInfo
    BY SitesAssumption DEF OneWay!AckInfo
  <2>. QED BY <2>1 DEF OneWay!SizeAssumption, WideId
<1>6. OneWay!InitialPayloadsAssumption
  BY DEF OneWay!InitialPayloadsAssumption
<1>. QED BY <1>3, <1>4, <1>5, <1>6

LEMMA OneWayCorrect == OneWay!Spec => []OneWayInv
<1>1. OneWay!Spec => []OneWay!ExactlyOnce
  BY OneWayAssumptions, OneWay!ExactlyOnceCorrect
<1>2. OneWay!Spec => [](OneWay!LinkAgreement /\ OneWay!DataIsHead)
  BY OneWayAssumptions, OneWay!LinkCorrect
<1>3. OneWay!Spec => [](OneWay!AckBeforeNextData /\ OneWay!WaitsWithinOneCycle)
  BY OneWayAssumptions, OneWay!CycleCorrect
<1>4. OneWay!Spec => [](OneWay!NoStaleAck /\ OneWay!OwedIsAwaited)
  BY OneWayAssumptions, OneWay!AnswersMatch
<1>. QED BY <1>1, <1>2, <1>3, <1>4, PTL DEF OneWayInv

LEMMA OneWayRuns == Spec /\ site = "one way" => [](site = "one way" /\ OneWayInv)
<1>1. Init /\ site = "one way" => OneWay!Init
  BY DEF Init
<1>2. [Next]_vars /\ site = "one way" => (site = "one way")' /\ [OneWay!Next]_OneWay!vars
  BY DEF Next, vars, Star!vars, Star!clockVars, Star!airVars, Star!windowVars, Star!linkVars,
     Star!retryVars, OneWay!vars, OneWay!clockVars, OneWay!airVars, OneWay!windowVars, OneWay!linkVars, OneWay!retryVars
<1>. QED BY <1>1, <1>2, OneWayCorrect, PTL DEF Spec, OneWay!Spec

-------------------------------------------------------------------------------
(* The local ids of one bit.                                               *)
NarrowIdInv ==
  /\ NarrowId!ExactlyOnce
  /\ NarrowId!LinkAgreement

LEMMA NarrowIdAssumptions ==
  /\ NarrowId!RoutingAssumption /\ NarrowId!TopologyAssumption /\ NarrowId!SizeAssumption
  /\ NarrowId!InitialPayloadsAssumption
<1>. DEFINE links == {<<a, g>>, <<b, a>>}
            nodes == {a, b} \cup {g}
<1>1. links \subseteq nodes \X nodes /\ \A p : <<p, p>> \notin links
  BY SitesAssumption
<1>2. /\ Symmetric(links) \subseteq nodes \X nodes
      /\ \A p, q : <<p, q>> \in Symmetric(links) => <<q, p>> \in Symmetric(links)
      /\ \A p : <<p, p>> \notin Symmetric(links)
  BY <1>1, SymmetricBothWays
<1>3. NarrowId!TopologyAssumption
  BY <1>2 DEF NarrowId!TopologyAssumption, NarrowId!Nodes
<1>4. NarrowId!RoutingAssumption
  BY SitesAssumption DEF NarrowId!RoutingAssumption, NarrowId!Nodes
<1>5. NarrowId!SizeAssumption
  <2>1. 0..(2-1) \subseteq 0..(WideId-1)
    BY DEF WideId
  <2>2. NoAck \notin NarrowId!AckInfo
    BY SitesAssumption, <2>1 DEF NarrowId!AckInfo
  <2>. QED BY <2>2 DEF NarrowId!SizeAssumption, WideId
<1>6. NarrowId!InitialPayloadsAssumption
  BY DEF NarrowId!InitialPayloadsAssumption
<1>. QED BY <1>3, <1>4, <1>5, <1>6

LEMMA NarrowIdCorrect == NarrowId!Spec => []NarrowIdInv
<1>1. NarrowId!Spec => []NarrowId!ExactlyOnce
  BY NarrowIdAssumptions, NarrowId!ExactlyOnceCorrect
<1>2. NarrowId!Spec => [](NarrowId!LinkAgreement /\ NarrowId!DataIsHead)
  BY NarrowIdAssumptions, NarrowId!LinkCorrect
<1>. QED BY <1>1, <1>2, PTL DEF NarrowIdInv

LEMMA NarrowIdRuns == Spec /\ site = "narrow id" => [](site = "narrow id" /\ NarrowIdInv)
<1>1. Init /\ site = "narrow id" => NarrowId!Init
  BY DEF Init
<1>2. [Next]_vars /\ site = "narrow id" => (site = "narrow id")' /\ [NarrowId!Next]_NarrowId!vars
  BY DEF Next, vars, Star!vars, Star!clockVars, Star!airVars, Star!windowVars, Star!linkVars,
     Star!retryVars, NarrowId!vars, NarrowId!clockVars, NarrowId!airVars, NarrowId!windowVars, NarrowId!linkVars, NarrowId!retryVars
<1>. QED BY <1>1, <1>2, NarrowIdCorrect, PTL DEF Spec, NarrowId!Spec

-------------------------------------------------------------------------------
(* A behaviour is one of the five deployments from its first state on.     *)
LEMMA OneSite ==
  Spec => \/ [](site = "star" /\ StarInv)
          \/ [](site = "tree" /\ TreeInv)
          \/ [](site = "chain" /\ ChainInv)
          \/ [](site = "one way" /\ OneWayInv)
          \/ [](site = "narrow id" /\ NarrowIdInv)
<1>1. Init => site = "star" \/ site = "tree" \/ site = "chain" \/ site = "one way"
                \/ site = "narrow id"
  BY DEF Init
<1>. QED BY <1>1, StarRuns, TreeRuns, ChainRuns, OneWayRuns, NarrowIdRuns, PTL DEF Spec

(* Where reach is symmetric, every acknowledgement finds its addressee     *)
(* awake and undisturbed (receiveMessage, canNodeReceiveMessage).          *)
THEOREM AcksHeardAlways == Spec => []AcksHeard
<1>1. site = "star" /\ StarInv => AcksHeard
  BY DEF StarInv, AcksHeard
<1>2. site = "tree" /\ TreeInv => AcksHeard
  BY DEF TreeInv, AcksHeard
<1>3. site = "chain" /\ ChainInv => AcksHeard
  BY DEF ChainInv, AcksHeard
<1>4. site = "one way" /\ OneWayInv => AcksHeard
  BY DEF OneWayInv, AcksHeard
<1>5. site = "narrow id" /\ NarrowIdInv => AcksHeard
  BY DEF NarrowIdInv, AcksHeard
<1>. QED BY <1>1, <1>2, <1>3, <1>4, <1>5, OneSite, PTL

(* No payload is lost or duplicated on any of the deployments, and the     *)
(* two ends of every link agree (receiveMessage,                           *)
(* handleAckPacketReception).                                              *)
THEOREM OnceOnEverySiteAlways == Spec => []OnceOnEverySite
<1>1. site = "star" /\ StarInv => OnceOnEverySite
  BY DEF StarInv, OnceOnEverySite
<1>2. site = "tree" /\ TreeInv => OnceOnEverySite
  BY DEF TreeInv, OnceOnEverySite
<1>3. site = "chain" /\ ChainInv => OnceOnEverySite
  BY DEF ChainInv, OnceOnEverySite
<1>4. site = "one way" /\ OneWayInv => OnceOnEverySite
  BY DEF OneWayInv, OnceOnEverySite
<1>5. site = "narrow id" /\ NarrowIdInv => OnceOnEverySite
  BY DEF NarrowIdInv, OnceOnEverySite
<1>. QED BY <1>1, <1>2, <1>3, <1>4, <1>5, OneSite, PTL

(* The relay of the tree keeps the payloads of each originator in order    *)
(* (addMessageToQueue, handleAckPacketReception).                          *)
THEOREM InOrderThroughRelayAlways == Spec => []InOrderThroughRelay
<1>1. site = "star" /\ StarInv => InOrderThroughRelay
  BY DEF StarInv, InOrderThroughRelay
<1>2. site = "tree" /\ TreeInv => InOrderThroughRelay
  BY DEF TreeInv, InOrderThroughRelay
<1>3. site = "chain" /\ ChainInv => InOrderThroughRelay
  BY DEF ChainInv, InOrderThroughRelay
<1>4. site = "one way" /\ OneWayInv => InOrderThroughRelay
  BY DEF OneWayInv, InOrderThroughRelay
<1>5. site = "narrow id" /\ NarrowIdInv => InOrderThroughRelay
  BY DEF NarrowIdInv, InOrderThroughRelay
<1>. QED BY <1>1, <1>2, <1>3, <1>4, <1>5, OneSite, PTL

(* Whoever is owed an acknowledgement still waits for it, on the chain and *)
(* where acknowledgements are lost (transitionToSleeping).                 *)
THEOREM AnswersAreAwaitedAlways == Spec => []AnswersAreAwaited
<1>1. site = "star" /\ StarInv => AnswersAreAwaited
  BY DEF StarInv, AnswersAreAwaited
<1>2. site = "tree" /\ TreeInv => AnswersAreAwaited
  BY DEF TreeInv, AnswersAreAwaited
<1>3. site = "chain" /\ ChainInv => AnswersAreAwaited
  BY DEF ChainInv, AnswersAreAwaited
<1>4. site = "one way" /\ OneWayInv => AnswersAreAwaited
  BY DEF OneWayInv, AnswersAreAwaited
<1>5. site = "narrow id" /\ NarrowIdInv => AnswersAreAwaited
  BY DEF NarrowIdInv, AnswersAreAwaited
<1>. QED BY <1>1, <1>2, <1>3, <1>4, <1>5, OneSite, PTL

(* A node without its acknowledgement waits no longer than its cycle       *)
(* (transitionToSleeping).                                                 *)
THEOREM GivesUpInTimeAlways == Spec => []GivesUpInTime
<1>1. site = "star" /\ StarInv => GivesUpInTime
  BY DEF StarInv, GivesUpInTime
<1>2. site = "tree" /\ TreeInv => GivesUpInTime
  BY DEF TreeInv, GivesUpInTime
<1>3. site = "chain" /\ ChainInv => GivesUpInTime
  BY DEF ChainInv, GivesUpInTime
<1>4. site = "one way" /\ OneWayInv => GivesUpInTime
  BY DEF OneWayInv, GivesUpInTime
<1>5. site = "narrow id" /\ NarrowIdInv => GivesUpInTime
  BY DEF NarrowIdInv, GivesUpInTime
<1>. QED BY <1>1, <1>2, <1>3, <1>4, <1>5, OneSite, PTL
===============================================================================
