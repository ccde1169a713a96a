------------------------------ MODULE TopologyFile ------------------------------
(***************************************************************************)
(* The topology files, .simcfg, the one thing the tools of the hub hand    *)
(* to each other: the topology editor writes and reads them, the scripts   *)
(* generate_hex_topology.py and verify_topology.py write and check them,   *)
(* and the simulator deploys them.                                         *)
(*                                                                         *)
(* A drawing is a pair of maps, as in TopologyEditorState: nodes gives the *)
(* class of each identifier, routings the set of devices it links to (an   *)
(* entry may be missing, and it may be empty).  A file is a sequence of    *)
(* NODE lines; positions, comments and malformed lines are left out.       *)
(***************************************************************************)
EXTENDS Naturals, FiniteSets, SequencesExt

Absent == 0                          \* no nextHop= or hopCount= on the line
DeviceClass == {"C1", "C2", "C3"}    \* the editor's
SimulatedClass == {"C2", "C3"}       \* the simulator's

NodeLine(id, class, nextHop, hopCount) ==
  [id |-> id, class |-> class, nextHop |-> nextHop, hopCount |-> hopCount]

FileIds(file) == {file[i].id : i \in DOMAIN file}
IdsUnique(file) == \A i, j \in DOMAIN file : file[i].id = file[j].id => i = j

(* The links of a device: routings[id], which is empty for a missing entry. *)
Linked(routings, id) == IF id \in DOMAIN routings THEN routings[id] ELSE {}

-------------------------------------------------------------------------------
(* Writing: TopologyConfigIO::computeRoutingInfo and write.                *)

(* The walk along the links ends at a gateway, at a device without an      *)
(* entry, or at one whose entry does not hold exactly one link.            *)
WalkEnds(nodes, routings, n) ==
  \/ nodes[n] = "C3"
  \/ n \notin DOMAIN routings
  \/ Cardinality(routings[n]) # 1

Walk(start, nodes, routings) ==
  LET at[k \in 0..Cardinality(DOMAIN nodes)] ==
        IF k = 0 THEN start
        ELSE LET n == at[k - 1]
             IN  IF WalkEnds(nodes, routings, n) THEN n
                 ELSE CHOOSE m \in routings[n] : TRUE
  IN  at

(* An empty entry of the start is a device without a route; met on the way *)
(* it is an ambiguous route, and so are two links; the entry of a gateway  *)
(* is an error; and a walk that has not ended is a cycle.                  *)
RouteValid(start, nodes, routings) ==
  \/ Linked(routings, start) = {}
  \/ LET end == Walk(start, nodes, routings)[Cardinality(DOMAIN nodes)]
     IN  /\ WalkEnds(nodes, routings, end)
         /\ end \notin DOMAIN routings

\* slip: the start is counted as a hop
RoutingInfoFromOne(start, nodes, routings) ==
  IF Linked(routings, start) = {} THEN [nextHop |-> Absent, hopCount |-> Absent]
  ELSE LET at == Walk(start, nodes, routings)
       IN  [nextHop |-> at[1], hopCount |-> Cardinality({at[k] : k \in DOMAIN at})]

RoutingInfo(start, nodes, routings) ==
  IF Linked(routings, start) = {} THEN [nextHop |-> Absent, hopCount |-> Absent]
  ELSE LET at == Walk(start, nodes, routings)
       IN  [nextHop |-> at[1],
            hopCount |-> Cardinality({at[k] : k \in DOMAIN at}) - 1]

Writable(nodes, routings) ==
  /\ \E n \in DOMAIN nodes : nodes[n] = "C3"
  /\ \A n \in DOMAIN nodes : nodes[n] # "C3" => RouteValid(n, nodes, routings)

(* The lines come in the order of an unordered map: any order.             *)
FileOf(nodes, routings) ==
  LET line(n) ==
        IF nodes[n] = "C3" THEN NodeLine(n, "C3", Absent, Absent)
        ELSE LET info == RoutingInfo(n, nodes, routings)
             IN  NodeLine(n, nodes[n], info.nextHop, info.hopCount)
      order == SetToSeq(DOMAIN nodes)
  IN  [i \in DOMAIN order |-> line(order[i])]

-------------------------------------------------------------------------------
(* Reading: TopologyConfigIO::validateConfigFile.                          *)

(* Another class ends the reading before the routes are entered.           *)
ClassesKnown(file) == \A i \in DOMAIN file : file[i].class \in DeviceClass

LastOf(file, S) == file[CHOOSE i \in S : \A j \in S : j <= i]

(* A later line of the same device replaces the device.                    *)
ReadNodes(file) ==
  [n \in FileIds(file) |->
     LastOf(file, {i \in DOMAIN file : file[i].id = n}).class]

(* nextHopMap: the hop stays when the later line has none.                 *)
HopLines(file, n) == {i \in DOMAIN file : file[i].id = n /\ file[i].nextHop # Absent}
NextHopMap(file) ==
  [n \in {m \in FileIds(file) : HopLines(file, m) # {}} |->
     LastOf(file, HopLines(file, n)).nextHop]

KnownHops(file) ==
  {n \in DOMAIN NextHopMap(file) : NextHopMap(file)[n] \in FileIds(file)}
HopsExist(file) == KnownHops(file) = DOMAIN NextHopMap(file)

(* The map is walked in no particular order, and a hop that does not exist *)
(* ends the walk: the routes entered by then stay.                         *)
ReadRoutings(file) ==
  {[n \in kept |-> {NextHopMap(file)[n]}] :
     kept \in IF HopsExist(file) THEN {KnownHops(file)} ELSE SUBSET KnownHops(file)}

-------------------------------------------------------------------------------
(* Deployment: DeploymentManager, Seed and SimonV1Factory.                 *)

(* Seed throws when a line is refused: nothing is deployed.                *)
Deploys(file) == IdsUnique(file) /\ \A i \in DOMAIN file : file[i].class \in SimulatedClass

(* A C2 built without a next hop and a hop count has no slot manager and   *)
(* no acknowledgement state.                                               *)
BuiltWithoutRoute(l) == l.class = "C2" /\ (l.nextHop = Absent \/ l.hopCount = Absent)

(* The uplink handler of every C2 reads them at its first transition.      *)
CrashesAtStart(file) ==
  Deploys(file) /\ \E i \in DOMAIN file : BuiltWithoutRoute(file[i])

-------------------------------------------------------------------------------
(* verify_topology.py, without the two checks on distances.                *)

(* parse_simcfg reports a duplicate but keeps the later line and counts no *)
(* error; nor does verify for a class that is neither C2 nor C3.           *)
ParsedLines(file) ==
  [n \in FileIds(file) |-> LastOf(file, {i \in DOMAIN file : file[i].id = n})]

TracesTo(gateway, lines, n) ==
  LET at[k \in 0..Cardinality(DOMAIN lines)] ==
        IF k = 0 THEN n
        ELSE LET m == at[k - 1]
             IN  IF m = gateway \/ lines[m].nextHop \notin DOMAIN lines THEN m
                 ELSE lines[m].nextHop
      steps == {k \in DOMAIN at : at[k] = gateway}
  IN  lines[n].hopCount \in steps /\ \A k \in steps : lines[n].hopCount <= k

\* slip: hop counts and loops are not checked
VerifyPassesUncounted(file) ==
  LET lines == ParsedLines(file)
  IN  /\ Cardinality({n \in DOMAIN lines : lines[n].class = "C3"}) = 1
      /\ \A n \in DOMAIN lines :
           /\ lines[n].class = "C2" => ~BuiltWithoutRoute(lines[n])
           /\ lines[n].nextHop # Absent => lines[n].nextHop \in DOMAIN lines

VerifyPasses(file) ==
  LET lines == ParsedLines(file)
      gateways == {n \in DOMAIN lines : lines[n].class = "C3"}
  IN  /\ Cardinality(gateways) = 1
      /\ \A n \in DOMAIN lines :
           /\ lines[n].class = "C2" => ~BuiltWithoutRoute(lines[n])
           /\ lines[n].nextHop # Absent => lines[n].nextHop \in DOMAIN lines
           /\ (lines[n].class # "C3" /\ ~BuiltWithoutRoute(lines[n])) =>
                \A g \in gateways : TracesTo(g, lines, n)

-------------------------------------------------------------------------------
(* generate_hex_topology.py: a breadth-first tree of the adjacency graph,  *)
(* rooted at the first node.  Which of two parents at the same distance is *)
(* met first depends on the positions.                                     *)

Levels(ids, edges) ==
  LET within[k \in Nat] ==
        IF k = 0 THEN {1}
        ELSE within[k - 1] \cup
             {n \in ids : \E m \in within[k - 1] : {m, n} \in edges}
  IN  within

HopCount(ids, edges) ==
  [n \in ids |-> CHOOSE k \in 0..Cardinality(ids) :
                   /\ n \in Levels(ids, edges)[k]
                   /\ \A j \in 0..(k - 1) : n \notin Levels(ids, edges)[j]]

(* main refuses an adjacency graph that is not connected.                  *)
GeneratedFrom(ids, edges) ==
  LET hops == HopCount(ids, edges)
      parents(n) == {m \in ids : {m, n} \in edges /\ hops[m] + 1 = hops[n]}
  IN  {[n \in ids |-> IF n = 1 THEN NodeLine(1, "C3", Absent, Absent)
                      ELSE NodeLine(n, "C2", parent[n], hops[n])] :
         parent \in {p \in [ids -> ids] : \A n \in ids \ {1} : p[n] \in parents(n)
                                                       /\ p[1] = 1}}

Generated(size) ==
  LET ids == 1..size
      pairs == {{m, n} : m, n \in ids} \ {{n} : n \in ids}
  IN  UNION {GeneratedFrom(ids, edges) :
               edges \in {e \in SUBSET pairs : Levels(ids, e)[size] = ids}}
===============================================================================
