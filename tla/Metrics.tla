--------------------------------- MODULE Metrics ---------------------------------
(***************************************************************************)
(* What the simulator records about packets, and what the GUI shows of it: *)
(* MetricsAggregator, NodeMetrics, MetricsExporter, the three metrics      *)
(* packets and the GUI's MetricsManager.                                   *)
(*                                                                         *)
(* Every transmission, the repeated ones included, gets a global id of its *)
(* own.  A relay remembers the global id of the copy it heard first and    *)
(* links its own transmissions to it; a delivery at the gateway writes a   *)
(* latency record at every node of the path.  Every so often what is new   *)
(* is sent to the GUI.                                                     *)
(*                                                                         *)
(* The radio is reduced to what its handlers promise (RrcUplink): a copy   *)
(* is heard or lost, and answered or not before the next one is sent.      *)
(***************************************************************************)
EXTENDS SequencesExt, Mesh, PacketFormats

CONSTANTS
  SamplesPerExport,  \* METRICS_EXPORT_INTERVAL_TICKS in sampling intervals
  MaxIds,            \* bound: transmissions
  MaxSamples         \* bound: energy samples

ASSUME MetricsAssumption ==
  /\ IsFiniteSet(C2)
  /\ SamplesPerExport \in Nat \ {0}
  /\ MaxIds \in Nat /\ MaxSamples \in Nat

NoId == 0        \* "0 reserved for not found"

VARIABLES
  now,
  queue,         \* per mesh node: the global id each packet came with (NoId: its own)
  counter,       \* the local id of the packet at the head
  heard,         \* the local ids a relay has seen of every child
  onAir,         \* a transmission is under way
  answer,        \* "none", or "owed": the next hop has heard it and will answer
  nextId,        \* MetricsAggregator::nextGlobalPacketId
  keyToId,       \* packetKeyToGlobalId: per node, local id -> global id
  registry,      \* packetRegistry: global id -> its path so far
  chain,         \* forwardChain: global id -> the one it forwards
  acked,         \* NodeMetrics::allTransmissions: global id -> acknowledged
  latency, energy,                  \* latencyRecords, energyTimeSeries
  sentLatency, sentEnergy,          \* lastExportedLatencyIndex, ...EnergyIndex
  samples,       \* how often the nodes have been sampled
  wire,          \* metrics packets on their way, as the fields written
  shown          \* the GUI's MetricsManager: per node

radioVars == <<queue, counter, heard, onAir, answer>>
lifeVars == <<nextId, keyToId, registry, chain, acked>>
nodeVars == <<latency, energy, sentLatency, sentEnergy>>
guiVars == <<wire, shown>>
vars == <<now, radioVars, lifeVars, nodeVars, samples, guiVars>>

-------------------------------------------------------------------------------
(* The aggregator.                                                         *)

Lookup(n, localId) ==
  IF localId \in DOMAIN keyToId[n] THEN keyToId[n][localId] ELSE NoId

(* A map with one entry more, or the entry of this key replaced.           *)
With(map, key, value) ==
  [k \in DOMAIN map \cup {key} |-> IF k = key THEN value ELSE map[k]]

(* A key registered again points to the latest transmission.               *)
Registered(n, localId, id) == [keyToId EXCEPT ![n] = With(@, localId, id)]

Originated(n) == <<[node |-> n, time |-> now]>>

\* slip: the path of the received packet is not copied
ForwardedFresh(n, received) == <<[node |-> n, time |-> now]>>

Forwarded(n, received) == Append(registry[received], [node |-> n, time |-> now])

RecordTransmission(n, id) == [acked EXCEPT ![n] = With(@, id, FALSE)]

RecordAck(n, id) ==
  IF id \in DOMAIN acked[n] THEN [acked EXCEPT ![n][id] = TRUE] ELSE acked

(* recordPacketForwarded always links; a path needs the received packet in *)
(* the registry.                                                           *)
TransmitData(n) ==
  LET received == Head(queue[n])
      path == IF received = NoId THEN Originated(n) ELSE Forwarded(n, received)
  IN /\ queue[n] # <<>> /\ ~onAir[n] /\ answer[n] = "none" /\ nextId <= MaxIds
     /\ now' = now + 1
     /\ onAir' = [onAir EXCEPT ![n] = TRUE]
     /\ nextId' = nextId + 1
     /\ keyToId' = Registered(n, counter[n], nextId)
     /\ acked' = RecordTransmission(n, nextId)
     /\ chain' = IF received = NoId THEN chain ELSE With(chain, nextId, received)
     /\ registry' = IF received = NoId \/ received \in DOMAIN registry
                    THEN With(registry, nextId, path) ELSE registry
     /\ UNCHANGED <<queue, counter, heard, answer, nodeVars, samples, guiVars>>

Lose(n) ==
  /\ onAir[n]
  /\ onAir' = [onAir EXCEPT ![n] = FALSE]
  /\ UNCHANGED <<now, queue, counter, heard, answer, lifeVars, nodeVars, samples,
                 guiVars>>

(* A relay keeps a copy it has not seen with the global id its key has     *)
(* now; a copy it has seen is only answered.                               *)
HearAtRelay(n) ==
  LET relay == NextHop[n]
  IN /\ onAir[n] /\ relay \in C2 /\ ~onAir[relay]
     /\ now' = now + 1
     /\ onAir' = [onAir EXCEPT ![n] = FALSE]
     /\ answer' = [answer EXCEPT ![n] = "owed"]
     /\ heard' = [heard EXCEPT ![n] = @ \cup {counter[n]}]
     /\ queue' = IF counter[n] \in heard[n] THEN queue
                 ELSE [queue EXCEPT ![relay] = Append(@, Lookup(n, counter[n]))]
     /\ UNCHANGED <<counter, lifeVars, nodeVars, samples, guiVars>>

\* slip: the record of every node carries the time of the last one
LastHopOnly(path) ==
  [n \in C2 |->
    [i \in 1 .. Cardinality({j \in DOMAIN path : path[j].node = n}) |-> Last(path).time]]

(* The times at which each node handled a packet, along its path.          *)
TimesOnPath(path) ==
  [n \in C2 |->
    FlattenSeq([i \in DOMAIN path |-> IF path[i].node = n THEN <<path[i].time>> ELSE <<>>])]

Deliveries(id, times, at) ==
  [i \in DOMAIN times |->
     [packetId |-> id, latency_ms |-> at - times[i],
      originTimestamp |-> times[i], deliveryTimestamp |-> at]]

(* The gateway records every copy it hears, one heard before as well.      *)
DeliverToC3(n) ==
  LET id == Lookup(n, counter[n])
      times == TimesOnPath(registry[id])
  IN /\ onAir[n] /\ NextHop[n] \in C3
     /\ now' = now + 1
     /\ onAir' = [onAir EXCEPT ![n] = FALSE]
     /\ answer' = [answer EXCEPT ![n] = "owed"]
     /\ IF id \in DOMAIN registry
        THEN latency' = [m \in C2 |-> latency[m] \o Deliveries(id, times[m], now')]
        ELSE UNCHANGED latency
     /\ UNCHANGED <<queue, counter, heard, lifeVars, energy, sentLatency, sentEnergy,
                    samples, guiVars>>

LoseAck(n) ==
  /\ answer[n] = "owed"
  /\ answer' = [answer EXCEPT ![n] = "none"]
  /\ UNCHANGED <<now, queue, counter, heard, onAir, lifeVars, nodeVars, samples,
                 guiVars>>

HearAck(n) ==
  LET id == Lookup(n, counter[n])
  IN /\ answer[n] = "owed"
     /\ answer' = [answer EXCEPT ![n] = "none"]
     /\ acked' = RecordAck(n, id)
     /\ queue' = [queue EXCEPT ![n] = Tail(@)]
     /\ counter' = [counter EXCEPT ![n] = @ + 1]
     /\ UNCHANGED <<now, heard, onAir, nextId, keyToId, registry, chain, nodeVars,
                    samples, guiVars>>

-------------------------------------------------------------------------------
(* The packets of the export, as the GUI reads them (PacketFormats).       *)

AcksReceived(n) == Cardinality({id \in DOMAIN acked[n] : acked[n][id]})

WriteCounts(tick, n) ==
  WriteTelemetry("nodeMetrics",
                 [tickNb |-> tick, nodeId |-> n,
                  totalPacketsSent |-> Cardinality(DOMAIN acked[n]),
                  totalAcksReceived |-> AcksReceived(n)])

WriteLatency(tick, n, records) ==
  WriteList("latency", [tickNb |-> tick, nodeId |-> n], records)

WriteEnergy(tick, n, pairs) ==
  WriteList("energy", [tickNb |-> tick, nodeId |-> n], pairs)

New(seq, sent) == SubSeq(seq, sent + 1, Len(seq))

(* The packets of one node: the counts always, the rest when there is any. *)
PacketsOf(tick, n, sampled) ==
  LET records == New(latency[n], sentLatency[n])
      pairs == New(sampled[n], sentEnergy[n])
  IN <<WriteCounts(tick, n)>>
     \o (IF records = <<>> THEN <<>> ELSE <<WriteLatency(tick, n, records)>>)
     \o (IF pairs = <<>> THEN <<>> ELSE <<WriteEnergy(tick, n, pairs)>>)

\* slip: the number of records sent is stored, not their end
MarkBatch(n) == Len(latency[n]) - sentLatency[n]

MarkLatency(n) == Len(latency[n])

(* Every 100 ticks the nodes are sampled, and at every third time what is  *)
(* new is exported, in the same pass of the clock: no packet in between.   *)
(* The energy of a sample stands for the time at which it was computed.    *)
Sample ==
  /\ samples < MaxSamples
  /\ samples' = samples + 1
  /\ energy' = [n \in C2 |-> Append(energy[n], [tick |-> samples', energy |-> now])]
  /\ UNCHANGED <<now, radioVars, lifeVars, latency, shown>>

SampleOnly ==
  /\ Sample
  /\ samples' % SamplesPerExport # 0
  /\ UNCHANGED <<sentLatency, sentEnergy, wire>>

SampleAndExport ==
  /\ Sample
  /\ samples' % SamplesPerExport = 0
  /\ LET order == SetToSeq(C2)
     IN wire' = wire \o FlattenSeq([i \in DOMAIN order |->
                                     PacketsOf(samples', order[i], energy')])
  /\ sentLatency' = [n \in C2 |-> MarkLatency(n)]
  /\ sentEnergy' = [n \in C2 |-> Len(energy'[n])]

-------------------------------------------------------------------------------
(* The GUI: counts replace what was shown, records are added to it.        *)

Receive(kind, node, new) ==
  /\ wire # <<>> /\ TelemetryHandler[Head(wire)[1]] = kind
  /\ shown' = [shown EXCEPT ![node] = new]
  /\ wire' = Tail(wire)
  /\ UNCHANGED <<now, radioVars, lifeVars, nodeVars, samples>>

UpdateNodePDR ==
  LET p == ReadTelemetry("nodeMetrics", Head(wire))
  IN Receive("nodeMetrics", p.nodeId,
             [shown[p.nodeId] EXCEPT !.sent = p.totalPacketsSent,
                                     !.acked = p.totalAcksReceived])

AddLatencyRecords ==
  LET n == ReadTelemetry("latency", Head(wire)).nodeId
  IN Receive("latency", n, [shown[n] EXCEPT !.latency = @ \o ReadList("latency", Head(wire))])

AddEnergySamples ==
  LET n == ReadTelemetry("energy", Head(wire)).nodeId
  IN Receive("energy", n, [shown[n] EXCEPT !.energy = @ \o ReadList("energy", Head(wire))])

-------------------------------------------------------------------------------
Init ==
  /\ now = 0
  /\ queue = [n \in C2 |-> [i \in 1 .. InitialPayloads |-> NoId]]
  /\ counter = [n \in C2 |-> 0]
  /\ heard = [n \in C2 |-> {}]
  /\ onAir = [n \in C2 |-> FALSE] /\ answer = [n \in C2 |-> "none"]
  /\ nextId = 1
  /\ keyToId = [n \in C2 |-> <<>>] /\ acked = [n \in C2 |-> <<>>]
  /\ registry = <<>> /\ chain = <<>>
  /\ latency = [n \in C2 |-> <<>>] /\ energy = [n \in C2 |-> <<>>]
  /\ sentLatency = [n \in C2 |-> 0] /\ sentEnergy = [n \in C2 |-> 0]
  /\ samples = 0
  /\ wire = <<>>
  /\ shown = [n \in C2 |-> [sent |-> 0, acked |-> 0, latency |-> <<>>, energy |-> <<>>]]

Radio(n) ==
  TransmitData(n) \/ Lose(n) \/ HearAtRelay(n) \/ DeliverToC3(n) \/ LoseAck(n) \/ HearAck(n)

Next ==
  \/ \E n \in C2 : Radio(n)
  \/ SampleOnly \/ SampleAndExport
  \/ UpdateNodePDR \/ AddLatencyRecords \/ AddEnergySamples

Spec == Init /\ [][Next]_vars

-------------------------------------------------------------------------------
(* buildPacketChain: the ids from the origin's transmission to this one.   *)
BuildPacketChain(id) ==
  LET walk[i \in 0 .. id] == IF i \in DOMAIN chain THEN Append(walk[chain[i]], i) ELSE <<i>>
  IN walk[id]

(* The node that made a transmission.                                      *)
Sender(id) == CHOOSE n \in C2 : id \in DOMAIN acked[n]

(* The registry and the forward chain, written by different nodes at       *)
(* different times and through keys that are overwritten, tell one story:  *)
(* the path of a packet is the chain of the transmissions that carried it, *)
(* from its origin, each hop later and by the next hop of the one before.  *)
PathsFollowChain ==
  \A id \in DOMAIN registry :
    LET ids == BuildPacketChain(id)
        path == registry[id]
    IN /\ Len(path) = Len(ids)
       /\ \A i \in DOMAIN path : path[i].node = Sender(ids[i])
       /\ \A i \in 2 .. Len(path) :
            path[i].time > path[i - 1].time /\ path[i].node = NextHop[path[i - 1].node]

(* A delivery leaves at every node of the path one record, from the time   *)
(* that node sent the packet to one common time of delivery: the times get *)
(* shorter towards the gateway.                                            *)
LatencyShrinksOnPath ==
  \A n \in C2 : \A i \in DOMAIN latency[n] :
    LET r == latency[n][i]
        path == registry[r.packetId]
    IN \A j \in DOMAIN path :
         Cardinality({k \in DOMAIN latency[path[j].node] :
                        LET s == latency[path[j].node][k]
                        IN /\ s.packetId = r.packetId
                           /\ s.deliveryTimestamp = r.deliveryTimestamp
                           /\ s.originTimestamp = path[j].time
                           /\ s.latency_ms = s.deliveryTimestamp - s.originTimestamp}) = 1

(* The records the GUI has, with those on their way, are the ones exported *)
(* so far: none twice, none missing, in order, whenever samples, exports   *)
(* and deliveries fall (the "new since last export" indices of             *)
(* NodeMetrics).                                                           *)
OnTheWay(n, kind) ==
  FlattenSeq([i \in DOMAIN wire |->
    IF wire[i][1] = TelemetryType[kind] /\ ReadTelemetry(kind, wire[i]).nodeId = n
    THEN ReadList(kind, wire[i]) ELSE <<>>])

ShownIsRecorded ==
  \A n \in C2 :
    /\ shown[n].latency \o OnTheWay(n, "latency") = SubSeq(latency[n], 1, sentLatency[n])
    /\ shown[n].energy \o OnTheWay(n, "energy") = SubSeq(energy[n], 1, sentEnergy[n])
    /\ shown[n].acked <= shown[n].sent /\ shown[n].sent <= Cardinality(DOMAIN acked[n])
===============================================================================
