# ArcLoRaM in TLA+

A verification development for ArcLoRaM-Hub: a simulator of a multi-hop LoRa
mesh protocol, the GUI that drives and shows it over TCP, and a firmware
experiment in clock synchronisation. The modules here model the code; TLC checks
them on small deployments, TLAPS proves what matters most for every deployment.

Contents: 1 the system · 2 modules and their correspondence to the code ·
3 runs · 4 bounds and fairness · 5 proofs · 6 what is not shown ·
7 observations without a run

## 1. The system

### 1.1 Simulator (`src/modules/Simulator`)

| component | state | operations | correct when | modelled in |
|---|---|---|---|---|
| C2 node, RRC uplink mode (`Node/C2`) | current state, `isACKSlot`, data slot category, slot vector, packet queue, `localPacketCounter`, `AckInformation`, `isExpectingAck`, `secondSleepWindow`, ids received per sender | six transition functions, `handleCommunication`, `receiveMessage` (data and ACK paths), the slot manager | every payload it sends reaches its next hop once; windows stay in step with the neighbours; it gives up on an acknowledgement exactly at the end of a cycle | `RrcUplink` |
| C3 node (`Node/C3`) | current state, `AckInformation`, received ids | the transition table, `handleCommunication`, `receiveMessage` | counts every payload once, acknowledges every copy | `RrcUplink` |
| Node (`Node/Node.cpp`) | its queued transition and communication | `onTimeChange`, `scheduleNextTransition`, `addMessageToTransmit` | always has a next transition | `RrcUplink`, `TdmaBlueprint` |
| PhyLayer | `transmissionWindowsPerReceiver`, `activeTransmissions` | `processTransmission`, its start and end callbacks | overlapping transmissions destroy each other at a common receiver, and only there | `RrcUplink` |
| Clock | four maps from time to callbacks, pause flag | `schedule*`, `runLoop`, `pause`, `resume`, `stop` | due events run once, in their tick, in the order of the maps; a stop returns | `ClockEvents` |
| TDMA blueprint and schedule | cycle, segments, patterns | configuration, state at a time, next transition, next pattern | the queries agree with the cycle written out; consecutive proposals are ones the handlers accept | `TdmaBlueprint` |
| Metrics | global packet ids, path traces, records per node | record on send, receive, acknowledge; incremental export | one path per packet; nothing shown twice or left out | `Metrics` (part) |
| Command manager, dispatcher, TCP client and sender | configuration, running flag, `waitingForConfig`, the simulation, connection flag, send queue | configure, start, pause, stop, restart, connection lost, end of process | a command acts on the simulation it was meant for; nothing is used after it is freed | `CommandManager` |
| Deployment: topology parser, factories, seed | nodes and their routing | parse, create, initialise | every node deployed can run | `TopologyFile`, `TdmaBlueprint` (part) |
| Log processor | lines of console and file output | log, flush | lines in order | not modelled |

C1 nodes exist as a class, but the deployment refuses to create one. The topology
editor reads and writes them, its C1 button does nothing yet, and the verification
script only warns.

### 1.2 GUI (`src/modules/GUI`)

| component | state | correct when | modelled in |
|---|---|---|---|
| TCP server, session, connection monitor | client socket, session flag, last status | a connection is shown while there is one | `Visualiser` |
| Protocol visualisation: controller, packet handler, managers, buttons | devices, routes, widgets shown and enabled, running flag, topology chosen | the scene is consistent; the controls show what the simulator does | `Visualiser`, `Metrics` (part) |
| Topology editor and topology files | nodes, routings, pending link, hovered devices, file dialogs | the drawing is a graph, a file saved is the drawing, and all tools agree on the file | `TopologyEditor`, `TopologyFile` |
| Packet formats (one copy per side) | – | what one side writes is what the other reads | `PacketFormats` |
| Widgets, animations, assets | – | – | only the controls and devices above |

### 1.3 Clock synchronisation (`src/modules/ClockSynchronization`)

Master and slave firmware: the reference time is carried in a packet, and a
slave estimates offset and drift. `ClockSync` (part).

### 1.4 How the parts interact

* Inside a simulation everything runs on the clock's thread. The handlers share
  nothing with each other; they meet only in the physical layer, which queues a
  start and an end callback per transmission. All concurrency is the order of
  the callbacks of one tick (`RrcUplink` over the order that `ClockEvents` shows).
* The command manager, the receive thread, the sender thread, the detached
  threads that wait for a configuration and the clock's thread share the
  simulation object and the running flags without a lock (`CommandManager`).
* In the GUI the user interface, the connection monitor and the server thread
  share the scene, the widgets and the socket (`Visualiser`, which has a
  simulator of `CommandManager`'s kind at the other end of the connection).
* The simulator and the GUI exchange packets (`PacketFormats`) over one TCP
  connection that either side may lose: commands one way; positions, routes,
  states, messages and metrics (`Metrics`) the other. The editor, the scripts and
  the simulator exchange topology files (`TopologyFile`).

### 1.5 What is hard here

Node-local counters that must agree across nodes with no exchange (window kind,
slot category, the sleep window parity); an acknowledgement matched by id alone;
retransmission after a lost acknowledgement; a request to acknowledge that a
later packet overwrites; a refused transition that silences a node for good; a
slot that falls due when nothing is queued; the width of the local id. Callbacks
that insert into the map being walked. A stop or a lost connection racing a
launch; threads that wait for the same configuration; a scene cleared on one
thread and filled on another; commands that the other side ignores. Metrics keys
that a retransmission overwrites. Files that four tools read by rules of their
own. A slave that forwards a time it does not have. `PROJECT.json` lists each
hazard at its line with the properties that cover it.

## 2. Modules

| module | what it is |
|---|---|
| `Mesh` | the deployment every level of the uplink is about: nodes, routing, payloads |
| `HopByHop` | what the uplink promises: payloads held by one node each, handed to the next hop in one step |
| `RrcUplink` (extends `Mesh`) | the protocol: C2 and C3 handlers, transition chain, physical layer, order of events; shown to implement `HopByHop` |
| `MCRrcUplink` | the line and the tree for TLC |
| `MCUplinkSites` | five instances of `RrcUplink` (with its theorems, `RrcUplinkProofs`), one chosen in the initial state |
| `TdmaBlueprint`, `MCTdmaBlueprint` | configuration and queries of the blueprint, and the chain of a node of each class that follows it |
| `ClockEvents`, `MCClockEvents` | the clock thread: walk of the four maps, pause, resume, stop |
| `CommandManager` | life of a simulation in the simulator process, thread by thread, with the TCP client and sender |
| `PacketFormats` | every packet as the sequence of fields written and read, both copies |
| `Visualiser`, `MCVisualiser` (extends `PacketFormats`) | the GUI process while a simulation is watched |
| `Metrics`, `MCMetrics` (extends `Mesh`, `PacketFormats`) | what is recorded about packets, its export, and the GUI's store |
| `TopologyFile` | what a topology file is to each of the tools: writer, reader, deployment, two scripts |
| `TopologyEditor` (extends `TopologyFile`) | the editor between the files it opens and saves |
| `ClockSync` | master and slaves of the firmware |
| `RrcUplinkProofs` (with `HopByHop`), `UplinkSitesProofs`, `TdmaBlueprintProofs`, `ClockProofs` (of `ClockEvents` and `ClockSync`), `CommandManagerProofs`, `MetricsProofs` (with `PacketFormats`), `TopologyEditorProofs`, `VisualiserProofs` | theorems and their proofs (section 5) |

Definitions that a comment calls a slip are altered forms of the definition that
follows, each a plausible error in that code. They are used by no action; each
one breaks the property it is listed with in `PROJECT.json` ("mutants"), which
shows that the property depends on that line of the code.

### 2.1 `RrcUplink` and the code

*Time.* `SimonV1Factory` configures one mode with a pattern of four steps: main
sleep, data window, secondary sleep, ACK window. `step` is the step the clock is
in. Within a step, `Clock` runs the due transitions first, then communications,
then transmission starts, and ends later: these are the guards of phases 1, 2
and 3. An airtime (500 ms for data, 300 ms for an ACK) is shorter than a window
(1100 ms), so all ends of a window run before the next step, and all
transmissions of a window overlap. Events of one map and one time run in order
of insertion in the code and in any order here.

*Phase 1* (`Node::onTimeChange`). One action per path through the transition
functions: `C2SleepFromSleeping`, `C2SleepFromCommunicating`,
`SleepThroughWindow`, `EnterAckWindow`, `WakeToListen`, `WakeToTransmit`,
`PassSlot` (the last five are the paths of `canCommunicateFromSleeping`), and
`C3OnTimeChange` with the table of the accepted transitions. A refused
transition leaves the node out of `rescheduled`, as the code queues nothing
after it.

*Phase 2* (`handleCommunication`). `C2TransmitData`, `C2TransmitAck`,
`C2StaySilent`, `C3TransmitAck`, `C3StaySilent`; `Emit` is what
`PhyLayer::processTransmission` queues.

*Phase 3*. `TransmissionStart` and `TransmissionEnd` are the callbacks;
`ReceiveData`, `ReceiveAck` and `LosePacket` are what `receiveMessage` of the
addressee does at the end. A receiver that is not the addressee only displays
the packet, so it is not followed further.

| variable | code |
|---|---|
| `nodeState`, `ack`, `received` | `currentState`; `AckInformation`; `packetsMap` (C2), `receivedPacketsId` (C3) |
| `isACKSlot`, `category`, `isTransmitting`, `slots` | the C2 members of these names; `slots` is the slot manager's sorted vector as a set |
| `queue`, `localId` | `PacketQueue`; `localPacketCounter`, uncut (the packet's id is cut to 16 bits: `% IdMod`) |
| `isExpectingAck`, `secondSleepWindow` | `RetransmissionCounterHelper` |
| `heard` | `transmissionWindowsPerReceiver` |
| `transitions`, `communications`, `starts`, `ends` | the four maps of `Clock` |
| `delivered` | history: the payloads a gateway counted as new |

Left out: display packets, log lines, positions, the content of a payload.
`Reach` is the relation that `PhyLayer`'s distance threshold decides.

### 2.2 `HopByHop` and the refinement

`held[n]` is the sequence of payloads that node `n` is responsible for;
`HandOver(n)` moves the oldest to the next hop. In `RrcUplink`, a node still has
a packet at the head of its queue after the next hop stored it, until the
acknowledgement arrives; the mapping `Held` drops that head exactly when the
next hop has recorded the current id. Storing a new packet is then the hand-over
and every other step, the pop included, is a stutter.

### 2.3 `TdmaBlueprint`

The phase "configuring" adds segments and patterns in the order a factory may,
with every rejection of the code (`Aborted`, `Inconsistent`); "running" starts
the chain of one node per class. `StateAt`, `NextTransition` and the pattern
queries follow `TdmaScheduleBlueprint.cpp`; `Accept`, `Refuse` and `NoHandler` are
the C2 or C3 node at the time of a queued transition. The reference is the cycle unrolled,
one label per millisecond (`Layout`). `Elapsed` is the accumulated time of the loops
over segments and steps.

### 2.4 `ClockEvents`

`pc` is where `run()` is: the pause gate, the walk, the throttle. `walk` and `it`
are the map and the iterator; running an event erases it and may insert others,
those of `Schedules`, which are what the handlers of section 2.1 schedule
(with `lateReplies` also into maps already walked, which the loop is written for
and no present handler does). Start, pause, resume and stop come from another
thread at any point. A look behind the last event of a map (`executeCallbacksInRange`
after it erased a past event) is the pc "undefined".

### 2.5 `CommandManager`

`at[t]` is the next step of thread `t`: the receive thread of `Client`, the
thread of `TcpSender`, the detached threads that wait for a configuration
(`Waiters`), and main, which ends the process; the clock's thread lives as long as
`clock` says. `launchSimulation` and `stopSimulation` are sequences of steps
(`BuildMetrics` … `SetRunning`, `ClearRunning` … `DropMetrics`) that any of them may
be in, one statement with an effect on shared state per step; `after[t]` is where
the call returns to. A use of freed or null memory sets `broken`, after which
nothing happens: the code promises nothing from there on. Which packets are queued
is left out; how many (0 to `MaxQueue`) decides when the sender sends and ends.

### 2.6 `PacketFormats`

Per packet: its members, its type, the fields in the order of `operator<<` and of
`operator>>`, for lists the fields of an element, and the handler for the type, once
from the simulator's and once from the GUI's `Packets.hpp`/`Packets.cpp`. Reading is
by position, as on the wire. `Metrics` writes and reads its packets with these
operators; `Visualiser` carries the types.

### 2.7 `Visualiser`

Three threads: the user interface (`PressStart` … `Leave`), the connection monitor
(`Poll`) and the server (`Accept`, `ReceivePosition`, `LookUpRoute`, `InsertRoute`,
`HeartbeatTimeout` …). A handler that takes several steps leaves their names in
`todo`, and the other threads run between two of them. `client`, `connected`,
`lastStatus` and `stale` are the four views of one connection that the code keeps:
the socket, the session flag, what the monitor last saw, and the socket left in the
selector. The other end is a simulator that obeys what `CommandManager` obeys: it
ignores every command but a launch unless it runs, and its send queue outlives a
stop.

### 2.8 `Metrics`

The radio is reduced to what `RrcUplink` shows of it: a copy is heard or lost, and
answered or not. `keyToId`, `registry`, `chain`, `acked` and `latency` are the maps
of `MetricsAggregator` and `NodeMetrics`; `sentLatency` and `sentEnergy` their
"new since last export" indices; `wire` the packets under way, as fields written;
`shown` the GUI's `MetricsManager`.

### 2.9 `TopologyFile` and `TopologyEditor`

A drawing is `nodes` and `routings` as in `TopologyEditorState`; a file is a sequence
of NODE lines. `FileOf` is the save with its walk to a gateway, `ReadNodes` and
`ReadRoutings` the open, `Deploys` and `CrashesAtStart` the simulator, `VerifyPasses`
and `Generated` the two scripts. The editor is the buttons, the click that reaches
one hovered device after another (`ReachLink`, `ReachCutNode`), the dialogs, and a
change of the file by hand. The classes of a file are the editor's three
(`DeviceClass`) and one that no tool knows, at which the editor stops reading
(`OpenFile`); the simulator takes two (`SimulatedClass`).

### 2.10 `ClockSync`

`millis` counts from the boot of each device and wraps; a packet is on air for
`AirTime` units, in which its sender is deaf. `Land` is the reception with the
synchronisation; `TakeZero` a packet without delimiter; a reboot clears what a
device knew. The drift factor is "one" as long as every quotient was one and "off"
otherwise, and then the corrected time may be anything; so it may when the counter
stands where it stood at the synchronisation before (`NoInterval`), where the code
divides by zero.
The specification is `SyncSpec`, with `SyncInit` and `SyncNext`: `ClockProofs` extends the
module together with `ClockEvents`.

## 3. Runs

| run | instance | shows |
|---|---|---|
| `uplink_line` | b → a → g, the simulator's own 3 slots of 5 and 3 payloads, fair | `NeverFrozen`: no node drops out of the schedule. `WindowsAgree`: the windows counted alone agree. `AckBeforeNextData`: a request is answered in its cycle. `NoStaleAck`, `LinkAgreement`: both ends of a link agree. `ExactlyOnce` and the refinement `ImplementsHopByHop`. `PendingIsTransmitted`, `AllDelivered`. `TypeOK` |
| `uplink_sites` | star; tree with a collision at the relay; four hops; a link that works one way; ids of one bit | `AcksHeard`: with a symmetric reach no acknowledgement is lost. `OnceOnEverySite`: nothing lost or duplicated on any. `InOrderThroughRelay`. `AnswersAreAwaited`, `GivesUpInTime`: nobody gives up on an acknowledgement that is still owed, or waits beyond its cycle |
| `slot_starvation` | tree, the simulator's slot numbers | violation of `SlotsServePayloads` |
| `tdma_blueprint` | cycle of 6 ms, one or two segments, wrong lengths included, every combination of patterns, rejected ones included, three modes of which one has no handler | `StateMatchesLayout`, `NextMatchesLayout`: the queries agree with the cycle written out over two cycles. `AwakeInOwnWindowOnly`. `RefusedOnlyAtCut`: a chain breaks only where a segment cuts a pattern |
| `clock_events` | two nodes, tick 2, steps 1 and 3, airtimes 2 and 3, one pause, a stop at any point, late replies or none | `NoneLeftBehind`, `PhasesInOrder`, `RunsInItsTick`, `RunsOnce`; `StopReturns` and `EventsRun` under fairness |
| `command_manager` | two waiting threads, two configurations, one lost connection | `OneWaiter` always; `OneAtATime`, `RunningIsComplete`, `NoRelaunchByItself` until a connection is lost or the process ends; `ConfigIsLaunched` |
| `teardown_race` | one waiting thread, one configuration, one lost connection | violation of `NothingFreedUnderClock` |
| `visualiser` | a gateway and a mesh node, two sessions, four connections and commands together | `RoutesJoinDevices`: no arrow without its devices, on three threads. `InStep`: the controls show what the simulator does, unless a command was lost or ignored. `ConnectionShown` |
| `empty_launch` | the same | violation of `StartHasTopology` |
| `metrics` | two hops, one payload each, three transmissions, four samples, every second exported | `PathsFollowChain`: the registry and the forward chain tell one story. `LatencyShrinksOnPath`: one record per node of the path. `ShownIsRecorded`: the export leaves nothing out and sends nothing twice |
| `topology` | identifiers up to 3, a click on one or two devices, all generated trees of two and three nodes, every change of one field or line by hand, class C1 and an unknown class included | `LinksJoinNodes`. `SavedAsDrawn`: a file just saved is the drawing, and is refused by the simulator only for a C1. `VerifiedFilesWork`: which tools take a file that the script passes |
| `clock_sync` | a master and two slaves in a chain, clocks that wrap after 3, one reboot or one bad packet | `LagIsRelays`: the lag of a slave is the time on air of the relays before it |

### 3.1 Findings

`slot_starvation`: a relay that can never send again. A slot that falls due while
the queue is empty is not consumed but counted down below zero, and stays in the
vector; `hasSlots()` then stays true, so the refill meant for "exhausted" slots
(`C2_RRC_UplinkHandler.cpp:275`) never happens, and `canTransmitNow` (front = 0)
never holds again. A relay whose children's packets arrive after its own were sent
keeps them for ever. This is why `AllDelivered` is checked on the line, where with
three slots of five a child's packets always arrive before the relay's slots for
them, and why `PendingIsTransmitted` excludes nodes with a missed slot.

`teardown_race`: `stopSimulation` can be run by the receive thread and by the
sender thread for one lost connection, and during a launch on a third thread. The
second stop finds the clock already told to stop, does not wait for it, and frees
the nodes the clock's thread is still running; a launch under way starts a clock
after the stop has passed it by. This is why three of the properties of
`command_manager` are stated for as long as the connection holds.

`empty_launch`: the callback of a new connection enables Start and then resets the
configuration. After a reconnect the command panel is still there, and Start
launches an empty topology.

### 3.2 What some properties need said

`AcksHeard` says more than a reader of the code would expect: with a symmetric
reach, which the distance rule always gives, an acknowledgement cannot be lost, so
the duplicate path of `receiveMessage` is never taken. It needs the one-way link of
`uplink_sites`, which the distance rule does not produce, to be exercised at all.

The clock's properties other than `RunsOnce` are those of its use by the present
handlers (`lateReplies` FALSE). With handlers that schedule into a map already
walked, events are left behind, and the loop may use an iterator at the end of a
map; `RunsOnce` still holds.

`InStep` excludes the histories in which a command was not sent, was lost, or was
ignored by the simulator (`slipped`): the controller then believes its own flag, see
section 7. `RefusedOnlyAtCut` is about patterns as the factories write them, sleep
and window in turn. `LagIsRelays` is about slaves that have taken only times of the
master, passed on by slaves that were synchronised, and never two with their counter at
the same value.

`VerifiedFilesWork` says what a pass of `verify_topology.py` is worth, and it is less than
the script's text promises: line 11 says that all nodes other than the C3 are C2, lines
93-95 only warn of another class, and the file still passes. The simulator refuses
exactly those files. The editor takes a C1, provided its line has a whole route, which
the script asks only of a C2, and refuses an unknown class. The property also asks for
unique identifiers and gateways without a route, which the script does not.

## 4. Bounds and fairness

* `uplink_*`, `slot_starvation`: payloads, nodes and slots as in the table. The
  simulator runs with 3 payloads, 3 slots of 5 and ids of 16 bits, and so do the line,
  star and starvation runs; the larger deployments take fewer. Two children at a relay
  are enough for a collision; four hops are enough for two nodes of one category
  (hop count mod 3) on a path. `SlotFloor`: slots are not counted below -1; the code
  counts on, but tells no negative value from another. `IdMod` is 65536 but for the
  deployment with ids of one bit, where the whole id space is used up. Slots are drawn
  from all sets of `NodeSlots`, the result of the shuffle whatever the seed.
* `tdma_blueprint`: `CycleMs` 6 has room for two segments that are whole, shorter and
  longer than a pattern; `Horizon` 13 is two cycles and one, so the wrap happens twice.
* `clock_events`: `MaxEvents` 10 and `MaxTime` 6 let two nodes go through three ticks of
  several events each; a step of 1 is shorter than the tick, one of 3 is no multiple
  of it. One pause is enough for every state of the flags (`MaxPauses`).
* `command_manager`: two waiting threads are the fewest that could launch over each
  other; with `MaxConfigs` 2 a configuration can be stopped and followed by another;
  one loss is noticed by either or both threads; `MaxQueue` 1 tells empty from not.
* `visualiser`: `MaxSessions` 2 for one reconnect; `MaxEvents` 4 connections and commands
  together (one connection with a launch, a pause and a stop or restart, or two with a
  command each); `MaxQueue` 1 command on its way.
* `metrics`: `MaxIds` 3 transmissions are a first attempt, a repetition and a relay's;
  `MaxSamples` 4 with an export every two are two exports with records before, between
  and after.
* `topology`: with `MaxId` 3 there are chains, loops, ambiguous and missing hops, and
  all classes beside each other; `MaxBefore` bounds what was drawn before a file is opened.
* `clock_sync`: `Wrap` 3 makes every sum of the code wrap, with an `AirTime` of 2 that is
  not its own negative; two slaves are the fewest with a relay; `MaxFaults` 1.

No symmetry is used: the instances have too few interchangeable elements.

Fairness. `RrcUplink` assumes weak fairness of the whole next-state relation: the
clock's thread loops until it is stopped and every callback returns; nothing is
assumed of a single node, of the slot draw or of the air. `ClockEvents`: the clock's
thread is scheduled, and a stop once begun goes on to its join. `CommandManager`: a
detached thread is scheduled (while the process is not broken). `Visualiser`: the
user interface's, the monitor's and the server's loop run; the user and the
simulator may stop at any time. `CHECK_DEADLOCK FALSE` is set only where the system
may stop: a clock that was stopped, a process that ended or broke, a bound on
inputs, a simulator that is gone.

## 5. Proofs

| theorem | property | for |
|---|---|---|
| `RrcUplinkProofs!TypeCorrect` | `TypeOK` | every deployment |
| `RrcUplinkProofs!ScheduleCorrect`, `WindowsCorrect` | `NeverFrozen`, `WindowsAgree` | every deployment |
| `RrcUplinkProofs!CycleCorrect` | `AckBeforeNextData`, `WaitsWithinOneCycle` | every deployment |
| `RrcUplinkProofs!LinkCorrect` | `LinkAgreement`, `DataIsHead` | every deployment |
| `RrcUplinkProofs!PopCorrect` | `PopOnlyStored` | every deployment |
| `RrcUplinkProofs!AnswersMatch` | `NoStaleAck`, `OwedIsAwaited` | every deployment |
| `RrcUplinkProofs!AcksAlwaysHeard` | `AckAlwaysHeard` | symmetric reach |
| `RrcUplinkProofs!Refinement` | `ImplementsHopByHop` | every deployment |
| `RrcUplinkProofs!AbstractExactlyOnce`, `ExactlyOnceCorrect` | `ExactlyOnce`, abstract and of the protocol | every deployment |
| `RrcUplinkProofs!AbstractFifo`, `FifoCorrect` | `FifoPerOrigin`, abstract and of the protocol | routing without loops |
| `UplinkSitesProofs!AcksHeardAlways`, `OnceOnEverySiteAlways`, `InOrderThroughRelayAlways`, `AnswersAreAwaitedAlways`, `GivesUpInTimeAlways` | the five properties of `MCUplinkSites` | its five deployments, whatever the five nodes are |
| `TdmaBlueprintProofs!StateMatchesLayoutAlways`, `NextMatchesLayoutAlways` | `StateMatchesLayout`, `NextMatchesLayout` | every cycle, segments and patterns |
| `TdmaBlueprintProofs!AwakeInOwnWindowAlways`, `RefusedOnlyAtCutAlways` | `AwakeInOwnWindowOnly`, `RefusedOnlyAtCut` | every schedule, a chain of any length |
| `TdmaBlueprintProofs!WholeSchedulesGoOn` | no chain ends | segments that are whole numbers of alternating patterns |
| `TdmaBlueprintProofs!ClassesStepTogether` | `StepsTogether`: the transitions queued for the two classes are never more than one turn apart | patterns of the same durations in both classes, as long as both chains go on |
| `ClockProofs!NoneLeftBehindAlways`, `PhasesInOrderAlways`, `RunsInItsTickAlways`, `RunsOnceAlways` | the four safety properties | every tick, steps, airtimes, number of nodes and events |
| `CommandManagerProofs!OneWaiterAlways`, `OneAtATimeAlways`, `RunningIsCompleteAlways`, `NoRelaunchByItselfAlways` | the four safety properties | any number of threads, configurations, losses |
| `VisualiserProofs!RoutesJoinDevicesAlways`, `InStepAlways` | `RoutesJoinDevices`, `InStep` | every deployment, any number of sessions and commands |
| `ClockProofs!LagIsRelaysAlways` | `LagIsRelays` | any chain, airtime, clock width and number of faults |
| `TopologyEditorProofs!LinksJoinNodesAlways` | `LinksJoinNodes` | any number of devices, whatever the file |
| `TopologyEditorProofs!SavedAsDrawnAlways`, `VerifiedFilesWorkAlways` | `SavedAsDrawn`, `VerifiedFilesWork` | any drawing, files of any length, generated trees of any size |
| `MetricsProofs!TelemetryFindsItsHandler`, `TelemetryReadBack`, `CommandReadBack`, `ListReadBack` | what is written is what is read, and fills the reader's copy of the class; but for the time limit of a launch | every packet, every value, lists of any length |
| `MetricsProofs!PathsFollowChainAlways`, `LatencyShrinksAlways`, `ShownIsRecordedAlways` | `PathsFollowChain`, `LatencyShrinksOnPath`, `ShownIsRecorded` | every routing, any number of transmissions, samples and exports |

Assumptions. `TopologyAssumption`, `SizeAssumption` (`RrcUplink`),
`RoutingAssumption`: C2 and C3 nodes are different, every C2 node has a next hop and
a hop count, a node does not hear itself, sizes are natural numbers, and `NoAck` is
no acknowledgement. Hop counts need not match the routing, reach need not be
symmetric, and loops are allowed, except where the last column says so.
`CycleAssumption` (`TdmaBlueprint`) gives the inputs of a configuration their types, with
durations of any sign: that a schedule is any good is what the configuration checks.
`ClockAssumption`, `ManagerAssumption`, `VisualiserAssumption`, `ClockSyncAssumption`
and the one of `TopologyEditor` say that numbers are numbers and threads have different
names; `SitesAssumption` that the five nodes of `MCUplinkSites` are five and `NoAck` is no
acknowledgement of theirs; `MetricsAssumption` also that the mesh nodes are finitely many, which the export
needs to go through all of them. TLC evaluates every assumption on the instance of each run.

**Uplink.** None of the properties is inductive alone. The argument goes in layers,
each an inductive invariant relative to the ones before it:

1. `ScheduleInv`: the step and the queued transitions determine `nodeState`,
   `isACKSlot` and `secondSleepWindow` of every node, so a handler only ever
   sees a combination it accepts. A node that has just entered a data window is
   one category ahead of one that has not.
2. `CycleInv`: data is in the air only in step 1 and acknowledgements only in
   step 3; a node owes an acknowledgement only in a cycle of its children's
   category and expects one only in a cycle of its own, and whoever owes or
   expects one is awake in the ACK window.
3. `LinkInv`: whatever is in the air or noted as a request agrees with the
   sender's queue and counter, and the ids recorded at the next hop are exactly
   those acknowledged, with or without the current one.
4. `AnswerInv`: every request and every acknowledgement in the air is for the
   packet its addressee waits on, and a node has only one of them.
5. `HearInv`, `OnlyInv`, `ClearInv`, for a symmetric reach: a packet that came
   through was the only one its receiver heard; so a node answers the only sender
   in its reach, hence only one answer reaches a waiting node, and undisturbed.

The refinement follows from layer 3: an arrival stores the head of the sender's
queue under the id that `Held` looks at. `ExactlyOnce` and `FifoPerOrigin` of the
protocol follow from the refinement and from what is proved of `HopByHop`.

**Deployments.** `MCUplinkSites` takes its instances from `RrcUplinkProofs`, so a theorem
of the general model is a theorem of each deployment once its assumptions are proved
for it (`StarAssumptions` and so on: routing, topology and sizes, symmetric reach, and
for the tree that its routing has no loop, `Path` of a next hop being within the nodes
nearer to the gateway). A behaviour stays at the deployment of its first state
(`OneSite`). So the assumptions of the general theorems are met, and by the very
instances that TLC runs.

**Hop by hop.** Lemmas about one hand-over in any table of what the nodes hold:
`ExactlyOnce` is inductive with the types (`StepOnce`). `FifoPerOrigin` is not: a
younger payload could sit nearer to the gateway. `OrderIn` says that an older
payload is further along the path of a younger one (`Path`, the least set closed
under the routing), or before it in the same queue (`StepOrder`).

**Blueprint.** A configuration that is accepted has segments that tile the cycle
(`Tiles`) and patterns of positive steps that tile any run of them (`WithinOne`), so
every time has one segment, one run of the pattern and one step. The flattened cycle
is indexed by these three (`FlattenAt`, `LayoutAt`), hence `LabelIs`: the label of a
time is the place the queries find. The next transition is the first time that is not
at the same place (`StaysTogether`, `Turns`), whichever of the three ends first. For
the chain, `ChainInv` remembers the time at which the queued transition was queued: the
node is in the state of the window of that time, or asleep, and until the transition is
due time is still in the same run of the same step. If no segment has cut a
pattern, a transition that opens a segment comes after a whole number of patterns
(`EndsWhole`), so the step number changes parity at every transition
(`Alternation`), and a node that is in the state of its window accepts what follows
(`Accepted`). Two consequences tie the schedule to the uplink model. With segments of
whole patterns no chain ever ends; the schedule of `SimonV1Factory` is one segment of
24 h, 27000 times 3200 ms. And two classes whose patterns have the same durations, as
its two have, are in the same step at every time and turn at the same time (`SameTurn`),
so by induction along the two chains neither gets a turn ahead: that is what lets
`RrcUplink` have one `step` for all nodes, with some of them still to enter it.

**Clock.** An insertion has an id of its own, so an event is its id (`Identity`).
The iterator is always at the first event left in the map under the walk, with
everything before it erased (`AheadInv`), and what ran in this tick is in order and
before the iterator (`RanInv`). Both rest on handlers never scheduling into a map
already walked.

**Command manager.** `WaiterInv` needs nothing: the flag guards the wait. The other
three hold through `CalmInv`, as long as no connection is lost: the receive thread is
the only one that stops, a pending launch keeps `running` false, and with it false the
receive thread can only stay in its session (`ReceiveAlone`); what exists is what the
thread in the middle of a launch or a stop has made or not yet freed (`ObjectsInv`).

**Visualiser.** Every handler that clears the devices clears the routes afterwards
(`TodoInv`: each rest of a handler is `Legal`), so an arrow looked up before the clear
and inserted after it is cleared with the rest (`InsertInv`, `SceneInv`). That is why
the order of the two clears matters and a common lock is not needed for this. For
`InStep`, as long as no command slipped: `BeliefInv` says that the running flag is what
the simulator will be once it took the last command under way (or is, if there is
none), `UiInv` that a handler begun ends by leaving the pause button as the flag
wants it (`ShownInv` between handlers), `LinkInv` and `AttachInv` that the flags of the
connection agree with it.

**Topology editor.** Links and entries of the drawing are of devices that exist, the
hovered devices too (`DrawingInv`); identifiers of a file are bounded whoever wrote it
(`FileInv`), so the counter can start after the largest. Between a save and the next
screen the file is that of the drawing (`SavedInv`), and a file from the generator stays
one until it is written (`OriginInv`); the rest is about what can be in a file. A walk
that ends visits as many places as it has steps, and one (`WalkCounts`), so the hop
count written is the length of a route, and the route from the next hop is one shorter
(`RouteOfNext`). For a file that passes and has known classes, C1 included, the trace of
the script and the walk of the editor are the same function (`PassedIsDrawn`), and a
route has one length (`OneRoute`), so the editor writes back the hop count it read. In a
generated file each parent is one hop nearer to the root, so the trace is there in as
many steps as counted (`ParentsTrace`).

**Packet formats.** By cases over the packets, member by member; for lists, over the
position of an element.

**Metrics.** `PathInv`: ids are handed out once and only grow, so a chain goes back
through smaller ids to an origin, and the path of an id is that of the id it forwards
with one hop more; a key that a repetition overwrites still leads to an id of the same
node. `DeliveryInv`: a delivery writes one record for each hop of the path, and the next
one comes later. `ExportInv`: the packets under way, read in order, continue what is
shown up to what is marked as exported; an export appends exactly the new part of each
list, and a packet read moves its part from the one to the other. The walk of
`BuildPacketChain` and the concatenation of packets have any length.

**Induction.** The library's induction theorems take a predicate as an operator, which the
provers cannot instantiate. Where a fact needs induction over the length of a chain
or a list, the predicate is given as the set of numbers it holds for: a set of numbers
that is not empty has a least element (`LeastExists`, from the well-foundedness of
`<`), so a set that has 0 and is closed under successor is all of them (`Induction`).

**Clock synchronisation.** All modulo the width of the counter: what a packet on the air
says of the master's clock, and what it still has to travel, differ from that clock by
the delay of its sender (`PacketInv`); taken, it becomes what the slave's own clock and
its two noted times say (`SyncInv`), and from then on both advance together. A time
taken without an interval counts as `foreign` in the histories, so every quotient of the
slaves that remain is one.

## 6. What is not shown

Model-checked only:

* the liveness properties (`AllDelivered`, `PendingIsTransmitted`, `StopReturns`,
  `EventsRun`, `ConfigIsLaunched`, `ConnectionShown`): liveness under fairness is out of
  the prover's reach.

Every safety property of the passing runs is also a theorem. `StepsTogether` is
the other way round: a theorem without a run of its own.

Not modelled:

* C1 in the simulator, which refuses to create one (`DeploymentManager.cpp:171`; in the
  files it is modelled); the log processor (a queue of lines under one
  mutex; the part that orders lines by tick is disconnected: `Logger::logEvent` has
  its call commented out, `Logger.cpp:22`); vendored headers (`magic_enum`).
* Of the deployment: unreadable lines. Of the metrics: the energy model and the
  statistics, arithmetic on what is recorded. Of the GUI: drawing, layout, panels,
  animations, ticks and node states on the screen, the display packets behind them.
  The drop that a failed transmit of the heartbeat itself causes (`TcpServer.cpp:187`): a
  command whose transmit fails ends in the same state, and is modelled.
  Of the firmware: jitter, unequal crystals, the notifier.
* Positions and distances: `Reach` stands for them in the uplink; the editor's range
  circles and the two distance checks of the verification script are left out.

## 7. Observations without a run

Met while modelling; each is in the models' behaviours or outside them, and none is
stated as a property.

*Simulator.* A transition that falls on a mode without a pattern ends in an exception
on the clock's thread (`Node.cpp:245`), and free scheduling has no way back
(`Node.cpp:235`: nothing is queued any more). A mode that lasts for ever
(`IScheduleBlueprint.hpp:42`) has no next transition. A C2 node deployed without a
route uses its slot manager, which is not there (`C2_RRC_UplinkHandler.cpp:187`), though
line 335 handles "No Routing info". A stop that comes right after a launch finds
`waitingForConfig` still set, skips its own wait, and no later configuration is taken
until the next connection. The sender's thread leaves only with an empty queue: stopped
while disconnected it retries for ever and is never joined (`TcpSender.cpp:43`), and what
was queued for one session is sent to the next (`TcpSender.cpp:21`).

*GUI.* A client dropped by a failed transmit or by the heartbeat leaves its socket in
the selector, and the server accepts nothing any more (`TcpServer.cpp:237`, `:197`);
after the former the label still says that the simulator is connected. A drop and
reconnect within one poll of the monitor is not seen (`ClientConnectionMonitor.cpp:34`).
Stop asks `isRunning`, which a pause has cleared, so a paused simulation is not told
(`ProtocolVisualiser.cpp:93`); a stop right after a start is ignored by the simulator.
A restart from pause leaves the pause button visible and disabled. A restart sends its
command before it clears the scene, so early positions can be wiped
(`ProtocolVisualiser.cpp:79`), and metrics packets of the old run fill the cleared store.
An arrow drawn for a message does not need its route (`PacketHandler.cpp:76`), and
`drawRootings` reads the routes without the lock (`RoutingManager.cpp:45`). The total
energy shown adds up samples that are already sums, and calls mAh mJ.

*Packets.* The time limit of a launch is written by the GUI (`Packets.cpp:325`) and
never read by the simulator (`Packets.cpp:328`), though `Packets.hpp:14-19` says that the
two classes should be identical; `CommandReadBack` states it as it is.

*Topology files.* A cut link leaves an empty entry, and a walk across it is then called
ambiguous, so the drawing cannot be saved (`TopologyConfigIO.cpp:41` against the comment at
57). Links that start at a gateway are dropped by the save. The verification script passes
duplicate identifiers (`verify_topology.py:56`, against its line 9), and wants exactly one
gateway where the editor allows several. It passes a device of class C1, or of a class
nobody knows, with a warning (`verify_topology.py:93`, against its line 11), which the
editor opens and saves (`TopologyConfigIO.cpp:225` and `:109`; a C1 only) and the
simulator refuses (`DeploymentManager.cpp:171-179`); `VerifiedFilesWork` states this
disagreement as it is. A file that the editor refuses for an unknown class leaves the
devices of the lines before, without their links.

*Clock synchronisation.* Every relay adds its time on air, about 151 ms: the constant
`transmissionTime` of the slave (`main.cpp:114`) is never added where the packet is built
(`:177`). A slave forwards its own time before it was ever synchronised, and after a
reboot. A packet without delimiter sets the reference to 0.

Three hazards in `PROJECT.json` have no property, for the reason in their notes: the two
of `TcpSender` above, and the positions lost at a restart.
