------------------------------- MODULE RrcUplink -------------------------------
(***************************************************************************)
(* The RRC uplink of the simulator: the C2 and C3 mode handlers, the part  *)
(* of Node that chains state transitions, the physical layer that carries  *)
(* and collides transmissions, and the event maps of Clock that order      *)
(* them.                                                                   *)
(*                                                                         *)
(* One cycle of the TDMA pattern has four steps (variable `step`):         *)
(*   0 main sleep, 1 data window, 2 secondary sleep, 3 ACK window.         *)
(* At the first tick of a step Clock runs the due state transitions, then  *)
(* the communication steps, then the transmission starts; the ends run     *)
(* some ticks later, always before the next step begins, because an        *)
(* airtime (500 or 300 ms) is shorter than its window (1100 ms).  A tick   *)
(* on which no event is due changes nothing, so the model goes from one    *)
(* event to the next.  Events of one map and one time may run in any       *)
(* order here (Clock runs them in order of insertion).                     *)
(***************************************************************************)
EXTENDS Mesh, Integers, FiniteSets

CONSTANTS
  HopCount,        \* hopCount of every C2 node
  Reach,           \* <<a, b>>: b is within distanceThreshold of a
  NodeSlots,       \* maxNodeSlots
  TotalSlots,      \* totalNumberOfSlotsPerModuloNode
  IdMod,           \* 2^(8 * localIDPacketBytesSize), the width of a local id
  NoAck            \* AckInformation holding no request

AckInfo == [to : C2, id : 0..IdMod-1]
DataMsg == [type : {"data"}, from : C2, to : Nodes, id : 0..IdMod-1, payload : Payload]
AckMsg == [type : {"ack"}, from : Nodes, to : C2, id : 0..IdMod-1]
NodeState == {"Sleeping", "Listening", "Transmitting", "Communicating"}

ASSUME TopologyAssumption ==
  /\ HopCount \in [C2 -> Nat]
  /\ Reach \subseteq Nodes \X Nodes
  /\ \A n \in Nodes : <<n, n>> \notin Reach

ASSUME SizeAssumption ==
  /\ NodeSlots \in Nat \ {0}
  /\ TotalSlots \in Nat \ {0}
  /\ NodeSlots <= TotalSlots
  /\ IdMod \in Nat \ {0}
  /\ NoAck \notin AckInfo

VARIABLES
  step,            \* the step of the pattern that the clock is in
  transitions,     \* nodes whose state transition of this step is still queued
  communications,  \* nodes whose communication step is still queued
  rescheduled,     \* nodes that queued their transition of the next step
  starts, ends,    \* transmissions whose start / end callbacks are queued
  heard,           \* transmissionWindowsPerReceiver
  nodeState,       \* currentState
  ack,             \* AckInformation: the data packet to acknowledge, if any
  received,        \* packetsMap / receivedPacketsId: per sender, local ids seen
  isACKSlot, category, isTransmitting, slots, queue, localId,
  isExpectingAck, secondSleepWindow,
  delivered        \* payloads C3 nodes counted as new (history)

clockVars == <<step, transitions, communications, rescheduled>>
airVars == <<starts, ends, heard>>
windowVars == <<isACKSlot, category, isTransmitting, slots>>
linkVars == <<received, queue, localId, delivered>>
retryVars == <<isExpectingAck, secondSleepWindow>>
vars == <<clockVars, airVars, nodeState, ack, windowVars, linkVars, retryVars>>

-------------------------------------------------------------------------------
(* Slots are distinct, so the sorted vector of the slot manager is a set   *)
(* whose least element is its front.                                       *)

SlotChoices == {S \in SUBSET (0..TotalSlots-1) : Cardinality(S) = NodeSlots}

(* A bound: below zero a slot is never due again whatever its value, so    *)
(* the decrement stops at SlotFloor.                                       *)
SlotFloor == -1
\* slip: the slots are not counted down
DecrementNothing(S) == S

Decrement(S) == {IF s > SlotFloor THEN s - 1 ELSE s : s \in S}

CanTransmitNow(S) == 0 \in S /\ \A s \in S : s >= 0

(* The slot set a data window of the node's own category works on.         *)
SlotsInWindow(n) ==
  IF slots[n] = {} /\ queue[n] # << >> THEN SlotChoices ELSE {slots[n]}

FixedCategory(n) == HopCount[n] % 3
ListenCategory(n) == (FixedCategory(n) + 1) % 3

\* slip: the modulo is forgotten
NextCategoryUnbounded(n) ==
  IF isACKSlot[n] THEN category[n] + 1 ELSE category[n]

(* The category of the window a C2 node is about to enter: it moves on     *)
(* when the flipped isACKSlot says that the window is a data window.       *)
NextCategory(n) ==
  IF isACKSlot[n] THEN (category[n] + 1) % 3 ELSE category[n]

(* The step sequence of the blueprint, by class.                           *)
Proposed(n) ==
  IF step \in {0, 2} THEN "Sleeping"
  ELSE IF n \in C2 THEN "Communicating"
  ELSE IF step = 1 THEN "Listening" ELSE "Transmitting"

\* slip: falling asleep after transmitting answers false
C3RefusesToSleep(proposed, current) ==
  \/ proposed \in {"Transmitting", "Listening"} /\ current = "Sleeping"
  \/ proposed = "Sleeping" /\ current = "Listening"

(* The C3 transitions that are accepted; all others answer false.          *)
C3Accepts(proposed, current) ==
  \/ proposed \in {"Transmitting", "Listening"} /\ current = "Sleeping"
  \/ proposed = "Sleeping" /\ current \in {"Transmitting", "Listening"}

-------------------------------------------------------------------------------
Init ==
  /\ step = 1
  /\ transitions = Nodes /\ communications = Nodes /\ rescheduled = {}
  /\ starts = {} /\ ends = {}
  /\ heard = [n \in Nodes |-> {}]
  /\ nodeState = [n \in Nodes |-> "Sleeping"]
  /\ ack = [n \in Nodes |-> NoAck]
  /\ received = [n \in Nodes |-> [m \in C2 |-> {}]]
  /\ isACKSlot = [n \in C2 |-> TRUE]
  /\ category = [n \in C2 |-> 0]
  /\ isTransmitting = [n \in C2 |-> FALSE]
  /\ slots \in [C2 -> SlotChoices]
  /\ queue = [n \in C2 |-> [i \in 1..InitialPayloads |-> <<n, i>>]]
  /\ localId = [n \in C2 |-> 0]
  /\ isExpectingAck = [n \in C2 |-> FALSE]
  /\ secondSleepWindow = [n \in C2 |-> TRUE]
  /\ delivered = [n \in C3 |-> << >>]

-------------------------------------------------------------------------------
(* Phase 1, Node::onTimeChange.  An accepted transition queues the next    *)
(* one; a refused one leaves the node without any further event.           *)

Transition(n, accepted) ==
  /\ n \in transitions
  /\ transitions' = transitions \ {n}
  /\ rescheduled' = IF accepted THEN rescheduled \cup {n} ELSE rescheduled
  /\ UNCHANGED <<step, communications>>

C3OnTimeChange(n) ==
  LET accepted == C3Accepts(Proposed(n), nodeState[n])
  IN /\ Transition(n, accepted)
     /\ nodeState' = [nodeState EXCEPT ![n] = IF accepted THEN Proposed(n) ELSE @]
     /\ UNCHANGED <<airVars, ack, windowVars, linkVars, retryVars>>

\* slip: a node already asleep does not count the sleep window
SleepUncounted(n) ==
  /\ Proposed(n) = "Sleeping" /\ nodeState[n] = "Sleeping"
  /\ Transition(n, TRUE)
  /\ UNCHANGED <<airVars, nodeState, ack, windowVars, linkVars, retryVars>>

C2SleepFromSleeping(n) ==
  /\ Proposed(n) = "Sleeping" /\ nodeState[n] = "Sleeping"
  /\ Transition(n, TRUE)
  /\ secondSleepWindow' = [secondSleepWindow EXCEPT ![n] = ~@]
  /\ UNCHANGED <<airVars, nodeState, ack, windowVars, linkVars, isExpectingAck>>

\* slip: an acknowledgement that did not come is waited for ever after
SleepStillWaiting(n) ==
  /\ Proposed(n) = "Sleeping" /\ nodeState[n] = "Communicating"
  /\ Transition(n, TRUE)
  /\ secondSleepWindow' = [secondSleepWindow EXCEPT ![n] = ~@]
  /\ nodeState' = [nodeState EXCEPT ![n] = "Sleeping"]
  /\ UNCHANGED <<airVars, ack, windowVars, linkVars, isExpectingAck>>

(* Falling asleep after an ACK window gives up on the acknowledgement: the *)
(* packet stays at the head of the queue, to be sent again.                *)
C2SleepFromCommunicating(n) ==
  /\ Proposed(n) = "Sleeping" /\ nodeState[n] = "Communicating"
  /\ Transition(n, TRUE)
  /\ secondSleepWindow' = [secondSleepWindow EXCEPT ![n] = ~@]
  /\ isExpectingAck' = [isExpectingAck EXCEPT ![n] = @ /\ ~secondSleepWindow'[n]]
  /\ nodeState' = [nodeState EXCEPT ![n] = "Sleeping"]
  /\ UNCHANGED <<airVars, ack, windowVars, linkVars>>

(* canCommunicateFromSleeping: what every path through it does.            *)
EnterWindow(n) ==
  /\ Proposed(n) = "Communicating" /\ nodeState[n] = "Sleeping"
  /\ Transition(n, TRUE)
  /\ isACKSlot' = [isACKSlot EXCEPT ![n] = ~@]
  /\ category' = [category EXCEPT ![n] = NextCategory(n)]
  /\ isTransmitting' = [isTransmitting EXCEPT ![n] = FALSE]
  /\ UNCHANGED <<airVars, ack, linkVars, retryVars>>

WakeUp(n) == nodeState' = [nodeState EXCEPT ![n] = "Communicating"]

\* slip: the category is checked before the window is counted
SleepThroughUncounted(n) ==
  /\ Proposed(n) = "Communicating" /\ nodeState[n] = "Sleeping"
  /\ category[n] \notin {FixedCategory(n), ListenCategory(n)}
  /\ Transition(n, TRUE)
  /\ UNCHANGED <<airVars, nodeState, ack, windowVars, linkVars, retryVars>>

(* A window of the third category concerns neither the node nor a child.   *)
SleepThroughWindow(n) ==
  /\ EnterWindow(n)
  /\ NextCategory(n) \notin {FixedCategory(n), ListenCategory(n)}
  /\ UNCHANGED <<nodeState, slots>>

\* slips: only one of the two reasons to wake up in an ACK window is tested
ExpectsAck(n) == isExpectingAck[n]
OwesAck(n) == ack[n] # NoAck

WakesForAck(n) == ack[n] # NoAck \/ isExpectingAck[n]

(* An ACK window, when isACKSlot is about to become true.                  *)
EnterAckWindow(n) ==
  /\ EnterWindow(n)
  /\ NextCategory(n) \in {FixedCategory(n), ListenCategory(n)}
  /\ ~isACKSlot[n]
  /\ IF WakesForAck(n) THEN WakeUp(n) ELSE UNCHANGED nodeState
  /\ UNCHANGED slots

(* The data window of the children's category.                             *)
WakeToListen(n) ==
  /\ EnterWindow(n)
  /\ isACKSlot[n] /\ NextCategory(n) = ListenCategory(n)
  /\ WakeUp(n)
  /\ UNCHANGED slots

(* The data window of the node's own category: either one of its slots is  *)
(* due and there is something to send, or it sleeps on.                    *)
WakeToTransmit(n) ==
  /\ EnterWindow(n)
  /\ isACKSlot[n] /\ NextCategory(n) = FixedCategory(n)
  /\ \E S \in SlotsInWindow(n) :
       /\ CanTransmitNow(S) /\ queue[n] # << >>
       /\ slots' = [slots EXCEPT ![n] = Decrement(S \ {0})]
  /\ WakeUp(n)

PassSlot(n) ==
  /\ EnterWindow(n)
  /\ isACKSlot[n] /\ NextCategory(n) = FixedCategory(n)
  /\ \E S \in SlotsInWindow(n) :
       /\ ~(CanTransmitNow(S) /\ queue[n] # << >>)
       /\ slots' = [slots EXCEPT ![n] = Decrement(S)]
  /\ UNCHANGED nodeState

C2OnTimeChange(n) ==
  \/ C2SleepFromSleeping(n)
  \/ C2SleepFromCommunicating(n)
  \/ SleepThroughWindow(n)
  \/ EnterAckWindow(n)
  \/ WakeToListen(n)
  \/ WakeToTransmit(n)
  \/ PassSlot(n)

-------------------------------------------------------------------------------
(* Phase 2, handleCommunication.                                           *)

Communication(n) ==
  /\ transitions = {} /\ n \in communications
  /\ communications' = communications \ {n}
  /\ UNCHANGED <<step, transitions, rescheduled>>

(* PhyLayer::processTransmission queues the start and the end callbacks.   *)
Emit(msgs) ==
  /\ starts' = starts \cup msgs
  /\ ends' = ends \cup msgs
  /\ UNCHANGED heard

OwnDataWindow(n) == ~isACKSlot[n] /\ category[n] = FixedCategory(n)

(* The head of the queue is sent under the current local id, cut to the    *)
(* width of the field; it leaves the queue only when it is acknowledged.   *)
DataPacket(n) ==
  IF queue[n] = << >> THEN {}
  ELSE {[type |-> "data", from |-> n, to |-> NextHop[n],
         id |-> localId[n] % IdMod, payload |-> Head(queue[n])]}

\* slip: the packet leaves the queue when it is sent
TransmitDataPopping(n) ==
  /\ Communication(n)
  /\ nodeState[n] = "Communicating" /\ OwnDataWindow(n)
  /\ isTransmitting' = [isTransmitting EXCEPT ![n] = TRUE]
  /\ Emit(DataPacket(n))
  /\ isExpectingAck' = [isExpectingAck EXCEPT ![n] = TRUE]
  /\ queue' = [queue EXCEPT ![n] = Tail(@)]
  /\ UNCHANGED <<nodeState, ack, isACKSlot, category, slots, received, localId,
                 delivered, secondSleepWindow>>

C2TransmitData(n) ==
  /\ Communication(n)
  /\ nodeState[n] = "Communicating" /\ OwnDataWindow(n)
  /\ isTransmitting' = [isTransmitting EXCEPT ![n] = TRUE]
  /\ Emit(DataPacket(n))
  /\ isExpectingAck' = [isExpectingAck EXCEPT ![n] = TRUE]
  /\ UNCHANGED <<nodeState, ack, isACKSlot, category, slots, linkVars,
                 secondSleepWindow>>

\* slip: the request is not reset
RequestKept(n) == ack

(* getAndResetAckInformation, shouldReplyACK = false.                      *)
RequestReset(n) == [ack EXCEPT ![n] = NoAck]

AckPacket(n) ==
  {[type |-> "ack", from |-> n, to |-> ack[n].to, id |-> ack[n].id]}

C2TransmitAck(n) ==
  /\ Communication(n)
  /\ nodeState[n] = "Communicating" /\ ~OwnDataWindow(n) /\ ack[n] # NoAck
  /\ isTransmitting' = [isTransmitting EXCEPT ![n] = TRUE]
  /\ Emit(AckPacket(n))
  /\ ack' = RequestReset(n)
  /\ UNCHANGED <<nodeState, isACKSlot, category, slots, linkVars, retryVars>>

C2StaySilent(n) ==
  /\ Communication(n)
  /\ \/ nodeState[n] # "Communicating"
     \/ ~OwnDataWindow(n) /\ ack[n] = NoAck
  /\ UNCHANGED <<airVars, nodeState, ack, windowVars, linkVars, retryVars>>

C3TransmitAck(n) ==
  /\ Communication(n)
  /\ nodeState[n] = "Transmitting" /\ ack[n] # NoAck
  /\ Emit(AckPacket(n))
  /\ ack' = RequestReset(n)
  /\ UNCHANGED <<nodeState, windowVars, linkVars, retryVars>>

C3StaySilent(n) ==
  /\ Communication(n)
  /\ nodeState[n] # "Transmitting" \/ ack[n] = NoAck
  /\ UNCHANGED <<airVars, nodeState, ack, windowVars, linkVars, retryVars>>

-------------------------------------------------------------------------------
(* Phase 3, the callbacks of PhyLayer::processTransmission.  A node sends  *)
(* at most once in a window, so a window entry is named by its sender.     *)

Receivers(m) == {r \in Nodes : <<m.from, r>> \in Reach}

(* A transmission interrupts, and is interrupted by, every one the         *)
(* receiver is hearing already: all those of one step overlap.             *)
TransmissionStart(m) ==
  /\ transitions = {} /\ communications = {} /\ m \in starts
  /\ starts' = starts \ {m}
  /\ heard' = [r \in Nodes |->
       IF r \in Receivers(m)
       THEN [sender : {w.sender : w \in heard[r]}, isInterrupted : {TRUE}]
              \cup {[sender |-> m.from, isInterrupted |-> heard[r] # {}]}
       ELSE heard[r]]
  /\ UNCHANGED <<clockVars, ends, nodeState, ack, windowVars, linkVars, retryVars>>

(* The end callbacks of m: the window entries go, and of the receivers     *)
(* only the addressee can act on the packet.                               *)
TransmissionEnd(m) ==
  /\ transitions = {} /\ communications = {} /\ starts = {} /\ m \in ends
  /\ ends' = ends \ {m}
  /\ heard' = [r \in Nodes |-> {w \in heard[r] : w.sender # m.from}]
  /\ UNCHANGED <<clockVars, starts, nodeState, windowVars, secondSleepWindow>>

HeardClean(m) == [sender |-> m.from, isInterrupted |-> FALSE] \in heard[m.to]

CanNodeReceiveMessage(n) ==
  IF n \in C2 THEN \/ nodeState[n] = "Listening"
                   \/ nodeState[n] = "Communicating" /\ ~isTransmitting[n]
              ELSE nodeState[n] = "Listening"

AcceptsData(m) ==
  /\ m.type = "data" /\ HeardClean(m) /\ CanNodeReceiveMessage(m.to)
  /\ m.to \in C2 => ~isACKSlot[m.to]

AcceptsAck(m) ==
  /\ m.type = "ack" /\ HeardClean(m) /\ CanNodeReceiveMessage(m.to)
  /\ m.to \in C2 /\ isACKSlot[m.to]

IsNew(m) == m.id \notin received[m.to][m.from]

\* slip: the id is not recorded
RecordNothing(m) == received

Record(m) == [received EXCEPT ![m.to][m.from] = @ \cup {m.id}]

\* slip: a forwarded packet overtakes those already queued
PushInFront(m) == [queue EXCEPT ![m.to] = <<m.payload>> \o @]

Push(m) == [queue EXCEPT ![m.to] = Append(@, m.payload)]

(* A data packet is always acknowledged, and kept only if its id is new.   *)
ReceiveData(m) ==
  /\ TransmissionEnd(m) /\ AcceptsData(m)
  /\ ack' = [ack EXCEPT ![m.to] = [to |-> m.from, id |-> m.id]]
  /\ received' = Record(m)
  /\ queue' = IF m.to \in C2 /\ IsNew(m) THEN Push(m) ELSE queue
  /\ delivered' = IF m.to \in C3 /\ IsNew(m)
                  THEN [delivered EXCEPT ![m.to] = Append(@, m.payload)]
                  ELSE delivered
  /\ UNCHANGED <<localId, isExpectingAck>>

\* slip: the counter is compared after the cut to the field's width
MatchesCutCounter(m) == m.id = localId[m.to] % IdMod

MatchesCounter(m) == m.id = localId[m.to]

\* slip: the counter does not move on
NotCounted(m) == localId

Counted(m) == [localId EXCEPT ![m.to] = @ + 1]

(* The acknowledgement of the current packet releases it.                  *)
ReceiveAck(m) ==
  /\ TransmissionEnd(m) /\ AcceptsAck(m) /\ MatchesCounter(m)
  /\ queue' = [queue EXCEPT ![m.to] = IF @ = << >> THEN @ ELSE Tail(@)]
  /\ localId' = Counted(m)
  /\ isExpectingAck' = [isExpectingAck EXCEPT ![m.to] = FALSE]
  /\ UNCHANGED <<ack, received, delivered>>

(* Interference, a deaf receiver, the wrong kind of window or an           *)
(* acknowledgement of another id: nothing but the display changes.         *)
LosePacket(m) ==
  /\ TransmissionEnd(m)
  /\ ~AcceptsData(m) /\ ~(AcceptsAck(m) /\ MatchesCounter(m))
  /\ UNCHANGED <<ack, linkVars, isExpectingAck>>

-------------------------------------------------------------------------------
(* The clock reaches the next step once every event of this one has run.   *)
NextStep ==
  /\ transitions = {} /\ communications = {} /\ starts = {} /\ ends = {}
  /\ step' = (step + 1) % 4
  /\ transitions' = rescheduled /\ communications' = rescheduled
  /\ rescheduled' = {}
  /\ UNCHANGED <<airVars, nodeState, ack, windowVars, linkVars, retryVars>>

Next ==
  \/ \E n \in C2 : C2OnTimeChange(n)
  \/ \E n \in C3 : C3OnTimeChange(n)
  \/ \E n \in C2 : C2TransmitData(n) \/ C2TransmitAck(n) \/ C2StaySilent(n)
  \/ \E n \in C3 : C3TransmitAck(n) \/ C3StaySilent(n)
  \/ \E m \in starts : TransmissionStart(m)
  \/ \E m \in ends : ReceiveData(m) \/ ReceiveAck(m) \/ LosePacket(m)
  \/ NextStep

Spec == Init /\ [][Next]_vars

(* The clock thread loops for as long as the simulation runs.              *)
FairSpec == Spec /\ WF_vars(Next)

-------------------------------------------------------------------------------
TypeOK ==
  /\ step \in 0..3
  /\ transitions \subseteq Nodes /\ communications \subseteq Nodes
  /\ rescheduled \subseteq Nodes
  /\ starts \subseteq ends /\ ends \subseteq DataMsg \cup AckMsg
  /\ heard \in [Nodes -> SUBSET [sender : Nodes, isInterrupted : BOOLEAN]]
  /\ nodeState \in [Nodes -> NodeState]
  /\ ack \in [Nodes -> AckInfo \cup {NoAck}]
  /\ received \in [Nodes -> [C2 -> SUBSET (0..IdMod-1)]]
  /\ isACKSlot \in [C2 -> BOOLEAN] /\ category \in [C2 -> 0..2]
  /\ isTransmitting \in [C2 -> BOOLEAN]
  /\ slots \in [C2 -> SUBSET (SlotFloor..TotalSlots-1)]
  /\ queue \in [C2 -> Seq(Payload)] /\ localId \in [C2 -> Nat]
  /\ isExpectingAck \in [C2 -> BOOLEAN] /\ secondSleepWindow \in [C2 -> BOOLEAN]
  /\ delivered \in [C3 -> Seq(Payload)]

(* No node drops out of the schedule: each one has its transition of this  *)
(* step still queued or has queued the next one, never neither and never   *)
(* both.  Node::onTimeChange queues nothing after a refused transition, so *)
(* a single refusal, of either class, would silence the node for good.     *)
NeverFrozen == transitions \cup rescheduled = Nodes /\ transitions \cap rescheduled = {}

(* isACKSlot and the category are counted by each node on its own, also in *)
(* the windows it sleeps through, and are never exchanged: they still say  *)
(* of every node, at any time, which window of the pattern it is in, and   *)
(* agree on the category with every node that has entered the same window. *)
WindowsAgree ==
  /\ \A n \in C2 : isACKSlot[n] <=> \/ step = 0
                                    \/ step = 1 /\ n \in transitions
                                    \/ step = 3 /\ n \notin transitions
  /\ \A n, m \in C2 :
       \/ step = 1 /\ (n \in transitions <=> m \notin transitions)
       \/ category[n] = category[m]

(* A request to acknowledge, noted when data arrives, is answered in the   *)
(* ACK window of the same cycle: it never survives into another data       *)
(* window, where handleCommunication would send the ACK as if it were one. *)
AckBeforeNextData ==
  \A n \in Nodes : ack[n] # NoAck =>
    \/ step = 1 /\ transitions = {} /\ communications = {}
    \/ step = 2
    \/ step = 3 /\ n \in communications

(* A C2 node waits for an acknowledgement only from its data window to the *)
(* end of the next ACK window (the parity of secondSleepWindow, toggled in *)
(* every sleep transition, decides that), and never in a cycle in which it *)
(* owes one: receiving from a child and sending to the parent exclude each *)
(* other.                                                                  *)
WaitsWithinOneCycle ==
  \A n \in C2 : isExpectingAck[n] =>
    /\ ack[n] = NoAck
    /\ step = 0 => n \in transitions
    /\ step = 1 => n \notin transitions \cup communications

(* Nobody gives up too early either: while a node owes an acknowledgement, *)
(* the one it owes it to still waits, on the very packet it is for.  What  *)
(* one node noted and what another node's sleep parity decides agree.      *)
OwedIsAwaited ==
  \A n \in Nodes : ack[n] # NoAck =>
    /\ isExpectingAck[ack[n].to]
    /\ ack[n].id = localId[ack[n].to] % IdMod

(* Every acknowledgement in the air is for the packet its addressee is     *)
(* waiting on, never for an earlier one: matching by id alone in           *)
(* handleAckPacketReception cannot release the wrong packet.               *)
NoStaleAck ==
  \A m \in ends : m.type = "ack" =>
    /\ isExpectingAck[m.to] /\ m.id = localId[m.to] % IdMod
    /\ m.from = NextHop[m.to]

(* Every data packet in the air is the current head of its sender's queue  *)
(* under its current id, so a retransmission repeats the same packet.      *)
DataIsHead ==
  \A m \in ends : m.type = "data" =>
    /\ queue[m.from] # << >> /\ m.payload = Head(queue[m.from])
    /\ m.to = NextHop[m.from] /\ m.id = localId[m.from] % IdMod

(* The two ends of a link agree up to the packet in transit: the next hop  *)
(* has seen exactly the ids acknowledged so far, or those and the current  *)
(* one.  Past the last id of the 16-bit field the sender's counter stops.  *)
LinkAgreement ==
  \A n \in C2 :
    /\ localId[n] <= IdMod
    /\ \/ received[NextHop[n]][n] = 0..(localId[n] - 1)
       \/ localId[n] < IdMod /\ received[NextHop[n]][n] = 0..localId[n]

(* Once every start of an ACK window has run, each acknowledgement reaches *)
(* its addressee awake and undisturbed.  Where reach is symmetric, as      *)
(* PhyLayer's distance threshold makes it, a second acknowledgement heard  *)
(* there would come from a node that heard the addressee's data too, and   *)
(* so lost the packet it now acknowledges: the loss for which              *)
(* receiveMessage acknowledges duplicates cannot happen.                   *)
AckAlwaysHeard ==
  \A m \in ends :
    m.type = "ack" /\ communications = {} /\ starts = {} => AcceptsAck(m)

(* A packet leaves a queue only when the next hop has stored it (or passed *)
(* it on): the pop in handleAckPacketReception never loses a payload.      *)
PopOnlyStored ==
  [][\A n \in C2 : Len(queue'[n]) < Len(queue[n]) =>
       localId[n] \in received[NextHop[n]][n]]_vars

-------------------------------------------------------------------------------
(* The abstract network.  The head of a queue that the next hop has stored *)
(* is held there already; the sender merely does not know it yet.          *)

Held == [n \in Nodes |->
  IF n \in C3 THEN delivered[n]
  ELSE IF localId[n] \in received[NextHop[n]][n] THEN Tail(queue[n]) ELSE queue[n]]

Abstract == INSTANCE HopByHop WITH held <- Held

(* The protocol implements the hop-by-hop hand-over.                       *)
ImplementsHopByHop == Abstract!Spec

(* Every payload is in one place and only one, whatever acknowledgements   *)
(* or data packets are lost (see HopByHop).                                *)
ExactlyOnce == Abstract!ExactlyOnce

(* The gateways get the payloads of each originator in order.              *)
FifoPerOrigin == Abstract!FifoPerOrigin

-------------------------------------------------------------------------------
Transmitted(n) == \E m \in ends : m.type = "data" /\ m.from = n

(* A slot of n came up while its queue was empty.                          *)
MissedSlot(n) == \E s \in slots[n] : s < 0

(* A node with a payload that its next hop does not have yet, and no slot  *)
(* that it let pass, transmits: drawing new slots waits on nothing else.   *)
PendingIsTransmitted ==
  \A n \in C2 : (Held[n] # << >> /\ ~MissedSlot(n)) ~> Transmitted(n)

(* A node with payloads still to send has a slot still to come, or none at *)
(* all so that the next window of its category draws new ones: "Refill     *)
(* slots if we've exhausted them but still have payloads to send"          *)
(* (C2_RRC_UplinkHandler.cpp:275).                                         *)
SlotsServePayloads ==
  \A n \in C2 : Held[n] # << >> /\ slots[n] # {} => \E s \in slots[n] : s >= 0

(* Every payload reaches a gateway.                                        *)
AllDelivered ==
  \A p \in Payload : <>(\E g \in C3 : \E i \in DOMAIN delivered[g] : delivered[g][i] = p)
===============================================================================
