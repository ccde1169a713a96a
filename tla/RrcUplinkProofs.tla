---------------------------- MODULE RrcUplinkProofs ----------------------------
(***************************************************************************)
(* RrcUplink proved for every topology, number of payloads and slots and   *)
(* width of the local id: the types, the schedule (no node freezes, the    *)
(* windows agree), the acknowledgement cycle, the two ends of a link, the  *)
(* refinement of HopByHop and what HopByHop promises.  NextHop, HopCount   *)
(* and Reach are arbitrary here: nothing is asked of the routing but that  *)
(* a node does not hear itself; only the order of payloads needs a routing *)
(* without loops.                                                          *)
(***************************************************************************)
EXTENDS RrcUplink, SequenceTheorems, TLAPS

(***************************************************************************)
(* The schedule.  One node's variables and the queued transitions say      *)
(* which step the clock is in, so the state a transition finds is known.   *)
(***************************************************************************)
ScheduleInv ==
  /\ NeverFrozen
  /\ transitions \subseteq communications
  /\ \A n \in Nodes :
       /\ step \in {1, 3} /\ n \in transitions => nodeState[n] = "Sleeping"
       /\ step \in {0, 2} /\ n \notin transitions => nodeState[n] = "Sleeping"
  /\ \A n \in C2 : nodeState[n] \in {"Sleeping", "Communicating"}
  /\ \A n \in C3 :
       /\ nodeState[n] \in {"Sleeping", "Listening", "Transmitting"}
       /\ step = 1 /\ n \notin transitions => nodeState[n] = "Listening"
       /\ step = 3 /\ n \notin transitions => nodeState[n] = "Transmitting"
       /\ step \in {0, 2} /\ n \in transitions => nodeState[n] # "Sleeping"
  /\ \A n \in C2 : secondSleepWindow[n] <=> \/ step = 1
                                            \/ step = 0 /\ n \notin transitions
                                            \/ step = 2 /\ n \in transitions
  /\ WindowsAgree
  /\ \A n, m \in C2 : step = 1 /\ n \in transitions /\ m \notin transitions =>
       category[m] = (category[n] + 1) % 3

(***************************************************************************)
(* One cycle: who is awake for what.  A node is a sender in the windows of *)
(* its own category and a receiver in those of its children's, so it never *)
(* owes and expects an acknowledgement in the same cycle.                  *)
(***************************************************************************)
CycleInv ==
  /\ AckBeforeNextData
  /\ WaitsWithinOneCycle
  /\ \A m \in ends : (m.type = "data" => step = 1) /\ (m.type = "ack" => step = 3)
  /\ \A n \in C2 :
       /\ ack[n] # NoAck => category[n] = ListenCategory(n)
       /\ isExpectingAck[n] => category[n] = FixedCategory(n)
       /\ WakesForAck(n) /\ ((step = 3 /\ n \notin transitions) \/ (step = 0 /\ n \in transitions)) =>
            nodeState[n] = "Communicating"
       /\ step = 1 /\ n \notin transitions /\ nodeState[n] = "Communicating" =>
            /\ category[n] \in {FixedCategory(n), ListenCategory(n)}
            /\ category[n] = FixedCategory(n) /\ n \notin communications => isTransmitting[n]

(* Counting down keeps slots within the bound.                             *)
LEMMA SlotTypes ==
  /\ SlotChoices \subseteq SUBSET (SlotFloor..TotalSlots-1)
  /\ \A S \in SUBSET (SlotFloor..TotalSlots-1) :
       Decrement(S) \in SUBSET (SlotFloor..TotalSlots-1)
<1>. TotalSlots \in Nat BY SizeAssumption
<1>. QED BY DEF SlotChoices, SlotFloor, Decrement

(* A data packet built from a well-typed state is well typed.              *)
LEMMA DataPacketType ==
  ASSUME TypeOK, NEW n \in C2
  PROVE  DataPacket(n) \subseteq DataMsg
<1>1. localId[n] % IdMod \in 0..IdMod-1
  BY SizeAssumption DEF TypeOK
<1>2. NextHop[n] \in Nodes
  BY RoutingAssumption
<1>3. queue[n] # << >> => Head(queue[n]) \in Payload
  BY DEF TypeOK
<1>. QED BY <1>1, <1>2, <1>3 DEF DataPacket, DataMsg

(* So is an acknowledgement built from a noted request.                    *)
LEMMA AckPacketType ==
  ASSUME TypeOK, NEW n \in Nodes, ack[n] # NoAck
  PROVE  AckPacket(n) \subseteq AckMsg
<1>1. ack[n] \in AckInfo
  BY DEF TypeOK
<1>. QED BY <1>1 DEF AckPacket, AckInfo, AckMsg

(* Every variable has its type in the initial states.                      *)
LEMMA TypeInit == Init => TypeOK
<1>. SUFFICES ASSUME Init PROVE TypeOK
  OBVIOUS
<1>1. slots \in [C2 -> SUBSET (SlotFloor..TotalSlots-1)]
  BY SlotTypes DEF Init
<1>2. queue \in [C2 -> Seq(Payload)]
  <2>1. \A n \in C2 : [i \in 1..InitialPayloads |-> <<n, i>>] \in Seq(Payload)
    BY InitialPayloadsAssumption DEF Payload
  <2>. QED BY <2>1 DEF Init
<1>3. delivered \in [C3 -> Seq(Payload)]
  BY DEF Init
<1>. QED BY <1>1, <1>2, <1>3 DEF Init, TypeOK, NodeState, Nodes

(* Every handler and callback keeps the types.                             *)
LEMMA TypeStep == TypeOK /\ [Next]_vars => TypeOK'
<1>. SUFFICES ASSUME TypeOK, [Next]_vars PROVE TypeOK'
  OBVIOUS
<1>1. ASSUME NEW n \in C2, C2OnTimeChange(n) PROVE TypeOK'
  <2>. USE DEF Transition
  <2>1. CASE C2SleepFromSleeping(n)
    BY <2>1 DEF C2SleepFromSleeping, TypeOK, Nodes, airVars, windowVars, linkVars
  <2>2. CASE C2SleepFromCommunicating(n)
    BY <2>2 DEF C2SleepFromCommunicating, TypeOK, Nodes, NodeState, airVars, windowVars, linkVars
  <2>3. ASSUME EnterWindow(n),
               nodeState' \in [Nodes -> NodeState],
               slots' \in [C2 -> SUBSET (SlotFloor..TotalSlots-1)]
        PROVE  TypeOK'
    <3>1. NextCategory(n) \in 0..2
      BY DEF NextCategory, TypeOK
    <3>2. isACKSlot' \in [C2 -> BOOLEAN] /\ category' \in [C2 -> 0..2]
      BY <2>3, <3>1 DEF EnterWindow, TypeOK
    <3>. QED BY <2>3, <3>2 DEF EnterWindow, TypeOK, Nodes, airVars, linkVars, retryVars
  <2>4. WakeUp(n) => nodeState' \in [Nodes -> NodeState]
    BY DEF WakeUp, TypeOK, Nodes, NodeState
  <2>5. ASSUME NEW S \in SlotsInWindow(n)
        PROVE  /\ [slots EXCEPT ![n] = Decrement(S \ {0})] \in [C2 -> SUBSET (SlotFloor..TotalSlots-1)]
               /\ [slots EXCEPT ![n] = Decrement(S)] \in [C2 -> SUBSET (SlotFloor..TotalSlots-1)]
    <3>1. S \in SUBSET (SlotFloor..TotalSlots-1)
      BY SlotTypes DEF SlotsInWindow, TypeOK
    <3>2. Decrement(S) \in SUBSET (SlotFloor..TotalSlots-1)
      BY <3>1, SlotTypes
    <3>3. Decrement(S \ {0}) \in SUBSET (SlotFloor..TotalSlots-1)
      BY <3>1, SlotTypes
    <3>. QED BY <3>2, <3>3 DEF TypeOK
  <2>6. CASE SleepThroughWindow(n)
    BY <2>3, <2>6 DEF SleepThroughWindow, TypeOK
  <2>7. CASE EnterAckWindow(n)
    BY <2>3, <2>4, <2>7 DEF EnterAckWindow, TypeOK
  <2>8. CASE WakeToListen(n)
    BY <2>3, <2>4, <2>8 DEF WakeToListen, TypeOK
  <2>9. CASE WakeToTransmit(n)
    BY <2>3, <2>4, <2>5, <2>9 DEF WakeToTransmit
  <2>10. CASE PassSlot(n)
    BY <2>3, <2>5, <2>10 DEF PassSlot, TypeOK
  <2>. QED BY <1>1, <2>1, <2>2, <2>6, <2>7, <2>8, <2>9, <2>10 DEF C2OnTimeChange
<1>2. ASSUME NEW n \in C3, C3OnTimeChange(n) PROVE TypeOK'
  BY <1>2 DEF C3OnTimeChange, Transition, Proposed, TypeOK, Nodes, NodeState,
       airVars, windowVars, linkVars, retryVars
<1>3. ASSUME NEW n \in C2, C2TransmitData(n) PROVE TypeOK'
  BY <1>3, DataPacketType DEF C2TransmitData, Communication, Emit, TypeOK, linkVars
<1>4. ASSUME NEW n \in C2, C2TransmitAck(n) PROVE TypeOK'
  <2>1. AckPacket(n) \subseteq AckMsg
    BY <1>4, AckPacketType DEF C2TransmitAck, Nodes
  <2>. QED BY <1>4, <2>1 DEF C2TransmitAck, RequestReset, Communication, Emit, TypeOK,
         linkVars, retryVars
<1>5. ASSUME NEW n \in C2, C2StaySilent(n) PROVE TypeOK'
  BY <1>5 DEF C2StaySilent, Communication, TypeOK, airVars, windowVars, linkVars, retryVars
<1>6. ASSUME NEW n \in C3, C3TransmitAck(n) PROVE TypeOK'
  <2>1. AckPacket(n) \subseteq AckMsg
    BY <1>6, AckPacketType DEF C3TransmitAck, Nodes
  <2>. QED BY <1>6, <2>1 DEF C3TransmitAck, RequestReset, Communication, Emit, TypeOK,
         windowVars, linkVars, retryVars
<1>7. ASSUME NEW n \in C3, C3StaySilent(n) PROVE TypeOK'
  BY <1>7 DEF C3StaySilent, Communication, TypeOK, airVars, windowVars, linkVars, retryVars
<1>8. ASSUME NEW m \in starts, TransmissionStart(m) PROVE TypeOK'
  <2>1. m.from \in Nodes
    BY DEF TypeOK, DataMsg, AckMsg, Nodes
  <2>2. heard' \in [Nodes -> SUBSET [sender : Nodes, isInterrupted : BOOLEAN]]
    <3>1. ASSUME NEW r \in Nodes
          PROVE  [sender : {w.sender : w \in heard[r]}, isInterrupted : {TRUE}]
                   \cup {[sender |-> m.from, isInterrupted |-> heard[r] # {}]}
                 \in SUBSET [sender : Nodes, isInterrupted : BOOLEAN]
      <4>1. \A w \in heard[r] : w.sender \in Nodes
        BY DEF TypeOK
      <4>2. [sender : {w.sender : w \in heard[r]}, isInterrupted : {TRUE}]
              \subseteq [sender : Nodes, isInterrupted : BOOLEAN]
        BY <4>1
      <4>3. (heard[r] # {}) \in BOOLEAN
        OBVIOUS
      <4>4. [sender |-> m.from, isInterrupted |-> heard[r] # {}]
              \in [sender : Nodes, isInterrupted : BOOLEAN]
        BY <2>1, <4>3, Zenon
      <4>. QED BY <4>2, <4>4
    <3>2. \A r \in Nodes : heard[r] \in SUBSET [sender : Nodes, isInterrupted : BOOLEAN]
      BY DEF TypeOK
    <3>. QED BY <1>8, <3>1, <3>2 DEF TransmissionStart
  <2>. QED BY <1>8, <2>2 DEF TransmissionStart, TypeOK, clockVars, windowVars, linkVars, retryVars
<1>9. ASSUME NEW m \in ends, TransmissionEnd(m) 
      PROVE /\ ends' \subseteq DataMsg \cup AckMsg /\ starts' \subseteq ends'
            /\ heard' \in [Nodes -> SUBSET [sender : Nodes, isInterrupted : BOOLEAN]]
            /\ UNCHANGED <<clockVars, nodeState, windowVars, secondSleepWindow>>
  <2>1. heard' \in [Nodes -> SUBSET [sender : Nodes, isInterrupted : BOOLEAN]]
    BY <1>9 DEF TransmissionEnd, TypeOK
  <2>2. ends' \subseteq DataMsg \cup AckMsg /\ starts' \subseteq ends'
    BY <1>9 DEF TransmissionEnd, TypeOK
  <2>. QED BY <1>9, <2>1, <2>2 DEF TransmissionEnd
<1>10. ASSUME NEW m \in ends, ReceiveData(m) PROVE TypeOK'
  <2>1. m \in DataMsg
    BY <1>10 DEF ReceiveData, AcceptsData, TypeOK, AckMsg
  <2>2. /\ m.from \in C2 /\ m.to \in Nodes /\ m.id \in 0..IdMod-1 /\ m.payload \in Payload
    BY <2>1 DEF DataMsg
  <2>3. ack' \in [Nodes -> AckInfo \cup {NoAck}]
    BY <1>10, <2>2 DEF ReceiveData, TypeOK, AckInfo
  <2>4. received' \in [Nodes -> [C2 -> SUBSET (0..IdMod-1)]]
    BY <1>10, <2>2 DEF ReceiveData, Record, TypeOK
  <2>5. queue' \in [C2 -> Seq(Payload)]
    BY <1>10, <2>2 DEF ReceiveData, Push, TypeOK
  <2>6. delivered' \in [C3 -> Seq(Payload)]
    BY <1>10, <2>2 DEF ReceiveData, TypeOK
  <2>. QED BY <1>9, <1>10, <2>3, <2>4, <2>5, <2>6 DEF ReceiveData, TypeOK, clockVars, windowVars
<1>11. ASSUME NEW m \in ends, ReceiveAck(m) PROVE TypeOK'
  <2>1. m.to \in C2
    BY <1>11 DEF ReceiveAck, AcceptsAck
  <2>2. queue' \in [C2 -> Seq(Payload)]
    BY <1>11, <2>1 DEF ReceiveAck, TypeOK
  <2>3. localId' \in [C2 -> Nat]
    BY <1>11, <2>1 DEF ReceiveAck, Counted, TypeOK
  <2>4. isExpectingAck' \in [C2 -> BOOLEAN]
    BY <1>11, <2>1 DEF ReceiveAck, TypeOK
  <2>. QED BY <1>9, <1>11, <2>2, <2>3, <2>4 DEF ReceiveAck, TypeOK, clockVars, windowVars
<1>12. ASSUME NEW m \in ends, LosePacket(m) PROVE TypeOK'
  BY <1>9, <1>12 DEF LosePacket, TypeOK, clockVars, windowVars, linkVars
<1>13. CASE NextStep
  BY <1>13 DEF NextStep, TypeOK, airVars, windowVars, linkVars, retryVars
<1>14. CASE UNCHANGED vars
  BY <1>14 DEF TypeOK, vars, clockVars, airVars, windowVars, linkVars, retryVars
<1>. QED BY <1>1, <1>2, <1>3, <1>4, <1>5, <1>6, <1>7, <1>8, <1>10, <1>11, <1>12, <1>13, <1>14
       DEF Next

(* The types hold for every topology, number of payloads, of slots, and    *)
(* width of a local id.                                                    *)
THEOREM TypeCorrect == Spec => []TypeOK
BY TypeInit, TypeStep, PTL DEF Spec
-------------------------------------------------------------------------------
(* The phases after the transitions: communication steps, transmission     *)
(* starts and ends.                                                        *)
LaterPhase ==
  \/ \E n \in C2 : C2TransmitData(n) \/ C2TransmitAck(n) \/ C2StaySilent(n)
  \/ \E n \in C3 : C3TransmitAck(n) \/ C3StaySilent(n)
  \/ \E m \in starts : TransmissionStart(m)
  \/ \E m \in ends : ReceiveData(m) \/ ReceiveAck(m) \/ LosePacket(m)

(* They move no node from one state or window to another.                  *)
LEMMA LaterPhaseFrame ==
  ASSUME LaterPhase
  PROVE  /\ UNCHANGED <<step, transitions, rescheduled, nodeState, isACKSlot,
                        category, slots, secondSleepWindow>>
         /\ communications' \subseteq communications
         /\ transitions = {}
<1>1. ASSUME NEW n \in C2, C2TransmitData(n) \/ C2TransmitAck(n) \/ C2StaySilent(n)
      PROVE  /\ UNCHANGED <<nodeState, isACKSlot, category, slots, secondSleepWindow>>
             /\ Communication(n)
  BY <1>1 DEF C2TransmitData, C2TransmitAck, C2StaySilent, windowVars, retryVars
<1>2. ASSUME NEW n \in C3, C3TransmitAck(n) \/ C3StaySilent(n)
      PROVE  /\ UNCHANGED <<nodeState, isACKSlot, category, slots, secondSleepWindow>>
             /\ Communication(n)
  BY <1>2 DEF C3TransmitAck, C3StaySilent, windowVars, retryVars
<1>3. ASSUME NEW m \in starts, TransmissionStart(m)
      PROVE  /\ UNCHANGED <<nodeState, isACKSlot, category, slots, secondSleepWindow>>
             /\ transitions = {} /\ UNCHANGED clockVars
  BY <1>3 DEF TransmissionStart, windowVars, retryVars
<1>4. ASSUME NEW m \in ends, ReceiveData(m) \/ ReceiveAck(m) \/ LosePacket(m)
      PROVE  /\ UNCHANGED <<nodeState, isACKSlot, category, slots, secondSleepWindow>>
             /\ transitions = {} /\ UNCHANGED clockVars
  BY <1>4 DEF ReceiveData, ReceiveAck, LosePacket, TransmissionEnd, windowVars
<1>. QED BY <1>1, <1>2, <1>3, <1>4 DEF LaterPhase, Communication, clockVars

(* Next, by phase of a step.                                               *)
LEMMA NextPhases ==
  Next <=> \/ \E n \in C2 : C2OnTimeChange(n)
           \/ \E n \in C3 : C3OnTimeChange(n)
           \/ LaterPhase
           \/ NextStep
BY DEF Next, LaterPhase

(* What a C2 transition does to the node's state and to its counters of    *)
(* windows, whichever of them it is.                                       *)
LEMMA C2Transition ==
  ASSUME TypeOK, NEW n \in C2, C2OnTimeChange(n)
  PROVE  /\ Transition(n, TRUE)
         /\ \/ /\ step \in {0, 2}
               /\ nodeState' = [nodeState EXCEPT ![n] = "Sleeping"]
               /\ secondSleepWindow' = [secondSleepWindow EXCEPT ![n] = ~@]
               /\ UNCHANGED <<isACKSlot, category>>
            \/ /\ step \in {1, 3}
               /\ \/ nodeState' = nodeState
                  \/ nodeState' = [nodeState EXCEPT ![n] = "Communicating"]
               /\ nodeState[n] = "Sleeping"
               /\ isACKSlot' = [isACKSlot EXCEPT ![n] = ~@]
               /\ category' = [category EXCEPT ![n] = NextCategory(n)]
               /\ UNCHANGED secondSleepWindow
<1>1. CASE C2SleepFromSleeping(n)
  BY <1>1 DEF C2SleepFromSleeping, Proposed, TypeOK, windowVars, Nodes
<1>2. CASE C2SleepFromCommunicating(n)
  BY <1>2 DEF C2SleepFromCommunicating, Proposed, TypeOK, windowVars, Nodes
<1>3. ASSUME EnterWindow(n)
      PROVE  /\ Transition(n, TRUE)
             /\ step \in {1, 3}
             /\ nodeState[n] = "Sleeping"
             /\ isACKSlot' = [isACKSlot EXCEPT ![n] = ~@]
             /\ category' = [category EXCEPT ![n] = NextCategory(n)]
             /\ UNCHANGED secondSleepWindow
  <2>1. step \in 0..3
    BY DEF TypeOK
  <2>2. step \in {1, 3}
    BY <1>3, <2>1 DEF EnterWindow, Proposed
  <2>. QED BY <1>3, <2>2, Zenon DEF EnterWindow, retryVars
<1>4. CASE \/ SleepThroughWindow(n) \/ EnterAckWindow(n) \/ WakeToListen(n)
           \/ WakeToTransmit(n) \/ PassSlot(n)
  <2>1. EnterWindow(n)
    BY <1>4 DEF SleepThroughWindow, EnterAckWindow, WakeToListen, WakeToTransmit, PassSlot
  <2>2. \/ nodeState' = nodeState
        \/ nodeState' = [nodeState EXCEPT ![n] = "Communicating"]
    BY <1>4 DEF SleepThroughWindow, EnterAckWindow, WakeToListen, WakeToTransmit,
         PassSlot, WakeUp
  <2>. QED BY <2>1, <2>2, <1>3
<1>. QED BY <1>1, <1>2, <1>4 DEF C2OnTimeChange

(* All nodes start asleep, at the first data window.                       *)
LEMMA ScheduleInit == Init => ScheduleInv
BY DEF Init, ScheduleInv, NeverFrozen, WindowsAgree, Nodes

(* The step and the queued transitions determine what each handler finds,  *)
(* so it accepts, and counts, every transition.                            *)
LEMMA ScheduleStep == TypeOK /\ ScheduleInv /\ [Next]_vars => ScheduleInv'
<1>. SUFFICES ASSUME TypeOK, ScheduleInv, [Next]_vars PROVE ScheduleInv'
  OBVIOUS
<1>. USE DEF Nodes
<1>1. ASSUME NEW n \in C2, C2OnTimeChange(n) PROVE ScheduleInv'
  <2>1. Transition(n, TRUE) /\ n \in transitions /\ step' = step
        /\ transitions' = transitions \ {n} /\ rescheduled' = rescheduled \cup {n}
        /\ communications' = communications
    BY <1>1, C2Transition DEF Transition
  <2>2. CASE /\ step \in {0, 2}
             /\ nodeState' = [nodeState EXCEPT ![n] = "Sleeping"]
             /\ secondSleepWindow' = [secondSleepWindow EXCEPT ![n] = ~@]
             /\ UNCHANGED <<isACKSlot, category>>
    BY <2>1, <2>2 DEF ScheduleInv, NeverFrozen, WindowsAgree, TypeOK
  <2>3. CASE /\ step \in {1, 3}
             /\ \/ nodeState' = nodeState
                \/ nodeState' = [nodeState EXCEPT ![n] = "Communicating"]
             /\ nodeState[n] = "Sleeping"
             /\ isACKSlot' = [isACKSlot EXCEPT ![n] = ~@]
             /\ category' = [category EXCEPT ![n] = NextCategory(n)]
             /\ UNCHANGED secondSleepWindow
    <3>1. /\ (isACKSlot[n] <=> step = 1)
          /\ (isACKSlot'[n] <=> step = 3)
          /\ \A m \in C2 \ {n} : isACKSlot'[m] = isACKSlot[m] /\ category'[m] = category[m]
          /\ category'[n] = NextCategory(n)
          /\ category[n] \in 0..2
      <4>1. isACKSlot[n] <=> step = 1
        BY <2>1, <2>3 DEF ScheduleInv, WindowsAgree
      <4>2. isACKSlot'[n] <=> ~isACKSlot[n]
        BY <2>3, Zenon DEF TypeOK
      <4>4. \A m \in C2 \ {n} : isACKSlot'[m] = isACKSlot[m]
        BY <2>3 DEF TypeOK
      <4>3. /\ \A m \in C2 \ {n} : category'[m] = category[m]
            /\ category'[n] = NextCategory(n) /\ category[n] \in 0..2
        BY <2>3 DEF TypeOK
      <4>. QED BY <2>3, <4>1, <4>2, <4>3, <4>4
    <3>2. NeverFrozen' /\ transitions' \subseteq communications'
      BY <2>1 DEF ScheduleInv, NeverFrozen, TypeOK
    <3>3. \A m \in Nodes \ {n} : nodeState'[m] = nodeState[m]
      BY <2>3 DEF TypeOK
    <3>4. nodeState'[n] \in {"Sleeping", "Communicating"}
      BY <2>3 DEF TypeOK
    <3>5. WindowsAgree'
      BY <2>1, <2>3, <3>1 DEF ScheduleInv, WindowsAgree, NextCategory
    <3>6. \A k, m \in C2 : step' = 1 /\ k \in transitions' /\ m \notin transitions' =>
            category'[m] = (category'[k] + 1) % 3
      BY <2>1, <2>3, <3>1 DEF ScheduleInv, WindowsAgree, NextCategory
    <3>. QED BY <2>1, <2>3, <3>2, <3>3, <3>4, <3>5, <3>6, RoutingAssumption DEF ScheduleInv
  <2>. QED BY <1>1, <2>2, <2>3, C2Transition
<1>2. ASSUME NEW n \in C3, C3OnTimeChange(n) PROVE ScheduleInv'
  <2>1. /\ n \in transitions
        /\ Proposed(n) = IF step \in {0, 2} THEN "Sleeping"
                         ELSE IF step = 1 THEN "Listening" ELSE "Transmitting"
    BY <1>2, RoutingAssumption DEF C3OnTimeChange, Transition, Proposed
  <2>2. C3Accepts(Proposed(n), nodeState[n])
    BY <2>1 DEF ScheduleInv, C3Accepts, TypeOK
  <2>3. /\ step' = step /\ transitions' = transitions \ {n}
        /\ rescheduled' = rescheduled \cup {n} /\ communications' = communications
        /\ nodeState' = [nodeState EXCEPT ![n] = Proposed(n)]
        /\ UNCHANGED <<isACKSlot, category, secondSleepWindow>>
    BY <1>2, <2>2 DEF C3OnTimeChange, Transition, windowVars, retryVars
  <2>. QED BY <2>1, <2>3, RoutingAssumption DEF ScheduleInv, NeverFrozen, WindowsAgree, TypeOK
<1>3. CASE LaterPhase
  BY <1>3, LaterPhaseFrame DEF ScheduleInv, NeverFrozen, WindowsAgree
<1>4. CASE NextStep
  <2>1. /\ transitions = {} /\ transitions' = Nodes /\ communications' = Nodes
        /\ rescheduled' = {} /\ step' = (step + 1) % 4
        /\ UNCHANGED <<nodeState, isACKSlot, category, secondSleepWindow>>
    BY <1>4 DEF NextStep, ScheduleInv, NeverFrozen, windowVars, retryVars
  <2>2. step \in 0..3
    BY DEF TypeOK
  <2>. QED BY <2>1, <2>2 DEF ScheduleInv, NeverFrozen, WindowsAgree
<1>5. CASE UNCHANGED vars
  BY <1>5 DEF vars, clockVars, windowVars, retryVars, ScheduleInv, NeverFrozen, WindowsAgree
<1>. QED BY <1>1, <1>2, <1>3, <1>4, <1>5, NextPhases

(* No node ever drops out of the schedule, and every node's own count of   *)
(* the windows stays right, however long the simulation runs.              *)
THEOREM ScheduleCorrect == Spec => [](NeverFrozen /\ WindowsAgree)
<1>1. TypeOK /\ ScheduleInv => NeverFrozen /\ WindowsAgree
  BY DEF ScheduleInv
<1>. QED BY <1>1, TypeInit, TypeStep, ScheduleInit, ScheduleStep, PTL DEF Spec

(* In particular two nodes never disagree on which window the clock is in. *)
THEOREM WindowsCorrect == Spec => []WindowsAgree
BY ScheduleCorrect, PTL
-------------------------------------------------------------------------------
(* A node never sends and receives data in the same window.                *)
LEMMA CategoriesDiffer == \A n \in C2 : FixedCategory(n) # ListenCategory(n)
BY TopologyAssumption DEF FixedCategory, ListenCategory

(* Data goes out in data windows, acknowledgements in ACK windows.         *)
LEMMA DataTransmission ==
  ASSUME TypeOK, ScheduleInv, CycleInv, NEW n \in C2, C2TransmitData(n)
  PROVE  step = 1 /\ category[n] = FixedCategory(n) /\ ack[n] = NoAck
<1>1. /\ transitions = {} /\ n \in communications /\ nodeState[n] = "Communicating"
      /\ ~isACKSlot[n] /\ category[n] = FixedCategory(n)
  BY DEF C2TransmitData, Communication, OwnDataWindow
<1>2. step \in {1, 3}
  BY <1>1 DEF ScheduleInv, TypeOK, Nodes
<1>3. step = 1
  BY <1>1, <1>2 DEF ScheduleInv, WindowsAgree
<1>. QED BY <1>1, <1>3 DEF CycleInv, AckBeforeNextData, Nodes

(* A node that transmits an acknowledgement does so in the ACK window.     *)
LEMMA AckTransmission ==
  ASSUME TypeOK, ScheduleInv, CycleInv, NEW n \in Nodes,
         (n \in C2 /\ C2TransmitAck(n)) \/ (n \in C3 /\ C3TransmitAck(n))
  PROVE  step = 3
<1>1. /\ transitions = {} /\ n \in communications /\ nodeState[n] # "Sleeping"
      /\ ack[n] # NoAck
  BY DEF C2TransmitAck, C3TransmitAck, Communication
<1>2. step \in {2, 3}
  BY <1>1 DEF CycleInv, AckBeforeNextData
<1>. QED BY <1>1, <1>2 DEF ScheduleInv

(* Silence in an ACK window means that nothing is owed.                    *)
LEMMA SilentOwesNothing ==
  ASSUME TypeOK, ScheduleInv, CycleInv, step = 3, NEW n \in Nodes,
         (n \in C2 /\ C2StaySilent(n)) \/ (n \in C3 /\ C3StaySilent(n))
  PROVE  ack[n] = NoAck
<1>1. transitions = {}
  BY DEF C2StaySilent, C3StaySilent, Communication
<1>2. CASE n \in C3
  BY <1>1, <1>2, RoutingAssumption DEF C3StaySilent, ScheduleInv
<1>3. CASE n \in C2 /\ C2StaySilent(n)
  <2>. SUFFICES ASSUME ack[n] # NoAck PROVE FALSE
    OBVIOUS
  <2>1. WakesForAck(n)
    BY DEF WakesForAck
  <2>2. nodeState[n] = "Communicating"
    BY <1>1, <1>3, <2>1 DEF CycleInv
  <2>. QED BY <1>3, <2>2 DEF C2StaySilent
<1>. QED BY <1>2, <1>3, RoutingAssumption

(* A node that takes in a data packet is in the window of its children.    *)
LEMMA DataReception ==
  ASSUME TypeOK, ScheduleInv, CycleInv, NEW m \in ends, ReceiveData(m)
  PROVE  /\ step = 1 /\ transitions = {} /\ communications = {}
         /\ m \in DataMsg
         /\ m.to \in C2 => /\ category[m.to] = ListenCategory(m.to)
                           /\ ~isExpectingAck[m.to]
<1>1. /\ transitions = {} /\ communications = {} /\ m.type = "data"
      /\ CanNodeReceiveMessage(m.to)
  BY DEF ReceiveData, TransmissionEnd, AcceptsData
<1>2. step = 1 /\ m \in DataMsg
  BY <1>1 DEF CycleInv, TypeOK, AckMsg
<1>3. ASSUME m.to \in C2
      PROVE  category[m.to] = ListenCategory(m.to) /\ ~isExpectingAck[m.to]
  <2>1. nodeState[m.to] = "Communicating" /\ ~isTransmitting[m.to]
    BY <1>1, <1>3 DEF CanNodeReceiveMessage, ScheduleInv
  <2>2. category[m.to] = ListenCategory(m.to)
    BY <1>1, <1>2, <1>3, <2>1 DEF CycleInv
  <2>. QED BY <1>3, <2>2, CategoriesDiffer DEF CycleInv
<1>. QED BY <1>1, <1>2, <1>3

(* Nothing is owed, expected or in the air at the start.                   *)
LEMMA CycleInit == Init => CycleInv
BY RoutingAssumption DEF Init, CycleInv, AckBeforeNextData, WaitsWithinOneCycle, WakesForAck, Nodes

(* What a C2 transition can be in a sleep step and in a window.            *)
LEMMA C2TransitionKinds ==
  ASSUME NEW n \in C2, C2OnTimeChange(n)
  PROVE  /\ step \in {0, 2} => C2SleepFromSleeping(n) \/ C2SleepFromCommunicating(n)
         /\ step \in {1, 3} =>
              /\ EnterWindow(n)
              /\ \/ SleepThroughWindow(n) \/ EnterAckWindow(n) \/ WakeToListen(n)
                 \/ WakeToTransmit(n) \/ PassSlot(n)
<1>1. /\ step \in {0, 2} => Proposed(n) = "Sleeping"
      /\ step \in {1, 3} => Proposed(n) = "Communicating"
  BY DEF Proposed
<1>2. C2SleepFromSleeping(n) \/ C2SleepFromCommunicating(n) => Proposed(n) = "Sleeping"
  BY DEF C2SleepFromSleeping, C2SleepFromCommunicating
<1>3. SleepThroughWindow(n) \/ EnterAckWindow(n) \/ WakeToListen(n)
        \/ WakeToTransmit(n) \/ PassSlot(n) => EnterWindow(n)
  BY DEF SleepThroughWindow, EnterAckWindow, WakeToListen, WakeToTransmit, PassSlot
<1>4. EnterWindow(n) => Proposed(n) = "Communicating"
  BY DEF EnterWindow
<1>. QED BY <1>1, <1>2, <1>3, <1>4 DEF C2OnTimeChange

(* C2 transitions: a node that owes or expects an acknowledgement wakes up *)
(* for it, and stops expecting one when it falls asleep again.             *)
LEMMA CycleC2Transition ==
  ASSUME TypeOK, ScheduleInv, CycleInv, NEW n \in C2, C2OnTimeChange(n)
  PROVE  CycleInv'
<1>. USE DEF Nodes
<1>1. /\ n \in transitions /\ transitions' = transitions \ {n}
      /\ step' = step /\ communications' = communications
      /\ UNCHANGED <<ends, ack>>
  <2>1. UNCHANGED <<ends, ack>>
    BY DEF C2OnTimeChange, C2SleepFromSleeping, C2SleepFromCommunicating, EnterWindow,
        SleepThroughWindow, EnterAckWindow, WakeToListen, WakeToTransmit, PassSlot, airVars
  <2>. QED BY <2>1, C2Transition DEF Transition
<1>2. AckBeforeNextData'
  BY <1>1 DEF CycleInv, AckBeforeNextData
<1>3. \A m \in ends' : (m.type = "data" => step' = 1) /\ (m.type = "ack" => step' = 3)
  BY <1>1 DEF CycleInv
<1>4. CASE step \in {0, 2}
  <2>1. /\ nodeState' = [nodeState EXCEPT ![n] = "Sleeping"]
        /\ UNCHANGED <<isACKSlot, category, isTransmitting>>
    <3>1. UNCHANGED <<isACKSlot, category, isTransmitting>>
      BY <1>4, C2TransitionKinds DEF C2SleepFromSleeping, C2SleepFromCommunicating, windowVars
    <3>2. ~(step \in {1, 3})
      BY <1>4
    <3>. QED BY <3>1, <3>2, C2Transition, Zenon
  <2>2. \A k \in C2 : isExpectingAck'[k] => isExpectingAck[k]
    BY <1>4, C2TransitionKinds DEF C2SleepFromSleeping, C2SleepFromCommunicating, TypeOK
  <2>3. step = 0 => ~isExpectingAck'[n]
    <3>1. CASE C2SleepFromSleeping(n)
      BY <1>1, <3>1 DEF C2SleepFromSleeping, CycleInv, WakesForAck
    <3>2. CASE step = 0 /\ C2SleepFromCommunicating(n)
      <4>1. ~secondSleepWindow[n]
        BY <1>1, <3>2 DEF ScheduleInv
      <4>2. secondSleepWindow'[n] 
        BY <3>2, <4>1 DEF C2SleepFromCommunicating, TypeOK
      <4>. QED BY <3>2, <4>2 DEF C2SleepFromCommunicating, TypeOK
    <3>. QED BY <1>4, <3>1, <3>2, C2TransitionKinds
  <2>4. WaitsWithinOneCycle'
    BY <1>1, <1>4, <2>2, <2>3 DEF CycleInv, WaitsWithinOneCycle
  <2>5. \A k \in C2 : /\ ack'[k] # NoAck => category'[k] = ListenCategory(k)
                      /\ isExpectingAck'[k] => category'[k] = FixedCategory(k)
    BY <1>1, <2>1, <2>2 DEF CycleInv
  <2>6. \A k \in C2 : WakesForAck(k)' /\ step' = 0 /\ k \in transitions' =>
          nodeState'[k] = "Communicating"
    BY <1>1, <2>1, <2>2 DEF CycleInv, WakesForAck, TypeOK
  <2>. QED BY <1>1, <1>2, <1>3, <1>4, <2>4, <2>5, <2>6 DEF CycleInv, FixedCategory, ListenCategory, WakesForAck
<1>5. CASE step \in {1, 3}
  <2>1. /\ \/ nodeState' = nodeState
           \/ nodeState' = [nodeState EXCEPT ![n] = "Communicating"]
        /\ nodeState[n] = "Sleeping"
        /\ category' = [category EXCEPT ![n] = NextCategory(n)]
        /\ isTransmitting' = [isTransmitting EXCEPT ![n] = FALSE]
        /\ UNCHANGED isExpectingAck
    <3>1. EnterWindow(n) /\ ~(step \in {0, 2})
      BY <1>5, C2TransitionKinds
    <3>2. /\ \/ nodeState' = nodeState
             \/ nodeState' = [nodeState EXCEPT ![n] = "Communicating"]
          /\ nodeState[n] = "Sleeping"
      BY <3>1, C2Transition, Zenon
    <3>. QED BY <3>1, <3>2 DEF EnterWindow, retryVars
  <2>2. isACKSlot[n] <=> step = 1
    BY <1>1, <1>5 DEF ScheduleInv, WindowsAgree
  <2>3. WaitsWithinOneCycle'
    BY <1>1, <1>5, <2>1 DEF CycleInv, WaitsWithinOneCycle
  <2>4. step = 1 => ack[n] = NoAck /\ ~isExpectingAck[n]
    BY <1>1 DEF CycleInv, AckBeforeNextData, WaitsWithinOneCycle
  <2>5. step = 3 => category'[n] = category[n]
    BY <2>1, <2>2 DEF NextCategory, TypeOK
  <2>6. \A k \in C2 : /\ ack'[k] # NoAck => category'[k] = ListenCategory(k)
                      /\ isExpectingAck'[k] => category'[k] = FixedCategory(k)
    BY <1>1, <1>5, <2>1, <2>4, <2>5 DEF CycleInv, TypeOK
  <2>7. ASSUME step = 3, WakesForAck(n) PROVE nodeState'[n] = "Communicating"
    <3>1. NextCategory(n) \in {FixedCategory(n), ListenCategory(n)}
      BY <2>2, <2>7 DEF NextCategory, CycleInv, WakesForAck
    <3>2. EnterAckWindow(n)
      BY <2>2, <2>7, <3>1, C2TransitionKinds DEF SleepThroughWindow, WakeToListen,
          WakeToTransmit, PassSlot
    <3>. QED BY <2>7, <3>2 DEF EnterAckWindow, WakeUp, TypeOK
  <2>8. ASSUME step = 1, nodeState'[n] = "Communicating"
        PROVE  category'[n] \in {FixedCategory(n), ListenCategory(n)}
    <3>1. NextCategory(n) \in {FixedCategory(n), ListenCategory(n)}
      BY <2>1, <2>2, <2>8, C2TransitionKinds DEF SleepThroughWindow, EnterAckWindow,
          WakeToListen, WakeToTransmit, PassSlot
    <3>. QED BY <2>1, <3>1 DEF TypeOK
  <2>9. n \in communications
    BY <1>1 DEF ScheduleInv
  <2>10. \A k \in C2 \ {n} : /\ nodeState'[k] = nodeState[k]
                             /\ category'[k] = category[k]
                             /\ isTransmitting'[k] = isTransmitting[k]
    BY <2>1 DEF TypeOK
  <2>11. \A k \in C2 : WakesForAck(k)' <=> WakesForAck(k)
    BY <1>1, <2>1 DEF WakesForAck
  <2>12. \A k \in C2 : WakesForAck(k)' /\ step' = 3 /\ k \notin transitions' =>
            nodeState'[k] = "Communicating"
    <3>1. \A k \in C2 \ {n} : WakesForAck(k) /\ step = 3 /\ k \notin transitions =>
            nodeState[k] = "Communicating"
      BY DEF CycleInv
    <3>. QED BY <1>1, <2>7, <2>10, <2>11, <3>1
  <2>13. \A k \in C2 : step' = 1 /\ k \notin transitions' /\ nodeState'[k] = "Communicating" =>
            /\ category'[k] \in {FixedCategory(k), ListenCategory(k)}
            /\ category'[k] = FixedCategory(k) /\ k \notin communications' => isTransmitting'[k]
    BY <1>1, <2>8, <2>9, <2>10 DEF CycleInv
  <2>. QED BY <1>1, <1>2, <1>3, <1>5, <2>3, <2>6, <2>12, <2>13 DEF CycleInv, FixedCategory, ListenCategory
<1>. QED BY <1>4, <1>5 DEF TypeOK
(* Communication steps of a C2 node: data, an acknowledgement, or silence. *)
LEMMA CycleC2Communication ==
  ASSUME TypeOK, ScheduleInv, CycleInv, NEW n \in C2,
         C2TransmitData(n) \/ C2TransmitAck(n) \/ C2StaySilent(n)
  PROVE  CycleInv'
<1>. USE DEF Nodes
<1>1. /\ n \in communications /\ communications' = communications \ {n}
      /\ transitions = {} /\ transitions' = {} /\ step' = step
      /\ UNCHANGED <<nodeState, category>>
  <2>1. Communication(n)
    BY DEF C2TransmitData, C2TransmitAck, C2StaySilent
  <2>2. UNCHANGED <<nodeState, category>>
    BY DEF C2TransmitData, C2TransmitAck, C2StaySilent, windowVars
  <2>. QED BY <2>1, <2>2 DEF Communication
<1>2. CASE C2TransmitData(n)
  <2>1. /\ step = 1 /\ category[n] = FixedCategory(n) /\ ack[n] = NoAck /\ ack' = ack
        /\ isTransmitting' = [isTransmitting EXCEPT ![n] = TRUE]
        /\ isExpectingAck' = [isExpectingAck EXCEPT ![n] = TRUE]
        /\ ends' = ends \cup DataPacket(n)
    BY <1>2, DataTransmission DEF C2TransmitData, Emit
  <2>2. \A m \in DataPacket(n) : m.type = "data"
    BY DEF DataPacket
  <2>3. \A m \in ends' : (m.type = "data" => step' = 1) /\ (m.type = "ack" => step' = 3)
    BY <1>1, <2>1, <2>2 DEF CycleInv
  <2>4. AckBeforeNextData' /\ WaitsWithinOneCycle'
    BY <1>1, <2>1 DEF CycleInv, AckBeforeNextData, WaitsWithinOneCycle, TypeOK
  <2>5. \A k \in C2 : /\ ack'[k] # NoAck => category'[k] = ListenCategory(k)
                      /\ isExpectingAck'[k] => category'[k] = FixedCategory(k)
    BY <1>1, <2>1 DEF CycleInv, TypeOK
  <2>6. \A k \in C2 : step' = 1 /\ nodeState'[k] = "Communicating" =>
            /\ category'[k] \in {FixedCategory(k), ListenCategory(k)}
            /\ category'[k] = FixedCategory(k) /\ k \notin communications' => isTransmitting'[k]
    BY <1>1, <2>1 DEF CycleInv, TypeOK
  <2>. QED BY <1>1, <2>1, <2>3, <2>4, <2>5, <2>6 DEF CycleInv, FixedCategory, ListenCategory
<1>3. CASE C2TransmitAck(n)
  <2>1. /\ step = 3 /\ ack' = [ack EXCEPT ![n] = NoAck] /\ UNCHANGED isExpectingAck
        /\ ends' = ends \cup AckPacket(n)
    BY <1>3, AckTransmission DEF C2TransmitAck, RequestReset, Emit, retryVars
  <2>2. \A m \in AckPacket(n) : m.type = "ack"
    BY DEF AckPacket
  <2>3. \A m \in ends' : (m.type = "data" => step' = 1) /\ (m.type = "ack" => step' = 3)
    BY <1>1, <2>1, <2>2 DEF CycleInv
  <2>4. \A k \in C2 : ack'[k] # NoAck => ack[k] # NoAck /\ ack'[k] = ack[k]
    BY <2>1 DEF TypeOK
  <2>5. AckBeforeNextData' /\ WaitsWithinOneCycle'
    BY <1>1, <2>1 DEF CycleInv, AckBeforeNextData, WaitsWithinOneCycle, TypeOK
  <2>6. \A k \in C2 : /\ ack'[k] # NoAck => category'[k] = ListenCategory(k)
                      /\ isExpectingAck'[k] => category'[k] = FixedCategory(k)
    BY <1>1, <2>1, <2>4 DEF CycleInv
  <2>7. \A k \in C2 : WakesForAck(k)' => nodeState'[k] = "Communicating"
    BY <1>1, <2>1, <2>4 DEF CycleInv, WakesForAck
  <2>. QED BY <1>1, <2>1, <2>3, <2>5, <2>6, <2>7 DEF CycleInv, FixedCategory, ListenCategory
<1>4. CASE C2StaySilent(n)
  <2>1. /\ UNCHANGED <<ack, isExpectingAck, isTransmitting, ends>>
        /\ step = 3 => ack[n] = NoAck
        /\ step = 1 => nodeState[n] # "Communicating" \/ category[n] # FixedCategory(n)
    <3>1. step = 1 => ~isACKSlot[n]
      BY <1>1 DEF ScheduleInv, WindowsAgree
    <3>2. UNCHANGED <<ack, isExpectingAck, isTransmitting, ends>>
      BY <1>4 DEF C2StaySilent, airVars, windowVars, retryVars
    <3>3. step = 3 => ack[n] = NoAck
      BY <1>4, SilentOwesNothing
    <3>4. step = 1 => nodeState[n] # "Communicating" \/ category[n] # FixedCategory(n)
      BY <1>4, <3>1 DEF C2StaySilent, OwnDataWindow
    <3>. QED BY <3>2, <3>3, <3>4
  <2>2. AckBeforeNextData'
    BY <1>1, <2>1 DEF CycleInv, AckBeforeNextData
  <2>3. WaitsWithinOneCycle'
    BY <1>1, <2>1 DEF CycleInv, WaitsWithinOneCycle
  <2>4. \A k \in C2 : WakesForAck(k)' <=> WakesForAck(k)
    BY <2>1 DEF WakesForAck
  <2>. QED BY <1>1, <2>1, <2>2, <2>3, <2>4 DEF CycleInv, FixedCategory, ListenCategory
<1>. QED BY <1>2, <1>3, <1>4

(* Communication steps of a gateway.                                       *)
LEMMA CycleC3Communication ==
  ASSUME TypeOK, ScheduleInv, CycleInv, NEW n \in C3,
         C3TransmitAck(n) \/ C3StaySilent(n)
  PROVE  CycleInv'
<1>. USE DEF Nodes
<1>1. /\ n \notin C2
      /\ n \in communications /\ communications' = communications \ {n}
      /\ transitions = {} /\ transitions' = {} /\ step' = step
      /\ UNCHANGED <<nodeState, category, isTransmitting, isExpectingAck>>
  <2>1. Communication(n)
    BY DEF C3TransmitAck, C3StaySilent
  <2>2. UNCHANGED <<nodeState, category, isTransmitting, isExpectingAck>>
    BY DEF C3TransmitAck, C3StaySilent, windowVars, retryVars
  <2>. QED BY <2>1, <2>2, RoutingAssumption DEF Communication
<1>2. /\ \A k \in C2 : ack'[k] = ack[k]
      /\ \A k \in Nodes : ack'[k] # NoAck => ack[k] # NoAck
      /\ step = 3 => ack'[n] = NoAck
      /\ \A m \in ends' \ ends : m.type = "ack" /\ step = 3
  <2>1. CASE C3TransmitAck(n)
    <3>1. /\ step = 3 /\ ack' = [ack EXCEPT ![n] = NoAck]
          /\ ends' = ends \cup AckPacket(n)
      BY <2>1, AckTransmission DEF C3TransmitAck, RequestReset, Emit
    <3>. QED BY <1>1, <3>1 DEF AckPacket, TypeOK
  <2>2. CASE C3StaySilent(n)
    BY <2>2, SilentOwesNothing DEF C3StaySilent, airVars
  <2>. QED BY <2>1, <2>2
<1>3. \A m \in ends' : (m.type = "data" => step' = 1) /\ (m.type = "ack" => step' = 3)
  BY <1>1, <1>2 DEF CycleInv
<1>4. AckBeforeNextData'
  BY <1>1, <1>2 DEF CycleInv, AckBeforeNextData
<1>5. WaitsWithinOneCycle'
  BY <1>1, <1>2 DEF CycleInv, WaitsWithinOneCycle
<1>6. \A k \in C2 : WakesForAck(k)' <=> WakesForAck(k)
  BY <1>1, <1>2 DEF WakesForAck
<1>. QED BY <1>1, <1>2, <1>3, <1>4, <1>5, <1>6 DEF CycleInv, FixedCategory, ListenCategory

(* The end callbacks: a request is noted only by a node in the window of   *)
(* its children, which therefore expects nothing itself.                   *)
LEMMA CycleEnd ==
  ASSUME TypeOK, ScheduleInv, CycleInv, NEW m \in ends,
         ReceiveData(m) \/ ReceiveAck(m) \/ LosePacket(m)
  PROVE  CycleInv'
<1>. USE DEF Nodes
<1>1. /\ transitions = {} /\ communications = {} /\ ends' = ends \ {m}
      /\ UNCHANGED <<step, transitions, communications, nodeState, category, isTransmitting>>
  BY DEF ReceiveData, ReceiveAck, LosePacket, TransmissionEnd, clockVars, windowVars
<1>2. /\ \A k \in Nodes : ack'[k] # NoAck => step = 1 \/ ack[k] # NoAck
      /\ \A k \in C2 : ack'[k] # NoAck => category[k] = ListenCategory(k)
      /\ \A k \in C2 : isExpectingAck'[k] => isExpectingAck[k] /\ ack'[k] = NoAck
      /\ step # 1 => ack' = ack
  <2>1. CASE ReceiveData(m)
    <3>1. /\ ack' = [ack EXCEPT ![m.to] = [to |-> m.from, id |-> m.id]]
          /\ UNCHANGED isExpectingAck
      BY <2>1 DEF ReceiveData
    <3>2. /\ step = 1
          /\ m.to \in C2 => /\ category[m.to] = ListenCategory(m.to)
                            /\ ~isExpectingAck[m.to]
      BY <2>1, DataReception
    <3>3. \A k \in C2 : isExpectingAck[k] => ack[k] = NoAck
      BY DEF CycleInv, WaitsWithinOneCycle
    <3>4. \A k \in C2 : ack[k] # NoAck => category[k] = ListenCategory(k)
      BY DEF CycleInv
    <3>. QED BY <3>1, <3>2, <3>3, <3>4 DEF TypeOK
  <2>2. CASE ReceiveAck(m)
    <3>1. m.to \in C2 /\ UNCHANGED ack
          /\ isExpectingAck' = [isExpectingAck EXCEPT ![m.to] = FALSE]
      BY <2>2 DEF ReceiveAck, AcceptsAck
    <3>. QED BY <3>1 DEF CycleInv, WaitsWithinOneCycle, TypeOK
  <2>3. CASE LosePacket(m)
    <3>1. UNCHANGED <<ack, isExpectingAck>>
      BY <2>3 DEF LosePacket
    <3>. QED BY <3>1 DEF CycleInv, WaitsWithinOneCycle
  <2>. QED BY <2>1, <2>2, <2>3
<1>3. AckBeforeNextData'
  BY <1>1, <1>2 DEF CycleInv, AckBeforeNextData
<1>4. WaitsWithinOneCycle'
  BY <1>1, <1>2 DEF CycleInv, WaitsWithinOneCycle
<1>5. \A k \in C2 : step # 1 /\ WakesForAck(k)' => WakesForAck(k)
  BY <1>1, <1>2 DEF WakesForAck
<1>. QED BY <1>1, <1>2, <1>3, <1>4, <1>5 DEF CycleInv, FixedCategory, ListenCategory

(* The remaining actions, and the change of step.                          *)
LEMMA CycleStep == TypeOK /\ ScheduleInv /\ CycleInv /\ [Next]_vars => CycleInv'
<1>. SUFFICES ASSUME TypeOK, ScheduleInv, CycleInv, [Next]_vars PROVE CycleInv'
  OBVIOUS
<1>. USE DEF Nodes
<1>1. ASSUME NEW n \in C3, C3OnTimeChange(n) PROVE CycleInv'
  <2>1. /\ transitions' \subseteq transitions /\ transitions # {}
        /\ transitions' \cap C2 = transitions \cap C2
        /\ \A k \in C2 : nodeState'[k] = nodeState[k]
        /\ UNCHANGED <<step, communications, ends, ack, category, isTransmitting, isExpectingAck>>
    BY <1>1, RoutingAssumption DEF C3OnTimeChange, Transition, TypeOK, airVars, windowVars, retryVars
  <2>2. AckBeforeNextData' /\ WaitsWithinOneCycle'
    BY <2>1 DEF CycleInv, AckBeforeNextData, WaitsWithinOneCycle
  <2>3. \A k \in C2 : WakesForAck(k)' <=> WakesForAck(k)
    BY <2>1 DEF WakesForAck
  <2>. QED BY <2>1, <2>2, <2>3 DEF CycleInv, FixedCategory, ListenCategory
<1>2. ASSUME NEW m \in starts, TransmissionStart(m) PROVE CycleInv'
  <2>1. UNCHANGED <<step, transitions, communications, ends, nodeState, ack, category,
                    isTransmitting, isExpectingAck>>
    BY <1>2 DEF TransmissionStart, clockVars, windowVars, retryVars
  <2>. QED BY <2>1 DEF CycleInv, AckBeforeNextData, WaitsWithinOneCycle, FixedCategory,
         ListenCategory, WakesForAck
<1>3. CASE LaterPhase
  BY <1>2, <1>3, CycleC2Communication, CycleC3Communication, CycleEnd DEF LaterPhase
<1>4. CASE NextStep
  <2>1. /\ transitions = {} /\ communications = {} /\ ends = {}
        /\ transitions' = Nodes /\ communications' = Nodes /\ step' = (step + 1) % 4
        /\ UNCHANGED <<ends, nodeState, ack, category, isTransmitting, isExpectingAck>>
    BY <1>4 DEF NextStep, ScheduleInv, NeverFrozen, airVars, windowVars, retryVars
  <2>2. step \in 0..3
    BY DEF TypeOK
  <2>3. \A k \in C2 : WakesForAck(k)' <=> WakesForAck(k)
    BY <2>1 DEF WakesForAck
  <2>4. AckBeforeNextData'
    BY <2>1, <2>2 DEF CycleInv, AckBeforeNextData
  <2>5. WaitsWithinOneCycle'
    BY <2>1, <2>2 DEF CycleInv, WaitsWithinOneCycle
  <2>. QED BY <2>1, <2>2, <2>3, <2>4, <2>5 DEF CycleInv, FixedCategory, ListenCategory
<1>5. CASE UNCHANGED vars
  BY <1>5 DEF vars, clockVars, airVars, windowVars, retryVars, CycleInv, AckBeforeNextData,
     WaitsWithinOneCycle, FixedCategory, ListenCategory, WakesForAck
<1>. QED BY <1>1, <1>3, <1>4, <1>5, CycleC2Transition, NextPhases

(* An acknowledgement owed is always answered in the cycle it is owed in,  *)
(* and one expected is always given up at the end of its cycle.            *)
THEOREM CycleCorrect == Spec => [](AckBeforeNextData /\ WaitsWithinOneCycle)
<1>1. TypeOK /\ ScheduleInv /\ CycleInv => AckBeforeNextData /\ WaitsWithinOneCycle
  BY DEF CycleInv
<1>. QED BY <1>1, TypeInit, TypeStep, ScheduleInit, ScheduleStep, CycleInit, CycleStep, PTL DEF Spec

(***************************************************************************)
(* One link: what is in the air, what is owed and what both ends recorded. *)
(***************************************************************************)
LinkInv ==
  /\ LinkAgreement
  /\ DataIsHead
  /\ \A m \in ends : m.type = "ack" =>
       m.from = NextHop[m.to] /\ m.id \in received[m.from][m.to]
  /\ \A n \in Nodes : ack[n] # NoAck =>
       n = NextHop[ack[n].to] /\ ack[n].id \in received[n][ack[n].to]
  /\ \A n \in C2 : localId[n] \in received[NextHop[n]][n] => queue[n] # << >>
  /\ \A r \in Nodes : \A w \in heard[r] : <<w.sender, r>> \in Reach

-------------------------------------------------------------------------------
(* Nothing was sent or stored at the start.                                *)
LEMMA LinkInit == Init => LinkInv
BY RoutingAssumption, SizeAssumption DEF Init, LinkInv, LinkAgreement, DataIsHead, Nodes

(* The transitions and the clock touch neither end of a link.              *)
LEMMA QuietFrame ==
  ASSUME \/ \E n \in C2 : C2OnTimeChange(n)
         \/ \E n \in C3 : C3OnTimeChange(n)
         \/ NextStep
         \/ UNCHANGED vars
  PROVE  UNCHANGED <<starts, ends, heard, ack, received, queue, localId, delivered>>
<1>1. ASSUME NEW n \in C2, C2OnTimeChange(n)
      PROVE  UNCHANGED <<airVars, ack, linkVars>>
  <2>1. EnterWindow(n) => UNCHANGED <<airVars, ack, linkVars>>
    BY DEF EnterWindow
  <2>2. C2SleepFromSleeping(n) \/ C2SleepFromCommunicating(n) =>
          UNCHANGED <<airVars, ack, linkVars>>
    BY DEF C2SleepFromSleeping, C2SleepFromCommunicating
  <2>. QED BY <1>1, <2>1, <2>2 DEF C2OnTimeChange, SleepThroughWindow, EnterAckWindow,
         WakeToListen, WakeToTransmit, PassSlot
<1>2. ASSUME NEW n \in C3, C3OnTimeChange(n)
      PROVE  UNCHANGED <<airVars, ack, linkVars>>
  BY <1>2 DEF C3OnTimeChange
<1>3. NextStep => UNCHANGED <<airVars, ack, linkVars>>
  BY DEF NextStep
<1>4. UNCHANGED vars => UNCHANGED <<airVars, ack, linkVars>>
  BY DEF vars
<1>. QED BY <1>1, <1>2, <1>3, <1>4 DEF airVars, linkVars

(* What a data packet in the air and the two ends of its link say of each  *)
(* other when it arrives.                                                  *)
LEMMA Arrival ==
  ASSUME TypeOK, ScheduleInv, CycleInv, LinkInv, NEW m \in ends, ReceiveData(m)
  PROVE  /\ m.from \in C2 /\ m.to = NextHop[m.from] /\ m.to \in Nodes /\ m.from # m.to
         /\ queue[m.from] # << >> /\ m.payload = Head(queue[m.from])
         /\ m.id \in 0..IdMod-1
         /\ \/ m.id = localId[m.from] /\ localId[m.from] < IdMod
            \/ /\ localId[m.from] = IdMod
               /\ m.id \in received[m.to][m.from]
               /\ received[m.to][m.from] = 0..IdMod-1
<1>1. /\ m \in DataMsg /\ m.type = "data" /\ HeardClean(m)
  BY DataReception DEF ReceiveData, AcceptsData
<1>2. /\ m.from \in C2 /\ m.to \in Nodes /\ m.id \in 0..IdMod-1
  BY <1>1 DEF DataMsg
<1>3. /\ m.to = NextHop[m.from] /\ m.id = localId[m.from] % IdMod
      /\ queue[m.from] # << >> /\ m.payload = Head(queue[m.from])
  BY <1>1 DEF LinkInv, DataIsHead
<1>4. m.from # m.to
  BY <1>1, <1>2, RoutingAssumption, TopologyAssumption DEF LinkInv, HeardClean
<1>5. /\ IdMod \in Nat \ {0} /\ localId[m.from] \in Nat /\ localId[m.from] <= IdMod
      /\ \/ received[m.to][m.from] = 0..(localId[m.from] - 1)
         \/ localId[m.from] < IdMod /\ received[m.to][m.from] = 0..localId[m.from]
  BY <1>2, <1>3, SizeAssumption DEF LinkInv, LinkAgreement, TypeOK
<1>6. CASE localId[m.from] < IdMod
  <2>1. m.id = localId[m.from]
    BY <1>3, <1>5, <1>6
  <2>. QED BY <1>2, <1>3, <1>4, <1>6, <2>1
<1>7. CASE localId[m.from] = IdMod
  <2>1. received[m.to][m.from] = 0..IdMod-1
    BY <1>5, <1>7
  <2>. QED BY <1>2, <1>3, <1>4, <1>7, <2>1
<1>. QED BY <1>5, <1>6, <1>7

(* Storing a packet moves the receiving end of the link by at most one id. *)
LEMMA LinkReceiveData ==
  ASSUME TypeOK, ScheduleInv, CycleInv, LinkInv, NEW m \in ends, ReceiveData(m)
  PROVE  LinkInv'
<1>1. /\ ends' = ends \ {m} /\ UNCHANGED localId
      /\ heard' = [r \in Nodes |-> {w \in heard[r] : w.sender # m.from}]
      /\ ack' = [ack EXCEPT ![m.to] = [to |-> m.from, id |-> m.id]]
      /\ received' = Record(m)
      /\ queue' = IF m.to \in C2 /\ IsNew(m) THEN Push(m) ELSE queue
  BY DEF ReceiveData, TransmissionEnd
<1>2. /\ m.from \in C2 /\ m.to = NextHop[m.from] /\ m.to \in Nodes
      /\ m.payload \in Payload
  BY Arrival, DataReception DEF DataMsg
<1>3. /\ received'[m.to][m.from] = received[m.to][m.from] \cup {m.id}
      /\ \A r \in Nodes, k \in C2 : <<r, k>> # <<m.to, m.from>> =>
           received'[r][k] = received[r][k]
  BY <1>1, <1>2 DEF Record, TypeOK
<1>4. \A r \in Nodes, k \in C2 : received[r][k] \subseteq received'[r][k]
  BY <1>3
<1>5. \A k \in C2 : queue[k] # << >> => queue'[k] # << >> /\ Head(queue'[k]) = Head(queue[k])
  <2>1. ASSUME NEW k \in C2, queue[k] # << >>, m.to = k
        PROVE  Append(queue[k], m.payload) # << >> /\ Head(Append(queue[k], m.payload)) = Head(queue[k])
    <3>1. queue[k] \in Seq(Payload)
      BY DEF TypeOK
    <3>. QED BY <1>2, <2>1, <3>1, HeadTailAppend, AppendProperties
  <2>. QED BY <1>1, <2>1 DEF Push, TypeOK
<1>6. LinkAgreement'
  <2>1. ASSUME NEW k \in C2
        PROVE  /\ localId'[k] <= IdMod
               /\ \/ received'[NextHop[k]][k] = 0..(localId'[k] - 1)
                  \/ localId'[k] < IdMod /\ received'[NextHop[k]][k] = 0..localId'[k]
    <3>1. /\ localId[k] <= IdMod /\ localId[k] \in Nat /\ NextHop[k] \in Nodes
          /\ \/ received[NextHop[k]][k] = 0..(localId[k] - 1)
             \/ localId[k] < IdMod /\ received[NextHop[k]][k] = 0..localId[k]
      BY RoutingAssumption DEF LinkInv, LinkAgreement, TypeOK
    <3>2. CASE k # m.from
      BY <1>1, <1>3, <3>1, <3>2
    <3>3. CASE k = m.from /\ m.id = localId[m.from] /\ localId[m.from] < IdMod
      <4>1. 0..(localId[k] - 1) \cup {localId[k]} = 0..localId[k]
        BY <3>1
      <4>2. 0..localId[k] \cup {localId[k]} = 0..localId[k]
        BY <3>1
      <4>. QED BY <1>1, <1>2, <1>3, <3>1, <3>3, <4>1, <4>2
    <3>4. CASE k = m.from /\ m.id \in received[m.to][m.from]
      <4>1. received'[m.to][m.from] = received[m.to][m.from]
        BY <1>3, <3>4
      <4>. QED BY <1>1, <1>2, <3>1, <3>4, <4>1
    <3>. QED BY <3>2, <3>3, <3>4, Arrival
  <2>. QED BY <2>1 DEF LinkAgreement
<1>7. DataIsHead'
  BY <1>1, <1>5 DEF LinkInv, DataIsHead, TypeOK, DataMsg, AckMsg
<1>8. \A p \in ends' : p.type = "ack" =>
        p.from = NextHop[p.to] /\ p.id \in received'[p.from][p.to]
  BY <1>1, <1>4 DEF LinkInv, TypeOK, DataMsg, AckMsg
<1>9. \A n \in Nodes : ack'[n] # NoAck =>
        n = NextHop[ack'[n].to] /\ ack'[n].id \in received'[n][ack'[n].to]
  <2>1. ASSUME NEW n \in Nodes, n # m.to, ack'[n] # NoAck
        PROVE  n = NextHop[ack'[n].to] /\ ack'[n].id \in received'[n][ack'[n].to]
    <3>1. ack'[n] = ack[n] /\ ack[n] \in AckInfo
      BY <1>1, <2>1 DEF TypeOK
    <3>. QED BY <1>4, <2>1, <3>1 DEF LinkInv, AckInfo
  <2>2. ack'[m.to] = [to |-> m.from, id |-> m.id]
    BY <1>1, <1>2 DEF TypeOK
  <2>. QED BY <1>2, <1>3, <2>1, <2>2
<1>10. \A k \in C2 : localId'[k] \in received'[NextHop[k]][k] => queue'[k] # << >>
  <2>1. ASSUME NEW k \in C2, localId'[k] \in received'[NextHop[k]][k] PROVE queue[k] # << >>
    <3>1. CASE k = m.from
      BY <3>1, Arrival
    <3>2. CASE k # m.from
      BY <1>1, <1>3, <2>1, <3>2, RoutingAssumption DEF LinkInv
    <3>. QED BY <3>1, <3>2
  <2>. QED BY <1>5, <2>1
<1>11. \A r \in Nodes : \A w \in heard'[r] : <<w.sender, r>> \in Reach
  BY <1>1 DEF LinkInv
<1>. QED BY <1>6, <1>7, <1>8, <1>9, <1>10, <1>11 DEF LinkInv
(* An acknowledgement arrives in an ACK window, and releases the packet    *)
(* that its sender stored.                                                 *)
LEMMA AckArrival ==
  ASSUME TypeOK, ScheduleInv, CycleInv, LinkInv, NEW m \in ends, ReceiveAck(m)
  PROVE  /\ step = 3 /\ \A p \in ends : p.type = "ack"
         /\ m \in AckMsg /\ m.to \in C2 /\ m.from = NextHop[m.to] /\ m.id = localId[m.to]
         /\ localId[m.to] \in received[NextHop[m.to]][m.to]
         /\ received[NextHop[m.to]][m.to] = 0..localId[m.to] /\ localId[m.to] < IdMod
         /\ queue[m.to] # << >>
<1>1. /\ m.type = "ack" /\ m.to \in C2 /\ m.id = localId[m.to]
  BY DEF ReceiveAck, AcceptsAck, MatchesCounter
<1>2. /\ step = 3 /\ m \in AckMsg /\ \A p \in ends : p.type = "ack"
  BY <1>1 DEF CycleInv, TypeOK, DataMsg, AckMsg
<1>3. /\ m.from = NextHop[m.to] /\ localId[m.to] \in received[NextHop[m.to]][m.to]
  BY <1>1 DEF LinkInv
<1>4. /\ localId[m.to] \in Nat
      /\ \/ received[NextHop[m.to]][m.to] = 0..(localId[m.to] - 1)
         \/ /\ localId[m.to] < IdMod
            /\ received[NextHop[m.to]][m.to] = 0..localId[m.to]
  BY <1>1 DEF LinkInv, LinkAgreement, TypeOK
<1>5. /\ received[NextHop[m.to]][m.to] = 0..localId[m.to] /\ localId[m.to] < IdMod
  BY <1>3, <1>4
<1>6. queue[m.to] # << >>
  BY <1>1, <1>3 DEF LinkInv
<1>. QED BY <1>1, <1>2, <1>3, <1>5, <1>6

(* Popping it moves the sending end by one.                                *)
LEMMA LinkReceiveAck ==
  ASSUME TypeOK, ScheduleInv, CycleInv, LinkInv, NEW m \in ends, ReceiveAck(m)
  PROVE  LinkInv'
<1>1. /\ ends' = ends \ {m} /\ UNCHANGED <<ack, received>>
      /\ heard' = [r \in Nodes |-> {w \in heard[r] : w.sender # m.from}]
      /\ localId' = [localId EXCEPT ![m.to] = @ + 1]
      /\ \A k \in C2 \ {m.to} : queue'[k] = queue[k]
  BY DEF ReceiveAck, TransmissionEnd, Counted, TypeOK
<1>2. m.to \in C2 /\ localId[m.to] \in Nat /\ IdMod \in Nat
  BY AckArrival, SizeAssumption DEF TypeOK
<1>3. /\ localId'[m.to] = localId[m.to] + 1
      /\ \A k \in C2 \ {m.to} : localId'[k] = localId[k]
  BY <1>1, <1>2 DEF TypeOK
<1>4. /\ received'[NextHop[m.to]][m.to] = 0..(localId'[m.to] - 1)
      /\ localId'[m.to] <= IdMod
      /\ localId'[m.to] \notin received'[NextHop[m.to]][m.to]
  BY <1>1, <1>2, <1>3, AckArrival, SizeAssumption
<1>5. LinkAgreement'
  BY <1>1, <1>3, <1>4 DEF LinkInv, LinkAgreement
<1>6. DataIsHead'
  BY <1>1, AckArrival DEF DataIsHead
<1>7. \A k \in C2 : localId'[k] \in received'[NextHop[k]][k] => queue'[k] # << >>
  BY <1>1, <1>3, <1>4 DEF LinkInv
<1>8. \A r \in Nodes : \A w \in heard'[r] : <<w.sender, r>> \in Reach
  BY <1>1 DEF LinkInv
<1>. QED BY <1>1, <1>5, <1>6, <1>7, <1>8 DEF LinkInv

(* A transmission repeats what the sender's own state says.                *)
LEMMA LinkTransmit ==
  ASSUME TypeOK, ScheduleInv, CycleInv, LinkInv, NEW n \in Nodes,
         \/ n \in C2 /\ (C2TransmitData(n) \/ C2TransmitAck(n) \/ C2StaySilent(n))
         \/ n \in C3 /\ (C3TransmitAck(n) \/ C3StaySilent(n))
  PROVE  LinkInv'
<1>1. UNCHANGED <<heard, received, queue, localId>>
  BY DEF C2TransmitData, C2TransmitAck, C2StaySilent, C3TransmitAck, C3StaySilent,
     Emit, airVars, linkVars
<1>2. \A k \in Nodes : ack'[k] # NoAck => ack'[k] = ack[k]
  BY DEF C2TransmitData, C2TransmitAck, C2StaySilent, C3TransmitAck, C3StaySilent,
     RequestReset, TypeOK
<1>3. \/ ends' = ends
      \/ n \in C2 /\ ends' = ends \cup DataPacket(n)
      \/ ack[n] # NoAck /\ ends' = ends \cup AckPacket(n)
  BY DEF C2TransmitData, C2TransmitAck, C2StaySilent, C3TransmitAck, C3StaySilent,
     Emit, airVars
<1>4. LinkAgreement'
  BY <1>1 DEF LinkInv, LinkAgreement
<1>5. DataIsHead'
  <2>1. \A m \in AckPacket(n) : m.type = "ack"
    BY DEF AckPacket
  <2>2. n \in C2 => \A m \in DataPacket(n) :
          /\ queue[m.from] # << >> /\ m.payload = Head(queue[m.from])
          /\ m.to = NextHop[m.from] /\ m.id = localId[m.from] % IdMod
    BY DEF DataPacket
  <2>. QED BY <1>1, <1>3, <2>1, <2>2 DEF LinkInv, DataIsHead
<1>6. \A m \in ends' : m.type = "ack" =>
        m.from = NextHop[m.to] /\ m.id \in received'[m.from][m.to]
  <2>1. \A m \in DataPacket(n) : m.type = "data"
    BY DEF DataPacket
  <2>2. ack[n] # NoAck => \A m \in AckPacket(n) :
          m.from = NextHop[m.to] /\ m.id \in received[m.from][m.to]
    BY DEF AckPacket, LinkInv
  <2>. QED BY <1>1, <1>3, <2>1, <2>2 DEF LinkInv
<1>. QED BY <1>1, <1>2, <1>4, <1>5, <1>6 DEF LinkInv

(* Every step keeps the two ends of every link together.                   *)
LEMMA LinkStep == TypeOK /\ ScheduleInv /\ CycleInv /\ LinkInv /\ [Next]_vars => LinkInv'
<1>. SUFFICES ASSUME TypeOK, ScheduleInv, CycleInv, LinkInv, [Next]_vars PROVE LinkInv'
  OBVIOUS
<1>1. ASSUME \/ \E n \in C2 : C2OnTimeChange(n)
             \/ \E n \in C3 : C3OnTimeChange(n)
             \/ NextStep
             \/ UNCHANGED vars
      PROVE  LinkInv'
  BY <1>1, QuietFrame DEF LinkInv, LinkAgreement, DataIsHead
<1>2. ASSUME NEW m \in starts, TransmissionStart(m) PROVE LinkInv'
  <2>1. UNCHANGED <<ends, ack, received, queue, localId>>
    BY <1>2 DEF TransmissionStart, linkVars
  <2>2. ASSUME NEW r \in Nodes, NEW w \in heard'[r] PROVE <<w.sender, r>> \in Reach
    <3>1. \A v \in heard[r] : <<v.sender, r>> \in Reach
      BY DEF LinkInv
    <3>2. CASE r \notin Receivers(m)
      BY <1>2, <2>2, <3>1, <3>2 DEF TransmissionStart
    <3>3. CASE r \in Receivers(m)
      <4>1. <<m.from, r>> \in Reach
        BY <3>3 DEF Receivers
      <4>2. \/ w \in [sender : {v.sender : v \in heard[r]}, isInterrupted : {TRUE}]
            \/ w = [sender |-> m.from, isInterrupted |-> heard[r] # {}]
        BY <1>2, <2>2, <3>3 DEF TransmissionStart
      <4>3. w.sender = m.from \/ w.sender \in {v.sender : v \in heard[r]}
        <5>1. w \in [sender : {v.sender : v \in heard[r]}, isInterrupted : {TRUE}] =>
                w.sender \in {v.sender : v \in heard[r]}
          OBVIOUS
        <5>2. ASSUME w = [sender |-> m.from, isInterrupted |-> heard[r] # {}]
              PROVE  w.sender = m.from
          <6>1. PICK i : w = [sender |-> m.from, isInterrupted |-> i]
            BY <5>2, Zenon
          <6>. QED BY <6>1
        <5>. QED BY <4>2, <5>1, <5>2
      <4>. QED BY <3>1, <4>1, <4>3
    <3>. QED BY <3>2, <3>3
  <2>. QED BY <2>1, <2>2 DEF LinkInv, LinkAgreement, DataIsHead
<1>3. ASSUME NEW m \in ends, LosePacket(m) PROVE LinkInv'
  <2>1. /\ ends' \subseteq ends /\ UNCHANGED <<ack, received, queue, localId>>
        /\ heard' = [r \in Nodes |-> {w \in heard[r] : w.sender # m.from}]
    BY <1>3 DEF LosePacket, TransmissionEnd, linkVars
  <2>. QED BY <2>1 DEF LinkInv, LinkAgreement, DataIsHead
<1>4. CASE LaterPhase
  BY <1>2, <1>3, <1>4, LinkTransmit, LinkReceiveData, LinkReceiveAck DEF LaterPhase, Nodes
<1>. QED BY <1>1, <1>4, NextPhases

-------------------------------------------------------------------------------
(* The two ends of every link keep agreeing, and what is in the air is     *)
(* always the head of its sender's queue, under every loss and collision.  *)
THEOREM LinkCorrect == Spec => [](LinkAgreement /\ DataIsHead)
<1>1. LinkInv => LinkAgreement /\ DataIsHead
  BY DEF LinkInv
<1>. QED BY <1>1, TypeInit, TypeStep, ScheduleInit, ScheduleStep, CycleInit, CycleStep,
       LinkInit, LinkStep, PTL DEF Spec
(* A packet leaves a queue only when the next hop has recorded its id.     *)
THEOREM PopCorrect == Spec => PopOnlyStored
<1>1. TypeOK /\ ScheduleInv /\ CycleInv /\ LinkInv /\ [Next]_vars =>
        \A n \in C2 : Len(queue'[n]) < Len(queue[n]) => localId[n] \in received[NextHop[n]][n]
  <2>. SUFFICES ASSUME TypeOK, ScheduleInv, CycleInv, LinkInv, [Next]_vars, NEW n \in C2,
                       Len(queue'[n]) < Len(queue[n])
                PROVE  localId[n] \in received[NextHop[n]][n]
    OBVIOUS
  <2>1. queue[n] \in Seq(Payload) /\ Len(queue[n]) \in Nat
    BY LenProperties DEF TypeOK
  <2>2. queue'[n] # queue[n]
    BY <2>1
  <2>3. CASE UNCHANGED queue
    BY <2>2, <2>3
  <2>4. ASSUME NEW m \in ends, ReceiveData(m) PROVE FALSE
    <3>1. n = m.to /\ queue' = Push(m)
      BY <2>2, <2>4 DEF ReceiveData, Push, TypeOK
    <3>2. queue'[n] = Append(queue[n], m.payload) /\ m.payload \in Payload
      BY <3>1, <2>4, DataReception DEF Push, TypeOK, DataMsg
    <3>3. Len(queue'[n]) = Len(queue[n]) + 1
      BY <2>1, <3>2, AppendProperties
    <3>. QED BY <2>1, <3>3
  <2>5. ASSUME NEW m \in ends, ReceiveAck(m) PROVE localId[n] \in received[NextHop[n]][n]
    <3>1. n = m.to
      BY <2>2, <2>5 DEF ReceiveAck, TypeOK
    <3>. QED BY <2>5, <3>1, AckArrival
  <2>6. LaterPhase => UNCHANGED queue \/ \E m \in ends : ReceiveData(m) \/ ReceiveAck(m)
    BY DEF LaterPhase, C2TransmitData, C2TransmitAck, C2StaySilent, C3TransmitAck,
       C3StaySilent, TransmissionStart, LosePacket, linkVars
  <2>. QED BY <2>3, <2>4, <2>5, <2>6, QuietFrame, NextPhases
<1>. QED BY <1>1, TypeInit, TypeStep, ScheduleInit, ScheduleStep, CycleInit, CycleStep,
       LinkInit, LinkStep, PTL DEF Spec, PopOnlyStored

-------------------------------------------------------------------------------
(* The acknowledgements owed and in the air, one by one: each is for the   *)
(* packet its addressee waits on, and no node has two of them.             *)
AnswerInv ==
  /\ NoStaleAck
  /\ OwedIsAwaited
  /\ \A m \in ends : /\ m.type = "data" => isExpectingAck[m.from]
                     /\ m.from \notin communications
  /\ \A m, p \in ends : m.from = p.from => m = p

(* Nothing is owed or in the air at the start.                             *)
LEMMA AnswerInit == Init => AnswerInv
BY DEF Init, AnswerInv, NoStaleAck, OwedIsAwaited

(* A node stops expecting only when no acknowledgement is owed or in the   *)
(* air any more.                                                           *)
LEMMA AnswerTransition ==
  ASSUME TypeOK, ScheduleInv, CycleInv, AnswerInv, NEW n \in C2, C2OnTimeChange(n)
  PROVE  AnswerInv'
<1>. USE DEF Nodes
<1>1. UNCHANGED <<ends, ack, localId, communications>>
  BY QuietFrame, C2Transition DEF Transition
<1>2. CASE UNCHANGED isExpectingAck
  BY <1>1, <1>2 DEF AnswerInv, NoStaleAck, OwedIsAwaited
<1>3. CASE step = 0
  <2>1. ends = {} /\ \A k \in Nodes : ack[k] = NoAck
    <3>1. \A m \in ends : m.type = "data" \/ m.type = "ack"
      BY DEF TypeOK, DataMsg, AckMsg
    <3>2. ends = {}
      BY <1>3, <3>1 DEF CycleInv
    <3>3. \A k \in Nodes : ack[k] = NoAck
      BY <1>3 DEF CycleInv, AckBeforeNextData
    <3>. QED BY <3>2, <3>3
  <2>. QED BY <1>1, <2>1 DEF AnswerInv, NoStaleAck, OwedIsAwaited
<1>4. step # 0 => UNCHANGED isExpectingAck
  <2>1. CASE step = 2 /\ C2SleepFromCommunicating(n)
    <3>1. n \in transitions /\ secondSleepWindow[n]
      BY <2>1 DEF C2SleepFromCommunicating, Transition, ScheduleInv
    <3>2. ~secondSleepWindow'[n]
      BY <2>1, <3>1 DEF C2SleepFromCommunicating, TypeOK
    <3>3. isExpectingAck' = [isExpectingAck EXCEPT ![n] = @ /\ ~secondSleepWindow'[n]]
      BY <2>1 DEF C2SleepFromCommunicating
    <3>4. isExpectingAck[n] \in BOOLEAN /\ isExpectingAck \in [C2 -> BOOLEAN]
      BY DEF TypeOK
    <3>5. (isExpectingAck[n] /\ ~secondSleepWindow'[n]) = isExpectingAck[n]
      BY <3>2, <3>4, Zenon
    <3>6. [isExpectingAck EXCEPT ![n] = isExpectingAck[n]] = isExpectingAck
      BY <3>4
    <3>. QED BY <3>3, <3>5, <3>6, Zenon
  <2>2. CASE C2SleepFromSleeping(n)
    BY <2>2 DEF C2SleepFromSleeping
  <2>3. CASE EnterWindow(n)
    BY <2>3 DEF EnterWindow, retryVars
  <2>. QED BY <2>1, <2>2, <2>3, C2TransitionKinds DEF TypeOK
<1>. QED BY <1>2, <1>3, <1>4

(* A node sends once in a window: what its communication step emits is the *)
(* only transmission under its name.                                       *)
LEMMA AnswerTransmit ==
  ASSUME TypeOK, ScheduleInv, CycleInv, LinkInv, AnswerInv, NEW n \in Nodes,
         \/ n \in C2 /\ (C2TransmitData(n) \/ C2TransmitAck(n) \/ C2StaySilent(n))
         \/ n \in C3 /\ (C3TransmitAck(n) \/ C3StaySilent(n))
  PROVE  AnswerInv'
<1>1. n \in communications /\ communications' = communications \ {n} /\ UNCHANGED localId
  BY DEF C2TransmitData, C2TransmitAck, C2StaySilent, C3TransmitAck, C3StaySilent,
     Communication, linkVars
<1>2. \A k \in Nodes : ack'[k] # NoAck => ack'[k] = ack[k]
  BY DEF C2TransmitData, C2TransmitAck, C2StaySilent, C3TransmitAck, C3StaySilent,
     RequestReset, TypeOK
<1>3. \A k \in C2 : isExpectingAck[k] => isExpectingAck'[k]
  BY DEF C2TransmitData, C2TransmitAck, C2StaySilent, C3TransmitAck, C3StaySilent,
     retryVars, TypeOK
<1>4. \/ ends' = ends
      \/ n \in C2 /\ isExpectingAck'[n] /\ ends' = ends \cup DataPacket(n)
      \/ ack[n] # NoAck /\ ends' = ends \cup AckPacket(n)
  BY DEF C2TransmitData, C2TransmitAck, C2StaySilent, C3TransmitAck, C3StaySilent,
     Emit, airVars, TypeOK
<1>5. \A m \in ends : /\ m.from # n
                      /\ m.type = "ack" => m.to \in C2
                      /\ m.type = "data" => m.from \in C2
  BY <1>1 DEF AnswerInv, TypeOK, DataMsg, AckMsg
<1>6. \A m \in DataPacket(n) : m.from = n /\ m.type = "data" /\ \A p \in DataPacket(n) : m = p
  BY DEF DataPacket
<1>7. \A m \in AckPacket(n) : m.from = n /\ m.type = "ack" /\ m.to = ack[n].to
                              /\ m.id = ack[n].id /\ \A p \in AckPacket(n) : m = p
  BY DEF AckPacket
<1>8. ack[n] # NoAck => /\ ack[n].to \in C2 /\ isExpectingAck[ack[n].to]
                        /\ ack[n].id = localId[ack[n].to] % IdMod /\ n = NextHop[ack[n].to]
  BY DEF AnswerInv, OwedIsAwaited, LinkInv, TypeOK, AckInfo
<1>9. NoStaleAck'
  BY <1>1, <1>3, <1>4, <1>5, <1>6, <1>7, <1>8 DEF AnswerInv, NoStaleAck, OwedIsAwaited
<1>10. \A k \in Nodes : ack'[k] # NoAck =>
         isExpectingAck'[ack'[k].to] /\ ack'[k].id = localId'[ack'[k].to] % IdMod
  BY <1>1, <1>2, <1>3 DEF AnswerInv, OwedIsAwaited, TypeOK, AckInfo
<1>11. \A m \in ends' : /\ m.type = "data" => isExpectingAck'[m.from]
                        /\ m.from \notin communications'
  BY <1>1, <1>3, <1>4, <1>5, <1>6, <1>7 DEF AnswerInv
<1>12. \A m, p \in ends' : m.from = p.from => m = p
  BY <1>4, <1>5, <1>6, <1>7 DEF AnswerInv
<1>. QED BY <1>9, <1>10, <1>11, <1>12 DEF AnswerInv, OwedIsAwaited

(* Data arriving creates the request for the packet its sender waits on;   *)
(* an acknowledgement arriving was the only one for its addressee.         *)
LEMMA AnswerEnd ==
  ASSUME TypeOK, ScheduleInv, CycleInv, LinkInv, AnswerInv, NEW m \in ends,
         ReceiveData(m) \/ ReceiveAck(m) \/ LosePacket(m)
  PROVE  AnswerInv'
<1>1. ends' = ends \ {m} /\ UNCHANGED communications /\ communications = {}
  BY DEF ReceiveData, ReceiveAck, LosePacket, TransmissionEnd, clockVars
<1>2. CASE ReceiveData(m)
  <2>1. /\ ack' = [ack EXCEPT ![m.to] = [to |-> m.from, id |-> m.id]]
        /\ UNCHANGED <<localId, isExpectingAck>>
    BY <1>2 DEF ReceiveData
  <2>2. m \in DataMsg /\ m.type = "data" /\ m.id = localId[m.from] % IdMod
    BY <1>2, DataReception DEF ReceiveData, AcceptsData, LinkInv, DataIsHead
  <2>3. isExpectingAck[m.from] /\ m.to \in Nodes
    BY <2>2 DEF AnswerInv, DataMsg
  <2>4. \A k \in Nodes : ack'[k] # NoAck =>
          isExpectingAck'[ack'[k].to] /\ ack'[k].id = localId'[ack'[k].to] % IdMod
    BY <2>1, <2>2, <2>3 DEF AnswerInv, OwedIsAwaited, TypeOK
  <2>. QED BY <1>1, <2>1, <2>4 DEF AnswerInv, NoStaleAck, OwedIsAwaited
<1>3. CASE ReceiveAck(m)
  <2>1. /\ step = 3 /\ m.to \in C2 /\ m.from = NextHop[m.to]
        /\ \A p \in ends : p.type = "ack"
    BY <1>3, AckArrival
  <2>2. UNCHANGED ack /\ \A k \in Nodes : ack[k] = NoAck
    BY <1>1, <1>3, <2>1 DEF ReceiveAck, CycleInv, AckBeforeNextData
  <2>3. \A p \in ends' : p.to # m.to
    BY <1>1, <2>1 DEF AnswerInv, NoStaleAck, OwedIsAwaited
  <2>4. \A k \in C2 \ {m.to} : localId'[k] = localId[k] /\ isExpectingAck'[k] = isExpectingAck[k]
    BY <1>3 DEF ReceiveAck, Counted, TypeOK
  <2>5. \A p \in ends : p.to \in C2
    BY <2>1 DEF TypeOK, DataMsg, AckMsg
  <2>. QED BY <1>1, <2>1, <2>2, <2>3, <2>4, <2>5 DEF AnswerInv, NoStaleAck, OwedIsAwaited
<1>4. CASE LosePacket(m)
  <2>1. UNCHANGED <<ack, localId, isExpectingAck>>
    BY <1>4 DEF LosePacket, linkVars
  <2>. QED BY <1>1, <2>1 DEF AnswerInv, NoStaleAck, OwedIsAwaited
<1>. QED BY <1>2, <1>3, <1>4

(* Every step keeps the answers matched.                                   *)
LEMMA AnswerStep ==
  TypeOK /\ ScheduleInv /\ CycleInv /\ LinkInv /\ AnswerInv /\ [Next]_vars => AnswerInv'
<1>. SUFFICES ASSUME TypeOK, ScheduleInv, CycleInv, LinkInv, AnswerInv, [Next]_vars
              PROVE  AnswerInv'
  OBVIOUS
<1>1. ASSUME NEW n \in C3, C3OnTimeChange(n) PROVE AnswerInv'
  <2>1. UNCHANGED <<ends, ack, localId, communications, isExpectingAck>>
    BY <1>1 DEF C3OnTimeChange, Transition, airVars, linkVars, retryVars
  <2>. QED BY <2>1 DEF AnswerInv, NoStaleAck, OwedIsAwaited
<1>2. ASSUME NEW m \in starts, TransmissionStart(m) PROVE AnswerInv'
  <2>1. UNCHANGED <<ends, ack, localId, communications, isExpectingAck>>
    BY <1>2 DEF TransmissionStart, clockVars, linkVars, retryVars
  <2>. QED BY <2>1 DEF AnswerInv, NoStaleAck, OwedIsAwaited
<1>3. CASE LaterPhase
  BY <1>2, <1>3, AnswerTransmit, AnswerEnd DEF LaterPhase, Nodes
<1>4. CASE NextStep
  <2>1. ends = {} /\ UNCHANGED <<ends, ack, localId, isExpectingAck>>
    BY <1>4 DEF NextStep, airVars, linkVars, retryVars
  <2>. QED BY <2>1 DEF AnswerInv, NoStaleAck, OwedIsAwaited
<1>5. CASE UNCHANGED vars
  BY <1>5 DEF vars, clockVars, airVars, linkVars, retryVars, AnswerInv, NoStaleAck, OwedIsAwaited
<1>. QED BY <1>1, <1>3, <1>4, <1>5, AnswerTransition, NextPhases

(* Matching an acknowledgement by its id alone is enough: one for an       *)
(* earlier packet, or for a packet given up, is never owed or in the air.  *)
THEOREM AnswersMatch == Spec => [](NoStaleAck /\ OwedIsAwaited)
<1>1. AnswerInv => NoStaleAck /\ OwedIsAwaited
  BY DEF AnswerInv
<1>. QED BY <1>1, TypeInit, TypeStep, ScheduleInit, ScheduleStep, CycleInit, CycleStep,
       LinkInit, LinkStep, AnswerInit, AnswerStep, PTL DEF Spec

-------------------------------------------------------------------------------
(***************************************************************************)
(* Who hears whom.  All data of a window overlap, so a packet that comes   *)
(* through was the only one its receiver heard; the senders of the window  *)
(* are those that expect an acknowledgement.                               *)
(***************************************************************************)
SymmetricReach == \A p, q \in Nodes : <<p, q>> \in Reach => <<q, p>> \in Reach

(* Senders of this data window whose transmission has begun.               *)
Begun(n) == isExpectingAck[n] /\ \A m \in starts : m.from # n

(* The data window: what is heard are transmissions under way, as long as  *)
(* some have not begun each one that has is heard within its reach, and    *)
(* one heard undisturbed is alone.                                         *)
HearInv ==
  /\ communications # {} => starts = ends
  /\ \A r \in Nodes : \A w \in heard[r] : \E m \in ends : m \notin starts /\ m.from = w.sender
  /\ \A n \in C2 : step = 1 /\ n \in communications /\ n \notin transitions
                   /\ nodeState[n] = "Communicating" /\ category[n] = FixedCategory(n)
                   => queue[n] # << >>
  /\ step = 1 /\ (communications # {} \/ starts # {}) =>
       \A n \in C2, r \in Nodes : Begun(n) /\ <<n, r>> \in Reach =>
         \E w \in heard[r] : w.sender = n
  /\ step = 1 => \A r \in Nodes : \A w \in heard[r] : \A n \in C2 :
       ~w.isInterrupted /\ Begun(n) /\ <<n, r>> \in Reach => n = w.sender

(* r answers the only sender it can have heard.                            *)
OnlyHeard(r, from) ==
  /\ <<from, r>> \in Reach
  /\ \A n \in C2 : isExpectingAck[n] /\ <<n, r>> \in Reach => n = from

(* The ACK window: every answer, owed or in the air, is to the only sender *)
(* the answering node heard, and one under way is heard undisturbed.       *)
OnlyInv ==
  /\ \A r \in Nodes : ack[r] # NoAck => OnlyHeard(r, ack[r].to)
  /\ \A m \in ends : m.type = "ack" => OnlyHeard(m.from, m.to)
  /\ \A n \in C2 : step = 3 /\ n \notin transitions /\ isTransmitting[n] =>
       category[n] = ListenCategory(n)

ClearInv == \A m \in ends : m.type = "ack" /\ m \notin starts => HeardClean(m)

(* Nothing is heard at the start.                                          *)
LEMMA HearInit == Init => HearInv /\ OnlyInv /\ ClearInv
BY RoutingAssumption DEF Init, HearInv, OnlyInv, ClearInv, Begun, Nodes

(* What a C2 transition leaves alone.                                      *)
LEMMA C2Frame ==
  ASSUME TypeOK, NEW n \in C2, C2OnTimeChange(n)
  PROVE  /\ \A k \in C2 : isExpectingAck'[k] => isExpectingAck[k]
         /\ \A k \in C2 \ {n} : /\ nodeState'[k] = nodeState[k] /\ category'[k] = category[k]
                                /\ isTransmitting'[k] = isTransmitting[k]
<1>1. CASE C2SleepFromSleeping(n) \/ C2SleepFromCommunicating(n)
  BY <1>1 DEF C2SleepFromSleeping, C2SleepFromCommunicating, windowVars, TypeOK, Nodes
<1>2. CASE \/ SleepThroughWindow(n) \/ EnterAckWindow(n) \/ WakeToListen(n)
           \/ WakeToTransmit(n) \/ PassSlot(n)
  <2>1. EnterWindow(n)
    BY <1>2 DEF SleepThroughWindow, EnterAckWindow, WakeToListen, WakeToTransmit, PassSlot
  <2>2. UNCHANGED isExpectingAck /\ \A k \in C2 \ {n} :
          category'[k] = category[k] /\ isTransmitting'[k] = isTransmitting[k]
    BY <2>1 DEF EnterWindow, retryVars, TypeOK
  <2>3. \A k \in C2 \ {n} : nodeState'[k] = nodeState[k]
    BY <1>2 DEF SleepThroughWindow, EnterAckWindow, WakeToListen, WakeToTransmit, PassSlot,
         WakeUp, TypeOK, Nodes
  <2>. QED BY <2>2, <2>3
<1>. QED BY <1>1, <1>2 DEF C2OnTimeChange

(* A transition makes no sender begin, and one that wakes up in the data   *)
(* window of its own category has something to send.                       *)
LEMMA HearTransition ==
  ASSUME TypeOK, ScheduleInv, CycleInv, HearInv, OnlyInv, ClearInv, NEW n \in C2,
         C2OnTimeChange(n)
  PROVE  HearInv' /\ OnlyInv' /\ ClearInv'
<1>1. /\ UNCHANGED <<step, communications, starts, ends, heard, ack, queue>>
      /\ n \in transitions /\ transitions' = transitions \ {n}
  BY QuietFrame, C2Transition DEF Transition
<1>2. /\ \A k \in C2 : isExpectingAck'[k] => isExpectingAck[k]
      /\ \A k \in C2 \ {n} : /\ nodeState'[k] = nodeState[k] /\ category'[k] = category[k]
                             /\ isTransmitting'[k] = isTransmitting[k]
  BY C2Frame
<1>3. step \in {1, 3} => ~isTransmitting'[n]
  BY C2TransitionKinds DEF EnterWindow, TypeOK
<1>4. ASSUME step = 1, nodeState'[n] = "Communicating", category'[n] = FixedCategory(n)
      PROVE  queue[n] # << >>
  <2>1. EnterWindow(n)
    BY <1>4, C2TransitionKinds
  <2>2. NextCategory(n) = FixedCategory(n) /\ isACKSlot[n] /\ nodeState[n] = "Sleeping"
    BY <1>1, <1>4, <2>1 DEF EnterWindow, TypeOK, ScheduleInv, WindowsAgree
  <2>3. ~SleepThroughWindow(n) /\ ~EnterAckWindow(n) /\ ~PassSlot(n)
    BY <1>4, <2>2 DEF SleepThroughWindow, EnterAckWindow, PassSlot
  <2>4. ~WakeToListen(n)
    BY <2>2, CategoriesDiffer DEF WakeToListen
  <2>5. WakeToTransmit(n)
    BY <1>4, <2>3, <2>4, C2TransitionKinds
  <2>. QED BY <2>5 DEF WakeToTransmit
<1>5. \A k \in C2 : Begun(k)' => Begun(k)
  BY <1>1, <1>2 DEF Begun
<1>6. HearInv'
  <2>1. /\ communications' # {} => starts' = ends'
        /\ \A r \in Nodes : \A w \in heard'[r] :
             \E m \in ends' : m \notin starts' /\ m.from = w.sender
    BY <1>1 DEF HearInv
  <2>2. \A k \in C2 : step' = 1 /\ k \in communications' /\ k \notin transitions'
                      /\ nodeState'[k] = "Communicating" /\ category'[k] = FixedCategory(k)
                      => queue'[k] # << >>
    BY <1>1, <1>2, <1>4 DEF HearInv
  <2>3. step' = 1 /\ (communications' # {} \/ starts' # {}) =>
          \A k \in C2, r \in Nodes : Begun(k)' /\ <<k, r>> \in Reach =>
            \E w \in heard'[r] : w.sender = k
    BY <1>1, <1>5 DEF HearInv
  <2>4. step' = 1 => \A r \in Nodes : \A w \in heard'[r] : \A k \in C2 :
          ~w.isInterrupted /\ Begun(k)' /\ <<k, r>> \in Reach => k = w.sender
    BY <1>1, <1>5 DEF HearInv
  <2>. QED BY <2>1, <2>2, <2>3, <2>4 DEF HearInv
<1>7. OnlyInv'
  BY <1>1, <1>2, <1>3 DEF OnlyInv, OnlyHeard
<1>8. ClearInv'
  BY <1>1 DEF ClearInv, HeardClean
<1>. QED BY <1>6, <1>7, <1>8

(* A communication step only adds to what has not begun yet.               *)
LEMMA HearTransmit ==
  ASSUME TypeOK, ScheduleInv, CycleInv, HearInv, OnlyInv, NEW n \in Nodes,
         \/ n \in C2 /\ (C2TransmitData(n) \/ C2TransmitAck(n) \/ C2StaySilent(n))
         \/ n \in C3 /\ (C3TransmitAck(n) \/ C3StaySilent(n))
  PROVE  HearInv' /\ OnlyInv' /\ ClearInv'
<1>1. /\ n \in communications /\ communications' = communications \ {n} /\ transitions = {}
      /\ UNCHANGED <<step, transitions, heard, nodeState, category, queue>>
  BY DEF C2TransmitData, C2TransmitAck, C2StaySilent, C3TransmitAck, C3StaySilent,
     Communication, Emit, airVars, linkVars, windowVars
<1>2. starts = ends /\ \A r \in Nodes : heard[r] = {}
  BY <1>1 DEF HearInv
<1>3. CASE n \in C2 /\ C2TransmitData(n)
  <2>1. /\ step = 1 /\ \A k \in Nodes : ack[k] = NoAck
        /\ category[n] = FixedCategory(n) /\ nodeState[n] = "Communicating"
    <3>1. step = 1 /\ category[n] = FixedCategory(n)
      BY <1>3, DataTransmission
    <3>2. \A k \in Nodes : ack[k] = NoAck
      BY <1>1, <3>1 DEF CycleInv, AckBeforeNextData
    <3>3. nodeState[n] = "Communicating"
      BY <1>3 DEF C2TransmitData
    <3>. QED BY <3>1, <3>2, <3>3
  <2>2. queue[n] # << >>
    BY <1>1, <1>3, <2>1 DEF HearInv
  <2>3. /\ starts' = starts \cup DataPacket(n) /\ ends' = ends \cup DataPacket(n)
        /\ isExpectingAck' = [isExpectingAck EXCEPT ![n] = TRUE] /\ UNCHANGED ack
    BY <1>3 DEF C2TransmitData, Emit
  <2>4. /\ \A m \in DataPacket(n) : m.type = "data"
        /\ \E m \in DataPacket(n) : m.from = n
    <3>1. DataPacket(n) = {[type |-> "data", from |-> n, to |-> NextHop[n],
                            id |-> localId[n] % IdMod, payload |-> Head(queue[n])]}
      BY <2>2 DEF DataPacket
    <3>. QED BY <3>1
  <2>5. \A k \in C2 : Begun(k)' => Begun(k)
    BY <2>3, <2>4 DEF Begun, TypeOK
  <2>6. HearInv'
    BY <1>1, <1>2, <2>1, <2>3, <2>5 DEF HearInv
  <2>7. OnlyInv'
    <3>1. \A m \in ends' : m.type # "ack"
      BY <2>1, <2>3, <2>4 DEF CycleInv
    <3>. QED BY <1>1, <2>1, <2>3, <3>1 DEF OnlyInv
  <2>. QED BY <1>2, <2>3, <2>6, <2>7 DEF ClearInv
<1>4. CASE (n \in C2 /\ C2TransmitAck(n)) \/ (n \in C3 /\ C3TransmitAck(n))
  <2>1. /\ starts' = starts \cup AckPacket(n) /\ ends' = ends \cup AckPacket(n)
        /\ ack[n] # NoAck /\ ack' = RequestReset(n) /\ UNCHANGED isExpectingAck
        /\ \A k \in C2 \ {n} : isTransmitting'[k] = isTransmitting[k]
    BY <1>4 DEF C2TransmitAck, C3TransmitAck, Emit, retryVars, windowVars, TypeOK
  <2>2. \A k \in Nodes : ack'[k] # NoAck => ack'[k] = ack[k]
    BY <2>1 DEF RequestReset, TypeOK
  <2>3. \A m \in AckPacket(n) : m.from = n /\ m.to = ack[n].to
    BY DEF AckPacket
  <2>4. n \in C2 => category[n] = ListenCategory(n)
    BY <2>1 DEF CycleInv
  <2>5. \A k \in C2 : Begun(k)' => Begun(k)
    BY <2>1 DEF Begun
  <2>6. HearInv'
    BY <1>1, <1>2, <2>1, <2>5 DEF HearInv
  <2>7. OnlyInv'
    BY <1>1, <2>1, <2>2, <2>3, <2>4 DEF OnlyInv, OnlyHeard
  <2>. QED BY <1>2, <2>1, <2>6, <2>7 DEF ClearInv
<1>5. CASE (n \in C2 /\ C2StaySilent(n)) \/ (n \in C3 /\ C3StaySilent(n))
  <2>1. UNCHANGED <<starts, ends, ack, isExpectingAck, isTransmitting>>
    BY <1>5 DEF C2StaySilent, C3StaySilent, airVars, retryVars, windowVars
  <2>2. HearInv'
    BY <1>1, <1>2, <2>1 DEF HearInv, Begun
  <2>3. OnlyInv'
    BY <1>1, <2>1 DEF OnlyInv, OnlyHeard
  <2>. QED BY <1>2, <2>1, <2>2, <2>3 DEF ClearInv
<1>. QED BY <1>3, <1>4, <1>5

(* What the receivers of a transmission hear once it has begun: one that   *)
(* heard nothing before hears it undisturbed, any other is disturbed.      *)
LEMMA StartHeard ==
  ASSUME TypeOK, NEW m \in starts, TransmissionStart(m), NEW r \in Nodes
  PROVE  /\ r \notin Receivers(m) => heard'[r] = heard[r]
         /\ \A w \in heard'[r] : w.sender = m.from \/ \E v \in heard[r] : v.sender = w.sender
         /\ \A v \in heard[r] : \E w \in heard'[r] : w.sender = v.sender
         /\ r \in Receivers(m) => \E w \in heard'[r] : w.sender = m.from
         /\ \A w \in heard'[r] : r \in Receivers(m) /\ ~w.isInterrupted =>
              heard[r] = {} /\ w.sender = m.from
         /\ r \in Receivers(m) /\ heard[r] = {} =>
              [sender |-> m.from, isInterrupted |-> FALSE] \in heard'[r]
<1>. DEFINE disturbed == [sender : {v.sender : v \in heard[r]}, isInterrupted : {TRUE}]
<1>1. CASE r \notin Receivers(m)
  BY <1>1 DEF TransmissionStart
<1>2. CASE r \in Receivers(m) /\ heard[r] = {}
  <2>1. disturbed = {}
    BY <1>2
  <2>2. (heard[r] # {}) = FALSE
    BY <1>2
  <2>3. heard'[r] = {[sender |-> m.from, isInterrupted |-> FALSE]}
    <3>1. heard'[r] = disturbed \cup {[sender |-> m.from, isInterrupted |-> heard[r] # {}]}
      BY <1>2 DEF TransmissionStart
    <3>. QED BY <2>1, <2>2, <3>1, Zenon
  <2>. QED BY <1>2, <2>3
<1>3. CASE r \in Receivers(m) /\ heard[r] # {}
  <2>1. (heard[r] # {}) = TRUE
    BY <1>3
  <2>2. heard'[r] = disturbed \cup {[sender |-> m.from, isInterrupted |-> TRUE]}
    <3>1. heard'[r] = disturbed \cup {[sender |-> m.from, isInterrupted |-> heard[r] # {}]}
      BY <1>3 DEF TransmissionStart
    <3>. QED BY <2>1, <3>1, Zenon
  <2>3. \A w \in disturbed : w.isInterrupted /\ \E v \in heard[r] : v.sender = w.sender
    OBVIOUS
  <2>4. \A v \in heard[r] : \E w \in disturbed : w.sender = v.sender
    <3>1. ASSUME NEW v \in heard[r]
          PROVE  [sender |-> v.sender, isInterrupted |-> TRUE] \in disturbed
      OBVIOUS
    <3>. QED BY <3>1
  <2>. HIDE DEF disturbed
  <2>. QED BY <1>3, <2>2, <2>3, <2>4
<1>. QED BY <1>1, <1>2, <1>3

(* Where reach is symmetric only one answer in the air reaches a node that *)
(* awaits one: the answering node heard it, and answers whom it heard.     *)
LEMMA Alone ==
  ASSUME SymmetricReach, TypeOK, LinkInv, AnswerInv, OnlyInv, NEW m \in ends, NEW p \in ends,
         m.type = "ack", p.type = "ack", <<p.from, m.to>> \in Reach
  PROVE  p = m
<1>1. m \in AckMsg /\ p \in AckMsg /\ m.to \in C2 /\ p.from \in Nodes /\ m.to \in Nodes
  BY DEF TypeOK, DataMsg, AckMsg, Nodes
<1>2. isExpectingAck[m.to] /\ <<m.to, p.from>> \in Reach
  BY <1>1 DEF SymmetricReach, AnswerInv, NoStaleAck
<1>3. m.to = p.to
  BY <1>1, <1>2 DEF OnlyInv, OnlyHeard
<1>4. m.from = p.from
  BY <1>3 DEF LinkInv
<1>. QED BY <1>4 DEF AnswerInv

(* The start of a transmission.                                            *)
LEMMA HearStart ==
  ASSUME SymmetricReach, TypeOK, ScheduleInv, CycleInv, LinkInv, AnswerInv, HearInv, OnlyInv,
         ClearInv, NEW m \in starts, TransmissionStart(m)
  PROVE  HearInv' /\ OnlyInv' /\ ClearInv'
<1>1. /\ communications = {} /\ starts' = starts \ {m} /\ m \in ends
      /\ UNCHANGED <<step, transitions, communications, ends, ack, isExpectingAck,
                     isTransmitting, category>>
  BY DEF TransmissionStart, clockVars, windowVars, retryVars, TypeOK
<1>2. \A k \in C2 : Begun(k)' /\ k # m.from => Begun(k)
  BY <1>1 DEF Begun
<1>3. HearInv'
  <2>1. ASSUME NEW r \in Nodes, NEW w \in heard'[r]
        PROVE  \E p \in ends' : p \notin starts' /\ p.from = w.sender
    <3>1. CASE w.sender = m.from
      BY <1>1, <3>1
    <3>2. ASSUME NEW v \in heard[r], v.sender = w.sender
          PROVE  \E p \in ends' : p \notin starts' /\ p.from = w.sender
      BY <1>1, <3>2 DEF HearInv
    <3>3. w.sender = m.from \/ \E v \in heard[r] : v.sender = w.sender
      BY <2>1, StartHeard
    <3>. QED BY <3>1, <3>2, <3>3
  <2>2. ASSUME step' = 1, NEW k \in C2, NEW r \in Nodes, Begun(k)', <<k, r>> \in Reach
        PROVE  \E w \in heard'[r] : w.sender = k
    <3>1. CASE k = m.from
      <4>1. r \in Receivers(m)
        BY <2>2, <3>1 DEF Receivers
      <4>. QED BY <3>1, <4>1, StartHeard
    <3>2. CASE k # m.from
      <4>1. PICK v \in heard[r] : v.sender = k
        BY <1>1, <1>2, <2>2, <3>2 DEF HearInv
      <4>2. \E w \in heard'[r] : w.sender = v.sender
        BY <4>1, StartHeard
      <4>. QED BY <4>1, <4>2
    <3>. QED BY <3>1, <3>2
  <2>3. ASSUME step' = 1, NEW r \in Nodes, NEW w \in heard'[r], NEW k \in C2,
               ~w.isInterrupted, Begun(k)', <<k, r>> \in Reach
        PROVE  k = w.sender
    <3>1. CASE r \notin Receivers(m)
      <4>1. k # m.from
        BY <2>3, <3>1 DEF Receivers
      <4>2. w \in heard[r]
        BY <2>3, <3>1, StartHeard
      <4>. QED BY <1>1, <1>2, <2>3, <4>1, <4>2 DEF HearInv
    <3>2. CASE r \in Receivers(m)
      <4>1. heard[r] = {} /\ w.sender = m.from
        BY <2>3, <3>2, StartHeard
      <4>2. k # m.from => \E v \in heard[r] : v.sender = k
        BY <1>1, <1>2, <2>3 DEF HearInv
      <4>. QED BY <4>1, <4>2
    <3>. QED BY <3>1, <3>2
  <2>. QED BY <1>1, <2>1, <2>2, <2>3 DEF HearInv
<1>4. OnlyInv'
  BY <1>1 DEF OnlyInv, OnlyHeard
<1>5. ClearInv'
  <2>. SUFFICES ASSUME NEW p \in ends, p.type = "ack", p \notin starts'
                PROVE  [sender |-> p.from, isInterrupted |-> FALSE] \in heard'[p.to]
    BY <1>1 DEF ClearInv, HeardClean
  <2>1. /\ p.to \in Nodes /\ p.from \in Nodes /\ step = 3
        /\ <<p.from, p.to>> \in Reach
    <3>1. p.to \in Nodes /\ p.from \in Nodes /\ step = 3
      BY DEF TypeOK, DataMsg, AckMsg, Nodes, CycleInv
    <3>2. <<p.to, p.from>> \in Reach
      BY DEF OnlyInv, OnlyHeard
    <3>. QED BY <3>1, <3>2 DEF SymmetricReach
  <2>2. m.type = "ack"
    BY <1>1, <2>1 DEF CycleInv, TypeOK, DataMsg, AckMsg
  <2>3. CASE p = m
    <3>1. m.to \in Receivers(m)
      BY <2>1, <2>3 DEF Receivers
    <3>2. ASSUME NEW w \in heard[m.to] PROVE FALSE
      <4>1. PICK q \in ends : q \notin starts /\ q.from = w.sender
        BY <2>1, <2>3, <3>2 DEF HearInv
      <4>2. <<q.from, m.to>> \in Reach /\ q.type = "ack"
        BY <2>1, <2>3, <3>2, <4>1 DEF LinkInv, CycleInv, TypeOK, DataMsg, AckMsg
      <4>. QED BY <1>1, <2>2, <4>1, <4>2, Alone
    <3>. QED BY <2>1, <2>3, <3>1, <3>2, StartHeard
  <2>4. CASE p # m
    <3>1. p.to \notin Receivers(m)
      BY <1>1, <2>2, <2>4, Alone DEF Receivers
    <3>2. [sender |-> p.from, isInterrupted |-> FALSE] \in heard[p.to]
      BY <1>1, <2>4 DEF ClearInv, HeardClean
    <3>. QED BY <2>1, <3>1, <3>2, StartHeard
  <2>. QED BY <2>3, <2>4
<1>. QED BY <1>3, <1>4, <1>5

(* The end of one: data that comes through was alone at its receiver.      *)
LEMMA HearEnd ==
  ASSUME TypeOK, ScheduleInv, CycleInv, LinkInv, AnswerInv, HearInv, OnlyInv, ClearInv,
         NEW m \in ends, ReceiveData(m) \/ ReceiveAck(m) \/ LosePacket(m)
  PROVE  HearInv' /\ OnlyInv' /\ ClearInv'
<1>1. /\ communications = {} /\ starts = {} /\ ends' = ends \ {m}
      /\ heard' = [r \in Nodes |-> {w \in heard[r] : w.sender # m.from}]
      /\ UNCHANGED <<step, transitions, communications, starts, isTransmitting, category>>
  BY DEF ReceiveData, ReceiveAck, LosePacket, TransmissionEnd, clockVars, windowVars
<1>2. \A k \in C2 : isExpectingAck'[k] => isExpectingAck[k]
  BY DEF ReceiveData, ReceiveAck, LosePacket, TypeOK
<1>3. \A k \in C2 : Begun(k)' => Begun(k)
  BY <1>1, <1>2 DEF Begun
<1>4. HearInv'
  <2>1. \A r \in Nodes : \A w \in heard'[r] :
          \E p \in ends' : p \notin starts' /\ p.from = w.sender
    BY <1>1 DEF HearInv
  <2>2. step' = 1 => \A r \in Nodes : \A w \in heard'[r] : \A k \in C2 :
          ~w.isInterrupted /\ Begun(k)' /\ <<k, r>> \in Reach => k = w.sender
    BY <1>1, <1>3 DEF HearInv
  <2>. QED BY <1>1, <2>1, <2>2 DEF HearInv
<1>5. OnlyInv'
  <2>1. \A k \in Nodes : ack'[k] # NoAck => OnlyHeard(k, ack'[k].to)
    <3>1. CASE ReceiveData(m)
      <4>1. /\ step = 1 /\ m.to \in Nodes /\ m.from \in C2
            /\ ack' = [ack EXCEPT ![m.to] = [to |-> m.from, id |-> m.id]]
            /\ [sender |-> m.from, isInterrupted |-> FALSE] \in heard[m.to]
        BY <3>1, DataReception DEF ReceiveData, AcceptsData, HeardClean, DataMsg
      <4>2. <<m.from, m.to>> \in Reach
        BY <4>1 DEF LinkInv
      <4>3. \A k \in C2 : isExpectingAck[k] => Begun(k)
        BY <1>1 DEF Begun
      <4>4. OnlyHeard(m.to, m.from)
        BY <4>1, <4>2, <4>3 DEF OnlyHeard, HearInv
      <4>. QED BY <4>1, <4>4 DEF OnlyInv, TypeOK
    <3>2. CASE ReceiveAck(m) \/ LosePacket(m)
      BY <3>2 DEF ReceiveAck, LosePacket, OnlyInv
    <3>. QED BY <3>1, <3>2
  <2>2. \A k, f : OnlyHeard(k, f) => OnlyHeard(k, f)'
    BY <1>2 DEF OnlyHeard
  <2>. QED BY <1>1, <2>1, <2>2 DEF OnlyInv
<1>6. ClearInv'
  <2>1. \A p \in ends' : p.type = "ack" => p.to \in Nodes /\ p.from # m.from
    BY <1>1 DEF AnswerInv, TypeOK, DataMsg, AckMsg, Nodes
  <2>. QED BY <1>1, <2>1 DEF ClearInv, HeardClean
<1>. QED BY <1>4, <1>5, <1>6

(* The next step begins with an empty air, a data window with nobody       *)
(* waiting for an answer.                                                  *)
LEMMA HearNextStep ==
  ASSUME TypeOK, ScheduleInv, CycleInv, HearInv, OnlyInv, NextStep
  PROVE  HearInv' /\ OnlyInv' /\ ClearInv'
<1>1. /\ transitions = {} /\ communications = {} /\ starts = {} /\ ends = {}
      /\ step' = (step + 1) % 4 /\ transitions' = rescheduled /\ rescheduled = Nodes
      /\ UNCHANGED <<starts, ends, heard, ack, isExpectingAck>>
  BY DEF NextStep, airVars, retryVars, ScheduleInv, NeverFrozen
<1>2. \A r \in Nodes : heard[r] = {}
  BY <1>1 DEF HearInv
<1>3. step' = 1 => step = 0
  <2>1. step \in 0..3
    BY DEF TypeOK
  <2>. QED BY <1>1, <2>1
<1>4. step' = 1 => \A n \in C2 : ~isExpectingAck'[n]
  BY <1>1, <1>3 DEF CycleInv, WaitsWithinOneCycle
<1>5. HearInv'
  BY <1>1, <1>2, <1>4 DEF HearInv, Begun, Nodes
<1>6. OnlyInv'
  BY <1>1 DEF OnlyInv, OnlyHeard, Nodes
<1>. QED BY <1>1, <1>5, <1>6 DEF ClearInv

(* Every step keeps account of who hears whom.                             *)
LEMMA HearStep ==
  ASSUME SymmetricReach, TypeOK, ScheduleInv, CycleInv, LinkInv, AnswerInv, HearInv, OnlyInv,
         ClearInv, [Next]_vars
  PROVE  HearInv' /\ OnlyInv' /\ ClearInv'
<1>1. ASSUME NEW n \in C3, C3OnTimeChange(n) PROVE HearInv' /\ OnlyInv' /\ ClearInv'
  <2>1. /\ UNCHANGED <<step, communications, starts, ends, heard, ack, queue, isExpectingAck,
                       isTransmitting, category>>
        /\ transitions' = transitions \ {n}
        /\ \A k \in C2 : nodeState'[k] = nodeState[k]
    BY <1>1, RoutingAssumption DEF C3OnTimeChange, Transition, airVars, linkVars, retryVars,
         windowVars, TypeOK, Nodes
  <2>2. \A k \in C2 : k \notin transitions' => k \notin transitions
    BY <1>1, <2>1, RoutingAssumption
  <2>. QED BY <2>1, <2>2 DEF HearInv, OnlyInv, ClearInv, Begun, OnlyHeard, HeardClean
<1>2. CASE LaterPhase
  BY <1>2, HearTransmit, HearStart, HearEnd DEF LaterPhase, Nodes
<1>3. CASE UNCHANGED vars
  BY <1>3 DEF vars, clockVars, airVars, linkVars, retryVars, windowVars, HearInv, OnlyInv,
       ClearInv, Begun, OnlyHeard, HeardClean
<1>. QED BY <1>1, <1>2, <1>3, HearTransition, HearNextStep, NextPhases

(* Where reach is symmetric, as a distance threshold makes it, every       *)
(* acknowledgement sent is heard by a node awake for it: the only packets  *)
(* the protocol ever loses are data.                                       *)
THEOREM AcksAlwaysHeard ==
  ASSUME SymmetricReach
  PROVE  Spec => []AckAlwaysHeard
<1>1. ASSUME TypeOK, ScheduleInv, CycleInv, AnswerInv, OnlyInv, ClearInv
      PROVE  AckAlwaysHeard
  <2>. SUFFICES ASSUME NEW m \in ends, m.type = "ack", communications = {}, starts = {}
                PROVE  AcceptsAck(m)
    BY DEF AckAlwaysHeard
  <2>1. m.to \in C2 /\ step = 3 /\ transitions = {} /\ isExpectingAck[m.to]
    BY <1>1 DEF TypeOK, DataMsg, AckMsg, CycleInv, ScheduleInv, AnswerInv, NoStaleAck
  <2>2. isACKSlot[m.to] /\ nodeState[m.to] = "Communicating"
    BY <1>1, <2>1 DEF ScheduleInv, WindowsAgree, CycleInv, WakesForAck
  <2>3. ~isTransmitting[m.to]
    BY <1>1, <2>1, CategoriesDiffer DEF OnlyInv, CycleInv
  <2>4. HeardClean(m)
    BY <1>1 DEF ClearInv
  <2>. QED BY <2>1, <2>2, <2>3, <2>4 DEF AcceptsAck, CanNodeReceiveMessage
<1>. QED BY <1>1, TypeInit, TypeStep, ScheduleInit, ScheduleStep, CycleInit, CycleStep,
       LinkInit, LinkStep, AnswerInit, AnswerStep, HearInit, HearStep, PTL DEF Spec

-------------------------------------------------------------------------------
(* Steps that leave both ends of every link alone are stutters of the      *)
(* abstract network.                                                       *)
LEMMA HeldUnchanged ==
  ASSUME UNCHANGED <<received, queue, localId, delivered>>
  PROVE  Held' = Held
BY DEF Held

(* Data stored as new is exactly one hand-over; a duplicate is a stutter.  *)
LEMMA DataHandsOver ==
  ASSUME TypeOK, ScheduleInv, CycleInv, LinkInv, NEW m \in ends, ReceiveData(m)
  PROVE  Abstract!Next \/ Held' = Held
<1>1. /\ received' = Record(m) /\ UNCHANGED localId
      /\ queue' = IF m.to \in C2 /\ IsNew(m) THEN Push(m) ELSE queue
      /\ delivered' = IF m.to \in C3 /\ IsNew(m)
                      THEN [delivered EXCEPT ![m.to] = Append(@, m.payload)]
                      ELSE delivered
  BY DEF ReceiveData
<1>2. /\ m.from \in C2 /\ m.to = NextHop[m.from] /\ m.to \in Nodes /\ m.from # m.to
      /\ m.payload = Head(queue[m.from]) /\ queue[m.from] # << >>
  BY Arrival
<1>3. CASE ~IsNew(m)
  <2>1. received' = received
    <3>1. received[m.to][m.from] \cup {m.id} = received[m.to][m.from]
      BY <1>3 DEF IsNew
    <3>. QED BY <1>1, <1>2, <3>1 DEF Record, TypeOK
  <2>. QED BY <1>1, <1>3, <2>1, HeldUnchanged
<1>4. CASE IsNew(m)
  <2>1. /\ m.id = localId[m.from] /\ localId[m.from] \notin received[m.to][m.from]
        /\ localId[m.from] \in received'[m.to][m.from]
    BY <1>1, <1>2, <1>4, Arrival DEF IsNew, Record, TypeOK
  <2>2. \A r \in Nodes, k \in C2 \ {m.from} : received'[r][k] = received[r][k]
    BY <1>1, <1>2 DEF Record, TypeOK
  <2>3. \A k \in C2 \ {m.to} : queue'[k] = queue[k]
    BY <1>1 DEF Push, TypeOK
  <2>4. \A k \in C3 \ {m.to} : delivered'[k] = delivered[k]
    BY <1>1 DEF TypeOK
  <2>5. Held[m.from] = queue[m.from] /\ Held'[m.from] = Tail(queue[m.from])
    BY <1>1, <1>2, <2>1, <2>3, RoutingAssumption DEF Held, Nodes
  <2>6. Held'[m.to] = Append(Held[m.to], m.payload)
    <3>1. CASE m.to \in C3
      BY <1>1, <1>4, <3>1 DEF Held, Nodes, TypeOK
    <3>2. CASE m.to \in C2
      <4>1. /\ m.to \notin C3 /\ NextHop[m.to] \in Nodes
            /\ received'[NextHop[m.to]][m.to] = received[NextHop[m.to]][m.to]
        BY <1>2, <2>2, <3>2, RoutingAssumption
      <4>2. queue'[m.to] = Append(queue[m.to], m.payload) /\ queue[m.to] \in Seq(Payload)
        BY <1>1, <1>4, <3>2 DEF Push, TypeOK
      <4>3. CASE localId[m.to] \in received[NextHop[m.to]][m.to]
        <5>1. queue[m.to] # << >>
          BY <3>2, <4>3 DEF LinkInv
        <5>2. Tail(queue'[m.to]) = Append(Tail(queue[m.to]), m.payload)
          BY <4>2, <5>1, HeadTailAppend
        <5>. QED BY <1>1, <1>2, <4>1, <4>3, <5>2 DEF Held
      <4>4. CASE localId[m.to] \notin received[NextHop[m.to]][m.to]
        BY <1>1, <1>2, <4>1, <4>2, <4>4 DEF Held
      <4>. QED BY <4>3, <4>4
    <3>. QED BY <1>2, <3>1, <3>2 DEF Nodes
  <2>7. \A k \in Nodes \ {m.from, m.to} : Held'[k] = Held[k]
    <3>1. ASSUME NEW k \in Nodes \ {m.from, m.to} PROVE Held'[k] = Held[k]
      <4>1. CASE k \in C3
        BY <2>4, <3>1, <4>1 DEF Held
      <4>2. CASE k \in C2
        BY <1>1, <2>2, <2>3, <3>1, <4>2, RoutingAssumption DEF Held
      <4>. QED BY <3>1, <4>1, <4>2 DEF Nodes
    <3>. QED BY <3>1
  <2>8. Held' = [Held EXCEPT ![m.from] = Tail(@), ![NextHop[m.from]] = Append(@, Head(Held[m.from]))]
    <3>1. /\ Held = [k \in Nodes |-> Held[k]] /\ Held' = [k \in Nodes |-> Held'[k]]
      BY DEF Held
    <3>. QED BY <1>2, <2>5, <2>6, <2>7, <3>1 DEF Nodes
  <2>9. Abstract!HandOver(m.from)
    BY <1>2, <2>5, <2>8 DEF Abstract!HandOver
  <2>. QED BY <1>2, <2>9 DEF Abstract!Next
<1>. QED BY <1>3, <1>4

(* An acknowledgement pops what the next hop holds already: a stutter.     *)
LEMMA AckHandsNothing ==
  ASSUME TypeOK, ScheduleInv, CycleInv, LinkInv, NEW m \in ends, ReceiveAck(m)
  PROVE  Held' = Held
<1>1. /\ UNCHANGED <<received, delivered>>
      /\ queue' = [queue EXCEPT ![m.to] = IF @ = << >> THEN @ ELSE Tail(@)]
      /\ localId' = [localId EXCEPT ![m.to] = @ + 1]
  BY DEF ReceiveAck, Counted
<1>2. /\ m.to \in C2 /\ queue[m.to] # << >>
      /\ localId[m.to] \in received[NextHop[m.to]][m.to]
      /\ received[NextHop[m.to]][m.to] = 0..localId[m.to]
  BY AckArrival
<1>3. /\ queue'[m.to] = Tail(queue[m.to]) /\ localId'[m.to] = localId[m.to] + 1
      /\ localId[m.to] \in Nat
  BY <1>1, <1>2 DEF TypeOK
<1>4. localId'[m.to] \notin received'[NextHop[m.to]][m.to]
  BY <1>1, <1>2, <1>3
<1>5. \A k \in C2 \ {m.to} : queue'[k] = queue[k] /\ localId'[k] = localId[k]
  BY <1>1 DEF TypeOK
<1>. QED BY <1>1, <1>2, <1>3, <1>4, <1>5, RoutingAssumption DEF Held, Nodes

(* The protocol, with all its losses, retransmissions and windows,         *)
(* implements the hop-by-hop hand-over of HopByHop.                        *)
THEOREM Refinement == Spec => ImplementsHopByHop
<1>1. Init => Abstract!Init
  <2>. SUFFICES ASSUME Init PROVE Abstract!Init
    OBVIOUS
  <2>1. ASSUME NEW n \in C2
        PROVE  Held[n] = [i \in 1..InitialPayloads |-> <<n, i>>]
    BY <2>1, RoutingAssumption DEF Init, Held, Nodes
  <2>2. ASSUME NEW n \in C3
        PROVE  Held[n] = << >>
    BY <2>2 DEF Init, Held, Nodes
  <2>3. Held = [n \in Nodes |-> Held[n]]
    BY DEF Held
  <2>. QED BY <2>1, <2>2, <2>3, RoutingAssumption DEF Abstract!Init, Abstract!Nodes, Nodes
<1>2. TypeOK /\ ScheduleInv /\ CycleInv /\ LinkInv /\ [Next]_vars => [Abstract!Next]_Held
  <2>. SUFFICES ASSUME TypeOK, ScheduleInv, CycleInv, LinkInv, [Next]_vars
                PROVE  Abstract!Next \/ Held' = Held
    OBVIOUS
  <2>1. \/ UNCHANGED <<received, queue, localId, delivered>>
        \/ \E m \in ends : ReceiveData(m) \/ ReceiveAck(m)
    <3>1. LaterPhase => \/ UNCHANGED <<received, queue, localId, delivered>>
                        \/ \E m \in ends : ReceiveData(m) \/ ReceiveAck(m)
      BY DEF LaterPhase, C2TransmitData, C2TransmitAck, C2StaySilent, C3TransmitAck,
         C3StaySilent, TransmissionStart, LosePacket, linkVars
    <3>. QED BY <3>1, QuietFrame, NextPhases
  <2>. QED BY <2>1, HeldUnchanged, DataHandsOver, AckHandsNothing
<1>. QED BY <1>1, <1>2, TypeInit, TypeStep, ScheduleInit, ScheduleStep, CycleInit, CycleStep,
       LinkInit, LinkStep, PTL DEF Spec, ImplementsHopByHop, Abstract!Spec
-------------------------------------------------------------------------------
(* The hand-over of HopByHop, on any table h of what every node holds:     *)
(* payloads are neither lost nor duplicated on any routing, one with loops *)
(* included, and those of one originator stay in order on every routing    *)
(* without loops.                                                          *)
Table == [Nodes -> Seq(Payload)]

(* p is at place i of the sequence that n has in the table h.              *)
At(h, n, i, p) == i \in DOMAIN h[n] /\ h[n][i] = p

(* p is in one place of the table, and only one.                           *)
OnceIn(h, p) ==
  \E n \in Nodes : \E i \in Nat :
    /\ At(h, n, i, p)
    /\ \A m \in Nodes : \A j \in Nat : At(h, m, j, p) => m = n /\ j = i

NowhereIn(h, p) == \A n \in Nodes : \A i \in Nat : ~At(h, n, i, p)

AllOnce(h) == \A p \in Payload : OnceIn(h, p)

(* Taking the head off one sequence moves its other elements up by one.    *)
LEMMA TakeHead ==
  ASSUME NEW h \in [Nodes -> Seq(Payload)], NEW k \in Nodes, h[k] # << >>,
         \A p \in Payload : OnceIn(h, p),
         NEW t, t = [h EXCEPT ![k] = Tail(@)]
  PROVE  /\ t \in [Nodes -> Seq(Payload)]
         /\ NowhereIn(t, Head(h[k]))
         /\ \A p \in Payload \ {Head(h[k])} : OnceIn(t, p)
<1>1. /\ h[k] \in Seq(Payload) /\ Tail(h[k]) \in Seq(Payload) /\ Head(h[k]) \in Payload
      /\ Len(h[k]) \in Nat \ {0} /\ Len(Tail(h[k])) = Len(h[k]) - 1
      /\ DOMAIN h[k] = 1..Len(h[k]) /\ DOMAIN Tail(h[k]) = 1..(Len(h[k]) - 1)
      /\ \A i \in 1..(Len(h[k]) - 1) : Tail(h[k])[i] = h[k][i + 1]
      /\ Head(h[k]) = h[k][1]
  BY HeadTailProperties, LenProperties, EmptySeq
<1>2. t \in [Nodes -> Seq(Payload)] /\ t[k] = Tail(h[k]) /\ \A n \in Nodes \ {k} : t[n] = h[n]
  BY <1>1
<1>3. \A i \in Nat, p \in Payload : At(t, k, i, p) <=> i # 0 /\ At(h, k, i + 1, p)
  BY <1>1, <1>2 DEF At
<1>4. \A n \in Nodes \ {k}, i \in Nat, p \in Payload : At(t, n, i, p) <=> At(h, n, i, p)
  BY <1>2 DEF At
<1>5. At(h, k, 1, Head(h[k]))
  BY <1>1 DEF At
<1>6. NowhereIn(t, Head(h[k]))
  <2>. SUFFICES ASSUME NEW n \in Nodes, NEW i \in Nat, At(t, n, i, Head(h[k])) PROVE FALSE
    BY DEF NowhereIn
  <2>1. \A m \in Nodes, j \in Nat : At(h, m, j, Head(h[k])) => m = k /\ j = 1
    BY <1>1, <1>5 DEF OnceIn
  <2>2. CASE n = k
    <3>1. i # 0 /\ At(h, k, i + 1, Head(h[k]))
      BY <1>1, <1>3, <2>2
    <3>. QED BY <2>1, <3>1
  <2>3. CASE n # k
    BY <1>1, <1>4, <2>1, <2>3
  <2>. QED BY <2>2, <2>3
<1>7. ASSUME NEW p \in Payload, p # Head(h[k]) PROVE OnceIn(t, p)
  <2>1. PICK n \in Nodes, i \in Nat :
          /\ At(h, n, i, p)
          /\ \A m \in Nodes : \A j \in Nat : At(h, m, j, p) => m = n /\ j = i
    BY DEF OnceIn
  <2>2. CASE n = k
    <3>1. i \in Nat \ {0, 1}
      BY <1>1, <1>7, <2>1, <2>2 DEF At
    <3>2. At(t, k, i - 1, p)
      <4>1. i - 1 \in Nat /\ i - 1 # 0 /\ (i - 1) + 1 = i
        BY <3>1
      <4>. QED BY <1>3, <2>1, <2>2, <4>1
    <3>3. ASSUME NEW m \in Nodes, NEW j \in Nat, At(t, m, j, p) PROVE m = k /\ j = i - 1
      <4>1. CASE m = k
        <5>1. At(h, k, j + 1, p)
          BY <1>3, <3>3, <4>1
        <5>. QED BY <2>1, <3>1, <4>1, <5>1
      <4>2. CASE m # k
        BY <1>4, <2>1, <2>2, <3>3, <4>2
      <4>. QED BY <4>1, <4>2
    <3>4. i - 1 \in Nat
      BY <3>1
    <3>. QED BY <3>2, <3>3, <3>4 DEF OnceIn
  <2>3. CASE n # k
    <3>1. At(t, n, i, p)
      BY <1>1, <1>4, <2>1, <2>3
    <3>2. ASSUME NEW m \in Nodes, NEW j \in Nat, At(t, m, j, p) PROVE m = n /\ j = i
      <4>1. CASE m = k
        <5>1. At(h, k, j + 1, p)
          BY <1>3, <3>2, <4>1
        <5>. QED BY <2>1, <2>3, <5>1
      <4>2. CASE m # k
        BY <1>4, <2>1, <3>2, <4>2
      <4>. QED BY <4>1, <4>2
    <3>. QED BY <3>1, <3>2 DEF OnceIn
  <2>. QED BY <2>2, <2>3
<1>. QED BY <1>2, <1>6, <1>7

(* Appending a payload that is nowhere puts it in one place, and moves     *)
(* nothing else.                                                           *)
LEMMA AddLast ==
  ASSUME NEW t \in [Nodes -> Seq(Payload)], NEW k \in Nodes, NEW x \in Payload,
         NowhereIn(t, x), \A p \in Payload \ {x} : OnceIn(t, p),
         NEW u, u = [t EXCEPT ![k] = Append(@, x)]
  PROVE  /\ u \in [Nodes -> Seq(Payload)]
         /\ \A p \in Payload : OnceIn(u, p)
<1>1. /\ t[k] \in Seq(Payload) /\ Len(t[k]) \in Nat /\ DOMAIN t[k] = 1..Len(t[k])
      /\ Append(t[k], x) \in Seq(Payload)
      /\ DOMAIN Append(t[k], x) = 1..(Len(t[k]) + 1)
      /\ \A i \in 1..Len(t[k]) : Append(t[k], x)[i] = t[k][i]
      /\ Append(t[k], x)[Len(t[k]) + 1] = x
  BY AppendProperties, LenProperties
<1>2. u \in [Nodes -> Seq(Payload)] /\ u[k] = Append(t[k], x) /\ \A n \in Nodes \ {k} : u[n] = t[n]
  BY <1>1
<1>3. \A n \in Nodes \ {k}, i \in Nat, p \in Payload : At(u, n, i, p) <=> At(t, n, i, p)
  BY <1>2 DEF At
<1>4. \A i \in Nat, p \in Payload : At(u, k, i, p) <=> At(t, k, i, p) \/ (i = Len(t[k]) + 1 /\ p = x)
  BY <1>1, <1>2 DEF At
<1>5. OnceIn(u, x)
  <2>1. At(u, k, Len(t[k]) + 1, x) /\ Len(t[k]) + 1 \in Nat
    <3>1. Len(t[k]) + 1 \in Nat
      BY <1>1
    <3>. QED BY <1>4, <3>1
  <2>2. ASSUME NEW m \in Nodes, NEW j \in Nat, At(u, m, j, x) PROVE m = k /\ j = Len(t[k]) + 1
    BY <1>3, <1>4, <2>2 DEF NowhereIn
  <2>. QED BY <2>1, <2>2 DEF OnceIn
<1>6. ASSUME NEW p \in Payload \ {x} PROVE OnceIn(u, p)
  <2>1. \A n \in Nodes, i \in Nat : At(u, n, i, p) <=> At(t, n, i, p)
    BY <1>3, <1>4
  <2>2. PICK n \in Nodes, i \in Nat :
          /\ At(t, n, i, p)
          /\ \A m \in Nodes : \A j \in Nat : At(t, m, j, p) => m = n /\ j = i
    BY <1>6 DEF OnceIn
  <2>3. At(u, n, i, p)
    BY <2>1, <2>2
  <2>4. \A m \in Nodes : \A j \in Nat : At(u, m, j, p) => m = n /\ j = i
    BY <2>1, <2>2
  <2>. QED BY <2>3, <2>4 DEF OnceIn
<1>. QED BY <1>2, <1>5, <1>6

(* Every payload at its originator, at its rank.                           *)
Originated(h) ==
  h = [n \in Nodes |-> IF n \in C2 THEN [i \in 1..InitialPayloads |-> <<n, i>>] ELSE << >>]

(* The head of k has gone to the end of its next hop.                      *)
HandedOver(h, u, k) ==
  /\ h[k] # << >>
  /\ u = [h EXCEPT ![k] = Tail(@), ![NextHop[k]] = Append(@, Head(h[k]))]

LEMMA InitOnce ==
  ASSUME NEW h, Originated(h)
  PROVE  h \in Table /\ AllOnce(h)
<1>1. \A n \in C2 : h[n] = [i \in 1..InitialPayloads |-> <<n, i>>]
  BY DEF Originated, Nodes
<1>2. \A n \in C3 : h[n] = << >>
  BY RoutingAssumption DEF Originated, Nodes
<1>3. h \in Table
  <2>1. \A n \in C2 : h[n] \in Seq(Payload)
    <3>1. \A n \in C2 : [i \in 1..InitialPayloads |-> <<n, i>>] \in Seq(Payload)
      BY InitialPayloadsAssumption DEF Payload
    <3>. QED BY <1>1, <3>1
  <2>2. \A n \in C3 : h[n] \in Seq(Payload)
    BY <1>2, EmptySeq
  <2>3. h = [n \in Nodes |-> h[n]]
    BY DEF Originated
  <2>. QED BY <2>1, <2>2, <2>3 DEF Table, Nodes
<1>4. ASSUME NEW p \in Payload PROVE OnceIn(h, p)
  <2>1. p[1] \in C2 /\ p[2] \in 1..InitialPayloads /\ p = <<p[1], p[2]>>
    BY DEF Payload
  <2>2. p[1] \in Nodes /\ p[2] \in Nat /\ At(h, p[1], p[2], p)
    <3>1. p[1] \in Nodes /\ p[2] \in Nat
      BY <2>1, InitialPayloadsAssumption DEF Nodes
    <3>2. p[2] \in DOMAIN h[p[1]] /\ h[p[1]][p[2]] = p
      BY <1>1, <2>1
    <3>. QED BY <3>1, <3>2 DEF At
  <2>3. ASSUME NEW m \in Nodes, NEW j \in Nat, At(h, m, j, p)
        PROVE  m = p[1] /\ j = p[2]
    <3>1. m \in C2
      BY <1>2, <2>3 DEF Nodes, At
    <3>2. j \in 1..InitialPayloads /\ h[m][j] = <<m, j>>
      BY <1>1, <2>3, <3>1 DEF At
    <3>. QED BY <2>1, <2>3, <3>2 DEF At
  <2>. QED BY <2>2, <2>3 DEF OnceIn
<1>. QED BY <1>3, <1>4 DEF AllOnce

(* A hand-over takes a payload from one sequence and puts it in another.   *)
LEMMA StepOnce ==
  ASSUME NEW h \in Table, AllOnce(h), NEW k \in C2, NEW u, HandedOver(h, u, k)
  PROVE  u \in Table /\ AllOnce(u)
<1> DEFINE t == [h EXCEPT ![k] = Tail(@)]
<1>1. /\ k \in Nodes /\ NextHop[k] \in Nodes /\ h[k] # << >>
      /\ h \in [Nodes -> Seq(Payload)] /\ Head(h[k]) \in Payload
  BY RoutingAssumption, HeadTailProperties DEF HandedOver, Table, Nodes
<1>2. u = [t EXCEPT ![NextHop[k]] = Append(@, Head(h[k]))]
  <2>1. CASE NextHop[k] = k
    BY <1>1, <2>1 DEF HandedOver
  <2>2. CASE NextHop[k] # k
    BY <1>1, <2>2 DEF HandedOver
  <2>. QED BY <2>1, <2>2
<1>3. /\ t \in [Nodes -> Seq(Payload)] /\ NowhereIn(t, Head(h[k]))
      /\ \A p \in Payload \ {Head(h[k])} : OnceIn(t, p)
  BY <1>1, TakeHead DEF AllOnce
<1>. HIDE DEF t
<1>. QED BY <1>1, <1>2, <1>3, AddLast DEF AllOnce, Table

(* The order of the payloads of one originator, on a routing without       *)
(* loops.  A younger payload is never nearer to the gateway than an older  *)
(* one: the older is further along the path of the younger, or before it   *)
(* in the same sequence.                                                   *)

(* The nodes that a payload at n can come to: n and all that follow it,    *)
(* the least set that holds n and is closed under the routing.             *)
Path(n) == {m \in Nodes : \A S \in SUBSET Nodes :
              n \in S /\ (\A k \in S \cap C2 : NextHop[k] \in S) => m \in S}

Acyclic == \A n \in C2 : n \notin Path(NextHop[n])

InOrderIn(h, p, q) ==
  \A m, n \in Nodes : \A a, b \in Nat :
    At(h, m, a, p) /\ At(h, n, b, q) => m \in Path(n) /\ (m = n => a < b)

OrderIn(h) == \A p, q \in Payload : p[1] = q[1] /\ p[2] < q[2] => InOrderIn(h, p, q)

(* A path begins where it says, goes where the routing goes, and all of it *)
(* but its beginning is the path of the next hop.                          *)
LEMMA PathSteps ==
  /\ \A n \in Nodes : n \in Path(n)
  /\ \A n \in Nodes, k \in C2 : k \in Path(n) => NextHop[k] \in Path(n)
  /\ \A k \in C2, m \in Nodes : m \in Path(k) => m = k \/ m \in Path(NextHop[k])
<1>1. \A n \in Nodes : n \in Path(n)
  BY DEF Path
<1>2. \A k \in C2 : NextHop[k] \in Nodes
  BY RoutingAssumption
<1>3. ASSUME NEW n \in Nodes, NEW k \in C2, k \in Path(n) PROVE NextHop[k] \in Path(n)
  BY <1>2, <1>3 DEF Path
<1>4. ASSUME NEW k \in C2, NEW m \in Nodes, m \in Path(k) PROVE m = k \/ m \in Path(NextHop[k])
  <2> DEFINE S == {k} \cup Path(NextHop[k])
  <2>1. S \in SUBSET Nodes
    BY DEF Path, Nodes
  <2>2. \A j \in S \cap C2 : NextHop[j] \in S
    <3>. SUFFICES ASSUME NEW j \in S \cap C2 PROVE NextHop[j] \in S
      OBVIOUS
    <3>1. CASE j = k
      BY <1>1, <1>2, <3>1
    <3>2. CASE j \in Path(NextHop[k])
      BY <1>2, <1>3, <3>2
    <3>. QED BY <3>1, <3>2
  <2>3. k \in S
    OBVIOUS
  <2>4. m \in S
    <3>. HIDE DEF S
    <3>. QED BY <1>4, <2>1, <2>2, <2>3 DEF Path
  <2>. QED BY <2>4
<1>. QED BY <1>1, <1>3, <1>4

(* At the start every payload is at its originator, at its rank.           *)
LEMMA InitOrder ==
  ASSUME NEW h, Originated(h)
  PROVE  OrderIn(h)
<1>. SUFFICES ASSUME NEW p \in Payload, NEW q \in Payload, p[1] = q[1], p[2] < q[2],
                     NEW m \in Nodes, NEW n \in Nodes, NEW a \in Nat, NEW b \in Nat,
                     At(h, m, a, p), At(h, n, b, q)
              PROVE  m \in Path(n) /\ (m = n => a < b)
  BY DEF OrderIn, InOrderIn
<1>1. \A k \in C3 : h[k] = << >>
  BY RoutingAssumption DEF Originated, Nodes
<1>2. m \in C2 /\ n \in C2
  BY <1>1 DEF At, Nodes
<1>3. \A k \in C2 : h[k] = [i \in 1..InitialPayloads |-> <<k, i>>]
  BY DEF Originated, Nodes
<1>4. p = <<m, a>> /\ q = <<n, b>>
  BY <1>2, <1>3 DEF At
<1>. QED BY <1>4, PathSteps

(* The hand-over of the head of k to another node l, place by place, for   *)
(* the tables h before it and u after it.                                  *)
Moved(h, u, k, l) ==
  /\ Head(h[k]) \in Payload /\ At(h, k, 1, Head(h[k]))
  /\ \A n \in Nodes, i \in Nat : At(u, n, i, Head(h[k])) => n = l /\ i = Len(h[n]) + 1
  /\ \A n \in Nodes, i \in Nat, p \in Payload :
       At(u, n, i, p) /\ p # Head(h[k]) => At(h, n, IF n = k THEN i + 1 ELSE i, p)

LEMMA HandOverPlaces ==
  ASSUME NEW h \in [Nodes -> Seq(Payload)], NEW k \in Nodes, NEW l \in Nodes, l # k,
         h[k] # << >>, \A p \in Payload : OnceIn(h, p),
         NEW u, u[k] = Tail(h[k]), u[l] = Append(h[l], Head(h[k])),
         \A n \in Nodes \ {k, l} : u[n] = h[n]
  PROVE  Moved(h, u, k, l)
<1> DEFINE x == Head(h[k])
<1>1. /\ u[k] = Tail(h[k]) /\ u[l] = Append(h[l], x)
      /\ \A n \in Nodes \ {k, l} : u[n] = h[n]
  OBVIOUS
<1>2. /\ x \in Payload /\ Len(h[k]) \in Nat \ {0}
      /\ DOMAIN h[k] = 1..Len(h[k]) /\ DOMAIN Tail(h[k]) = 1..(Len(h[k]) - 1)
      /\ \A i \in 1..(Len(h[k]) - 1) : Tail(h[k])[i] = h[k][i + 1]
      /\ x = h[k][1]
  BY HeadTailProperties, LenProperties, EmptySeq
<1>3. /\ Len(h[l]) \in Nat /\ DOMAIN h[l] = 1..Len(h[l])
      /\ DOMAIN Append(h[l], x) = 1..(Len(h[l]) + 1)
      /\ \A i \in 1..Len(h[l]) : Append(h[l], x)[i] = h[l][i]
      /\ Append(h[l], x)[Len(h[l]) + 1] = x
  BY <1>2, AppendProperties, LenProperties
<1>. HIDE DEF x
<1>4. At(h, k, 1, x)
  BY <1>2 DEF At
<1>5. \A i \in Nat, p \in Payload : At(u, k, i, p) => i # 0 /\ At(h, k, i + 1, p)
  <2>. SUFFICES ASSUME NEW i \in Nat, NEW p \in Payload, At(u, k, i, p)
                PROVE  i # 0 /\ At(h, k, i + 1, p)
    OBVIOUS
  <2>1. i \in DOMAIN Tail(h[k]) /\ Tail(h[k])[i] = p
    BY <1>1 DEF At
  <2>2. i \in 1..(Len(h[k]) - 1) /\ h[k][i + 1] = p /\ i + 1 \in 1..Len(h[k])
    BY <1>2, <2>1
  <2>. QED BY <1>2, <2>2 DEF At
<1>6. \A i \in Nat, p \in Payload :
        At(u, l, i, p) => At(h, l, i, p) \/ (i = Len(h[l]) + 1 /\ p = x)
  BY <1>1, <1>3 DEF At
<1>7. \A n \in Nodes \ {k, l}, i \in Nat, p \in Payload : At(u, n, i, p) => At(h, n, i, p)
  BY <1>1 DEF At
<1>8. \A n \in Nodes, i \in Nat : At(h, n, i, x) => n = k /\ i = 1
  BY <1>2, <1>4 DEF OnceIn
<1>9. ASSUME NEW n \in Nodes, NEW i \in Nat, At(u, n, i, x)
      PROVE  n = l /\ i = Len(h[n]) + 1
  <2>1. n # k
    <3>. SUFFICES ASSUME n = k PROVE FALSE
      OBVIOUS
    <3>1. i # 0 /\ At(h, k, i + 1, x)
      BY <1>2, <1>5, <1>9
    <3>. QED BY <1>8, <3>1
  <2>2. ~At(h, n, i, x)
    BY <1>8, <2>1
  <2>3. n = l
    BY <1>2, <1>7, <1>9, <2>1, <2>2
  <2>. QED BY <1>2, <1>6, <1>9, <2>2, <2>3
<1>10. ASSUME NEW n \in Nodes, NEW i \in Nat, NEW p \in Payload, At(u, n, i, p), p # x
       PROVE  At(h, n, IF n = k THEN i + 1 ELSE i, p)
  <2>1. CASE n = k
    BY <1>5, <1>10, <2>1
  <2>2. CASE n # k
    BY <1>6, <1>7, <1>10, <2>2
  <2>. QED BY <2>1, <2>2
<1>. QED BY <1>2, <1>4, <1>9, <1>10 DEF Moved, x

(* The payload that moves joins the end of a sequence: all older ones are  *)
(* further along by then.                                                  *)
LEMMA StepOrder ==
  ASSUME Acyclic, NEW h \in Table, AllOnce(h), OrderIn(h),
         NEW k \in C2, NEW u, HandedOver(h, u, k)
  PROVE  OrderIn(u)
<1> DEFINE l == NextHop[k]
           x == Head(h[k])
<1>1. k \in Nodes /\ l \in Nodes /\ l # k /\ k \notin Path(l)
  BY RoutingAssumption, PathSteps DEF Acyclic, Nodes
<1>2. /\ x \in Payload /\ At(h, k, 1, x)
      /\ \A n \in Nodes, i \in Nat : At(u, n, i, x) => n = l /\ i = Len(h[n]) + 1
      /\ \A n \in Nodes, i \in Nat, p \in Payload :
           At(u, n, i, p) /\ p # x => At(h, n, IF n = k THEN i + 1 ELSE i, p)
  <2>1. h[k] # << >> /\ u = [h EXCEPT ![k] = Tail(@), ![l] = Append(@, x)]
    BY DEF HandedOver
  <2>2. h \in [Nodes -> Seq(Payload)] /\ \A p \in Payload : OnceIn(h, p)
    BY DEF AllOnce, Table
  <2>3. /\ u[k] = Tail(h[k]) /\ u[l] = Append(h[l], x)
        /\ \A n \in Nodes \ {k, l} : u[n] = h[n]
    BY <1>1, <2>1, <2>2
  <2>4. k \in Nodes /\ l \in Nodes /\ l # k
    BY <1>1
  <2>5. Moved(h, u, k, l)
    <3>. HIDE DEF l
    <3>. QED BY <2>1, <2>2, <2>3, <2>4, HandOverPlaces
  <2>. QED BY <2>5 DEF Moved
<1>3. \A n \in Nodes, i \in Nat, p \in Payload : At(h, n, i, p) => i \in 1..Len(h[n])
  BY LenProperties DEF Table, At
<1>4. \A n \in Nodes : Len(h[n]) \in Nat
  BY LenProperties DEF Table
<1>. HIDE DEF l, x
<1>. SUFFICES ASSUME NEW p \in Payload, NEW q \in Payload, p[1] = q[1], p[2] < q[2],
                     NEW m \in Nodes, NEW n \in Nodes, NEW a \in Nat, NEW b \in Nat,
                     At(u, m, a, p), At(u, n, b, q)
              PROVE  m \in Path(n) /\ (m = n => a < b)
  BY DEF OrderIn, InOrderIn
<1>5. p # q
  BY DEF Payload
<1>6. \A v, w \in Nodes : \A c, d \in Nat :
        At(h, v, c, p) /\ At(h, w, d, q) => v \in Path(w) /\ (v = w => c < d)
  BY DEF OrderIn, InOrderIn
<1>7. CASE p # x /\ q # x
  <2>1. At(h, m, IF m = k THEN a + 1 ELSE a, p) /\ At(h, n, IF n = k THEN b + 1 ELSE b, q)
    BY <1>2, <1>7
  <2>2. m \in Path(n) /\ (m = n => (IF m = k THEN a + 1 ELSE a) < (IF n = k THEN b + 1 ELSE b))
    <3>1. (IF m = k THEN a + 1 ELSE a) \in Nat /\ (IF n = k THEN b + 1 ELSE b) \in Nat
      OBVIOUS
    <3>. QED BY <1>6, <2>1, <3>1
  <2>. QED BY <2>2
<1>8. CASE q = x
  <2>1. n = l /\ b = Len(h[l]) + 1
    BY <1>2, <1>8
  <2>2. At(h, m, IF m = k THEN a + 1 ELSE a, p)
    BY <1>2, <1>5, <1>8
  <2>3. m # k
    <3>. SUFFICES ASSUME m = k PROVE FALSE
      OBVIOUS
    <3>1. At(h, k, a + 1, p) /\ a + 1 \in Nat
      BY <2>2
    <3>2. a + 1 < 1
      BY <1>1, <1>2, <1>6, <1>8, <3>1
    <3>. QED BY <3>2
  <2>4. At(h, m, a, p)
    BY <2>2, <2>3
  <2>5. m \in Path(k)
    BY <1>1, <1>2, <1>6, <1>8, <2>4
  <2>6. m \in Path(n)
    BY <2>1, <2>3, <2>5, PathSteps DEF l
  <2>7. ASSUME m = n PROVE a < b
    <3>1. a \in 1..Len(h[l])
      BY <1>3, <2>1, <2>4, <2>7
    <3>. QED BY <1>1, <1>4, <2>1, <3>1
  <2>. QED BY <2>6, <2>7
<1>9. CASE p = x
  <2>1. m = l
    BY <1>2, <1>9
  <2>2. At(h, n, IF n = k THEN b + 1 ELSE b, q) /\ (IF n = k THEN b + 1 ELSE b) \in Nat
    BY <1>2, <1>5, <1>9
  <2>3. k \in Path(n)
    BY <1>1, <1>2, <1>6, <1>9, <2>2
  <2>4. m \in Path(n)
    BY <2>1, <2>3, PathSteps DEF l
  <2>5. m # n
    BY <1>1, <2>1, <2>3
  <2>. QED BY <2>4, <2>5
<1>. QED BY <1>7, <1>8, <1>9

(* Two payloads of one sequence are in the order that OrderIn gives them.  *)
LEMMA OrderIsFifo ==
  ASSUME NEW h \in Table, AllOnce(h), OrderIn(h),
         NEW n \in Nodes, NEW i \in DOMAIN h[n], NEW j \in DOMAIN h[n],
         h[n][i][1] = h[n][j][1], i < j
  PROVE  h[n][i][2] < h[n][j][2]
<1> DEFINE p == h[n][i]
           q == h[n][j]
<1>1. p \in Payload /\ q \in Payload /\ i \in Nat /\ j \in Nat
  BY LenProperties DEF Table
<1>2. At(h, n, i, p) /\ At(h, n, j, q)
  BY DEF At
<1>. HIDE DEF p, q
<1>3. p # q
  BY <1>1, <1>2 DEF AllOnce, OnceIn
<1>4. p[2] \in Nat /\ q[2] \in Nat /\ p[2] # q[2]
  BY <1>1, <1>3, InitialPayloadsAssumption DEF Payload, p, q
<1>5. ~(q[2] < p[2])
  BY <1>1, <1>2 DEF OrderIn, InOrderIn, p, q
<1>. QED BY <1>4, <1>5 DEF p, q

-------------------------------------------------------------------------------
(* What the specification HopByHop promises, of the payloads held.         *)

LEMMA AbstractIs ==
  /\ Abstract!Nodes = Nodes /\ Abstract!Payload = Payload
  /\ Abstract!Init => Originated(Held)
  /\ [Abstract!Next]_Held => Held' = Held \/ \E k \in C2 : HandedOver(Held, Held', k)
<1>1. Abstract!Nodes = Nodes /\ Abstract!Payload = Payload
  BY DEF Abstract!Nodes, Nodes, Abstract!Payload, Payload
<1>2. Abstract!Init => Originated(Held)
  BY <1>1 DEF Abstract!Init, Originated
<1>3. [Abstract!Next]_Held => Held' = Held \/ \E k \in C2 : HandedOver(Held, Held', k)
  BY DEF Abstract!Next, Abstract!HandOver, HandedOver
<1>. QED BY <1>1, <1>2, <1>3

(* Of the abstract hand-over, on any routing: no payload is ever lost or   *)
(* duplicated.                                                             *)
THEOREM AbstractExactlyOnce == Abstract!Spec => []Abstract!ExactlyOnce
<1> DEFINE Inv == Held \in Table /\ AllOnce(Held)
<1>1. Abstract!Init => Inv
  BY AbstractIs, InitOnce
<1>2. Inv /\ [Abstract!Next]_Held => Inv'
  <2>. SUFFICES ASSUME Inv, [Abstract!Next]_Held PROVE Held' \in Table /\ AllOnce(Held')
    BY DEF AllOnce, OnceIn, At, Table
  <2>1. CASE Held' = Held
    BY <2>1
  <2>2. ASSUME NEW k \in C2, HandedOver(Held, Held', k)
        PROVE  Held' \in Table /\ AllOnce(Held')
    BY <2>2, StepOnce
  <2>. QED BY <2>1, <2>2, AbstractIs
<1>3. Inv => Abstract!ExactlyOnce
  <2>. SUFFICES ASSUME Inv PROVE Abstract!ExactlyOnce
    OBVIOUS
  <2>1. \A n \in Nodes : DOMAIN Held[n] \subseteq Nat
    BY LenProperties DEF Table
  <2>. QED BY <2>1, AbstractIs DEF Abstract!ExactlyOnce, AllOnce, OnceIn, At
<1>. HIDE DEF Inv
<1>. QED BY <1>1, <1>2, <1>3, PTL DEF Abstract!Spec

(* Of the abstract hand-over, on a routing without loops: payloads of one  *)
(* originator never overtake one another, so a gateway gets them in the    *)
(* order they were made in.                                                *)
THEOREM AbstractFifo == ASSUME Acyclic PROVE Abstract!Spec => []Abstract!FifoPerOrigin
<1> DEFINE Inv == Held \in Table /\ AllOnce(Held) /\ OrderIn(Held)
<1>1. Abstract!Init => Inv
  BY AbstractIs, InitOnce, InitOrder
<1>2. Inv /\ [Abstract!Next]_Held => Inv'
  <2>. SUFFICES ASSUME Inv, [Abstract!Next]_Held
                PROVE  Held' \in Table /\ AllOnce(Held') /\ OrderIn(Held')
    BY DEF AllOnce, OnceIn, At, Table, OrderIn, InOrderIn
  <2>1. CASE Held' = Held
    BY <2>1
  <2>2. ASSUME NEW k \in C2, HandedOver(Held, Held', k)
        PROVE  Held' \in Table /\ AllOnce(Held') /\ OrderIn(Held')
    BY <2>2, Acyclic, StepOnce, StepOrder
  <2>. QED BY <2>1, <2>2, AbstractIs
<1>3. Inv => Abstract!FifoPerOrigin
  BY AbstractIs, OrderIsFifo DEF Abstract!FifoPerOrigin
<1>. HIDE DEF Inv
<1>. QED BY <1>1, <1>2, <1>3, PTL DEF Abstract!Spec

(* No payload is lost or duplicated by the protocol: what HopByHop         *)
(* promises of the hand-over holds of its implementation.                  *)
THEOREM ExactlyOnceCorrect == Spec => []ExactlyOnce
BY Refinement, AbstractExactlyOnce, PTL DEF ImplementsHopByHop, ExactlyOnce

(* On a routing without loops, no payload overtakes another of the same    *)
(* originator on its way through the protocol: the queues of relays, the   *)
(* retransmissions and the acknowledgements keep the order that HopByHop   *)
(* keeps.                                                                  *)
THEOREM FifoCorrect == ASSUME Acyclic PROVE Spec => []FifoPerOrigin
<1>1. Abstract!Spec => []Abstract!FifoPerOrigin
  BY Acyclic, AbstractFifo
<1>. QED BY <1>1, Refinement, PTL DEF ImplementsHopByHop, FifoPerOrigin
===============================================================================
