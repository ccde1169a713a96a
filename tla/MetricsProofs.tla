---------------------------- MODULE MetricsProofs ----------------------------
(***************************************************************************)
(* What is proved about the packets and about the metrics they carry, for  *)
(* every deployment and any number of packets, samples and exports.        *)
(*                                                                         *)
(*  - What one side writes the other reads back (the first part; only the  *)
(*    operators of PacketFormats).                                         *)
(*  - PathsFollowChain, from PathInv: ids are handed out once, so a trace  *)
(*    only ever grows at the end where its chain does.                     *)
(*  - LatencyShrinksOnPath, from DeliveryInv: a delivery leaves one record *)
(*    for each hop of its path, and no two deliveries are at one time.     *)
(*  - ShownIsRecorded, from ExportInv: every packet on its way is one that *)
(*    the exporter wrote, and what they carry, read in order, is what is   *)
(*    missing from the display.                                            *)
(*                                                                         *)
(* Chains and lists have any length, so some facts need induction. It is   *)
(* had from the least element of a set of numbers (LeastExists, Induction) *)
(* with the predicate given as the set of numbers it holds for.            *)
(***************************************************************************)
EXTENDS Metrics, SequenceTheorems, FiniteSetTheorems, TLAPS

(* A field of a list has a place there.                                    *)
LEMMA PlaceIsThere ==
  ASSUME NEW fields, NEW f \in Names(fields)
  PROVE  Place(fields, f) \in DOMAIN fields /\ fields[Place(fields, f)] = f
<1>1. PICK i \in DOMAIN fields : fields[i] = f
  BY DEF Names
<1> QED
  BY <1>1 DEF Place

(* A reader whose fields are the writer's first ones gets what was         *)
(* written, and only that: the rest of the packet stays unread.            *)
LEMMA FieldsReadBack ==
  ASSUME NEW Value, NEW tag \in Value,
         NEW F, NEW W \in Seq(F), NEW R \in Seq(F),
         Len(R) <= Len(W), \A i \in 1 .. Len(R) : R[i] = W[i],
         NEW p \in [Names(W) -> Value]
  PROVE  ReadFields(R, <<tag>> \o WriteFields(W, p), 1) = [f \in Names(R) |-> p[f]]
<1> DEFINE packet == <<tag>> \o WriteFields(W, p)
<1>1. WriteFields(W, p) \in Seq(Value) /\ Len(WriteFields(W, p)) = Len(W)
  <2>1. \A i \in 1 .. Len(W) : p[W[i]] \in Value
    BY DEF Names
  <2> QED
    BY <2>1 DEF WriteFields
<1>2. \A i \in 1 .. Len(W) : packet[1 + i] = p[W[i]]
  <2> SUFFICES ASSUME NEW i \in 1 .. Len(W) PROVE packet[1 + i] = p[W[i]]
    OBVIOUS
  <2>1. packet[1 + i] = WriteFields(W, p)[i]
    BY <1>1
  <2> QED
    BY <2>1 DEF WriteFields
<1>3. \A f \in Names(R) : packet[1 + Place(R, f)] = p[f]
  <2> SUFFICES ASSUME NEW f \in Names(R) PROVE packet[1 + Place(R, f)] = p[f]
    OBVIOUS
  <2>1. Place(R, f) \in DOMAIN R /\ R[Place(R, f)] = f
    BY PlaceIsThere
  <2>2. Place(R, f) \in 1 .. Len(W) /\ W[Place(R, f)] = f
    BY <2>1
  <2> QED
    BY <2>2, <1>2
<1> HIDE DEF packet
<1>4. ReadFields(R, packet, 1) = [f \in Names(R) |-> p[f]]
  BY <1>3 DEF ReadFields
<1> QED
  BY <1>4 DEF packet
-------------------------------------------------------------------------------
(* The two copies of the tables.                                           *)

(* A list of fields that names exactly the given members. The provers      *)
(* cannot count the elements of a list, so the lists of each length that   *)
(* the packets have get a lemma.                                           *)
ListOf(fields, members) == fields \in Seq(members) /\ Names(fields) = members

(* A list of one member.                                                   *)
LEMMA ListOfOne == \A a : ListOf(<<a>>, {a})
BY DEF Names, ListOf

(* A list of two members.                                                  *)
LEMMA ListOfTwo == \A a, b : ListOf(<<a, b>>, {a, b})
BY DEF Names, ListOf

(* A list of three members.                                                *)
LEMMA ListOfThree == \A a, b, c : ListOf(<<a, b, c>>, {a, b, c})
BY DEF Names, ListOf

(* A list of four members.                                                 *)
LEMMA ListOfFour == \A a, b, c, d : ListOf(<<a, b, c, d>>, {a, b, c, d})
BY DEF Names, ListOf

(* A list of six members.                                                  *)
LEMMA ListOfSix == \A a, b, c, d, e, f : ListOf(<<a, b, c, d, e, f>>, {a, b, c, d, e, f})
BY DEF Names, ListOf

(* The order of the members is the same in every serialize of the          *)
(* simulator and the deserialize of the GUI, and each lists all of them.   *)
LEMMA TelemetryTablesAgree ==
  ASSUME NEW kind \in DOMAIN TelemetryMembers
  PROVE  /\ TelemetryRead[kind] = TelemetryWritten[kind]
         /\ TelemetryMembersRead[kind] = TelemetryMembers[kind]
         /\ ListOf(TelemetryWritten[kind], TelemetryMembers[kind])
<1>1. /\ TelemetryRead[kind] = TelemetryWritten[kind]
      /\ TelemetryMembersRead[kind] = TelemetryMembers[kind]
  <2>1. TelemetryRead[kind] = TelemetryWritten[kind]
    BY DEF TelemetryMembers, TelemetryWritten, TelemetryRead
  <2>2. TelemetryMembersRead[kind] = TelemetryMembers[kind]
    BY DEF TelemetryMembers, TelemetryMembersRead
  <2> QED
    BY <2>1, <2>2
<1>2. ListOf(TelemetryWritten[kind], TelemetryMembers[kind])
  <2>1. CASE kind \in {"tick", "broadcast", "drop", "retransmission", "stopSimulation"}
    <3>1. PICK a : TelemetryWritten[kind] = <<a>> /\ TelemetryMembers[kind] = {a}
      BY <2>1 DEF TelemetryMembers, TelemetryWritten
    <3> QED
      BY <3>1, ListOfOne
  <2>2. CASE kind \in {"state", "endTransmission", "latency", "energy"}
    <3>1. PICK a, b : TelemetryWritten[kind] = <<a, b>> /\ TelemetryMembers[kind] = {a, b}
      BY <2>2 DEF TelemetryMembers, TelemetryWritten
    <3> QED
      BY <3>1, ListOfTwo
  <2>3. CASE kind = "transmit"
    <3>1. TelemetryWritten[kind] = <<"senderId", "receiverId", "isACK">>
      BY <2>3 DEF TelemetryWritten
    <3>2. TelemetryMembers[kind] = {"senderId", "receiverId", "isACK"}
      BY <2>3 DEF TelemetryMembers
    <3> QED
      BY <3>1, <3>2, ListOfThree
  <2>4. CASE kind = "receive"
    <3>1. TelemetryWritten[kind] = <<"senderId", "receiverId", "state">>
      BY <2>4 DEF TelemetryWritten
    <3>2. TelemetryMembers[kind] = {"senderId", "receiverId", "state"}
      BY <2>4 DEF TelemetryMembers
    <3> QED
      BY <3>1, <3>2, ListOfThree
  <2>5. CASE kind = "routing"
    <3>1. TelemetryWritten[kind] = <<"receiverId", "senderId", "newRoute">>
      BY <2>5 DEF TelemetryWritten
    <3>2. TelemetryMembers[kind] = {"receiverId", "senderId", "newRoute"}
      BY <2>5 DEF TelemetryMembers
    <3> QED
      BY <3>1, <3>2, ListOfThree
  <2>6. CASE kind = "nodeMetrics"
    <3>1. TelemetryWritten[kind] = <<"tickNb", "nodeId", "totalPacketsSent", "totalAcksReceived">>
      BY <2>6 DEF TelemetryWritten
    <3>2. TelemetryMembers[kind] = {"tickNb", "nodeId", "totalPacketsSent", "totalAcksReceived"}
      BY <2>6 DEF TelemetryMembers
    <3> QED
      BY <3>1, <3>2, ListOfFour
  <2>7. CASE kind = "position"
    <3>1. TelemetryWritten[kind] = <<"nodeId", "classNode", "x", "y", "batteryLevel", "hopCount">>
      BY <2>7 DEF TelemetryWritten
    <3>2. TelemetryMembers[kind] = {"nodeId", "classNode", "x", "y", "batteryLevel", "hopCount"}
      BY <2>7 DEF TelemetryMembers
    <3> QED
      BY <3>1, <3>2, ListOfSix
  <2> QED
    BY <2>1, <2>2, <2>3, <2>4, <2>5, <2>6, <2>7 DEF TelemetryMembers
<1> QED
  BY <1>1, <1>2

(* The GUI's handler for the type that the simulator's constructor sets is *)
(* the one that reads this kind of packet.                                 *)
THEOREM TelemetryFindsItsHandler ==
  ASSUME NEW kind \in DOMAIN TelemetryMembers
  PROVE  /\ TelemetryType[kind] \in DOMAIN TelemetryHandler
         /\ TelemetryHandler[TelemetryType[kind]] = kind
BY DEF TelemetryMembers, TelemetryType, TelemetryHandler

(* Every member of every telemetry packet arrives with the value it was    *)
(* sent with (operator<< of the simulator's Packets.cpp, operator>> of the *)
(* GUI's), and the GUI's class has no member that stays at its default.    *)
THEOREM TelemetryReadBack ==
  ASSUME NEW Value, NEW kind \in DOMAIN TelemetryMembers, TelemetryType[kind] \in Value,
         NEW p \in [TelemetryMembers[kind] -> Value]
  PROVE  /\ ReadTelemetry(kind, WriteTelemetry(kind, p)) = p
         /\ DOMAIN ReadTelemetry(kind, WriteTelemetry(kind, p)) = TelemetryMembersRead[kind]
<1> DEFINE W == TelemetryWritten[kind]
<1>1. /\ TelemetryRead[kind] = W /\ W \in Seq(TelemetryMembers[kind])
      /\ Names(W) = TelemetryMembers[kind] /\ TelemetryMembersRead[kind] = TelemetryMembers[kind]
  BY TelemetryTablesAgree DEF ListOf
<1> HIDE DEF W
<1>2. p \in [Names(W) -> Value]
  BY <1>1
<1>3. ReadFields(W, <<TelemetryType[kind]>> \o WriteFields(W, p), 1) = [f \in Names(W) |-> p[f]]
  BY <1>1, <1>2, FieldsReadBack
<1>4. [f \in Names(W) |-> p[f]] = p /\ DOMAIN p = Names(W)
  BY <1>2
<1> QED
  BY <1>1, <1>3, <1>4 DEF ReadTelemetry, WriteTelemetry, W

(* A command arrives with all the members of the simulator's class, and    *)
(* these are all but one: the time limit of a launch is written, and       *)
(* nobody reads it.  The dispatcher calls the callback of the command that *)
(* was written.                                                            *)
THEOREM CommandReadBack ==
  ASSUME NEW Value, NEW kind \in DOMAIN CommandMembers, CommandType[kind] \in Value,
         NEW p \in [CommandMembers[kind] -> Value]
  PROVE  /\ ReadCommand(kind, WriteCommand(kind, p))
              = [f \in CommandMembersRead[kind] |-> p[f]]
         /\ CommandMembersRead[kind] = CommandMembers[kind] \ {"maxSimulationTimeMs"}
         /\ CommandHandler[CommandType[kind]] = kind
<1> DEFINE W == CommandWritten[kind]
           R == CommandRead[kind]
           Kept == CommandMembers[kind] \ {"maxSimulationTimeMs"}
<1>1. CommandHandler[CommandType[kind]] = kind
  BY DEF CommandMembers, CommandType, CommandHandler
<1>0. CommandMembersRead[kind] = Kept
  BY DEF CommandMembers, CommandMembersRead
<1>2. ListOf(W, CommandMembers[kind]) /\ ListOf(R, Kept)
      /\ Len(R) <= Len(W) /\ \A i \in 1 .. Len(R) : R[i] = W[i]
  <2>1. CASE kind = "launch"
    <3>1. W = <<"distanceThreshold", "topologyString", "scenarioType", "maxSimulationTimeMs">>
      BY <2>1 DEF CommandWritten
    <3>2. R = <<"distanceThreshold", "topologyString", "scenarioType">>
      BY <2>1 DEF CommandRead
    <3>3. CommandMembers[kind]
            = {"distanceThreshold", "topologyString", "scenarioType", "maxSimulationTimeMs"}
      BY <2>1 DEF CommandMembers
    <3>4. Kept = {"distanceThreshold", "topologyString", "scenarioType"}
      BY <3>3
    <3> HIDE DEF W, R, Kept
    <3>5. ListOf(W, CommandMembers[kind]) /\ ListOf(R, Kept)
      BY <3>1, <3>2, <3>3, <3>4, ListOfThree, ListOfFour
    <3> QED
      BY <3>1, <3>2, <3>5
  <2>2. CASE kind # "launch"
    <3>1. W = <<>> /\ R = <<>> /\ CommandMembers[kind] = {}
      BY <2>2 DEF CommandMembers, CommandWritten, CommandRead
    <3> QED
      BY <3>1 DEF ListOf, Names
  <2> QED
    BY <2>1, <2>2
<1> HIDE DEF W, R, Kept
<1>3. W \in Seq(CommandMembers[kind]) /\ R \in Seq(CommandMembers[kind])
      /\ Names(W) = CommandMembers[kind] /\ Names(R) = Kept
  BY <1>2 DEF ListOf, Kept
<1>4. ReadFields(R, <<CommandType[kind]>> \o WriteFields(W, p), 1) = [f \in Names(R) |-> p[f]]
  BY <1>2, <1>3, FieldsReadBack
<1> QED
  BY <1>0, <1>1, <1>3, <1>4 DEF ReadCommand, WriteCommand, W, R, Kept

-------------------------------------------------------------------------------
(* Packets with elements.                                                  *)

Offset(i, w, k) == (i - 1) * w + k

(* The numbers of fields that elements have.                               *)
Width(w) == w \in {1, 2, 4}

(* The k-th field of the i-th element lies where the reader looks for it.  *)
LEMMA ElementAt ==
  ASSUME NEW E, NEW v, Width(Len(E)), Len(v) \in Nat,
         NEW i \in 1 .. Len(v), NEW k \in 1 .. Len(E)
  PROVE  /\ Offset(i, Len(E), k) \in DOMAIN WriteElements(E, v)
         /\ WriteElements(E, v)[Offset(i, Len(E), k)] = v[i][E[k]]
<1> DEFINE w == Len(E)
           at == (i - 1) * w + k
<1>1. at \in 1 .. Len(v) * w
  <2>1. CASE w = 1
    BY <2>1
  <2>2. CASE w = 2
    BY <2>2
  <2>4. CASE w = 4
    BY <2>4
  <2> QED
    BY <2>1, <2>2, <2>4 DEF Width
<1>2. (at - 1) \div w = i - 1 /\ (at - 1) % w = k - 1
  <2>1. CASE w = 1
    BY <2>1
  <2>2. CASE w = 2
    BY <2>2
  <2>4. CASE w = 4
    BY <2>4
  <2> QED
    BY <2>1, <2>2, <2>4 DEF Width
<1> HIDE DEF at
<1>3. WriteElements(E, v)
        = [n \in 1 .. Len(v) * w |-> v[((n - 1) \div w) + 1][E[((n - 1) % w) + 1]]]
  BY DEF WriteElements
<1>4. WriteElements(E, v)[at] = v[((at - 1) \div w) + 1][E[((at - 1) % w) + 1]]
  BY <1>1, <1>3
<1>5. ((at - 1) \div w) + 1 = i /\ ((at - 1) % w) + 1 = k
  BY <1>2
<1> QED
  BY <1>1, <1>3, <1>4, <1>5 DEF Offset, at

(* The same of the packets that carry a list: both sides take the fields   *)
(* of an element in one order.                                             *)
LEMMA ElementTablesAgree ==
  ASSUME NEW kind \in DOMAIN ElementsWritten
  PROVE  /\ kind \in DOMAIN TelemetryMembers
         /\ ElementsRead[kind] = ElementsWritten[kind]
         /\ Len(ElementsWritten[kind]) \in {1, 2, 4}
         /\ DOMAIN ElementsWritten[kind] = 1 .. Len(ElementsWritten[kind])
<1>1. CASE kind = "state"
  <2>1. ElementsWritten[kind] = <<"isCommunicatingAck">>
    BY <1>1 DEF ElementsWritten
  <2> QED
    BY <1>1, <2>1 DEF ElementsRead, TelemetryMembers
<1>2. CASE kind = "latency"
  <2>1. ElementsWritten[kind]
          = <<"packetId", "latency_ms", "originTimestamp", "deliveryTimestamp">>
    BY <1>2 DEF ElementsWritten
  <2> QED
    BY <1>2, <2>1 DEF ElementsRead, TelemetryMembers
<1>3. CASE kind = "energy"
  <2>1. ElementsWritten[kind] = <<"tick", "energy">>
    BY <1>3 DEF ElementsWritten
  <2> QED
    BY <1>3, <2>1 DEF ElementsRead, TelemetryMembers
<1> QED
  BY <1>1, <1>2, <1>3 DEF ElementsWritten

(* Of a list of any length every element arrives, in its place and with    *)
(* all its fields: the latency records and the energy samples of a node,   *)
(* and the optional flag of a state packet.                                *)
THEOREM ListReadBack ==
  ASSUME NEW Value, Nat \subseteq Value, NEW kind \in DOMAIN ElementsWritten,
         NEW p \in [TelemetryMembers[kind] -> Value],
         NEW v \in Seq([Names(ElementsWritten[kind]) -> Value])
  PROVE  ReadList(kind, WriteList(kind, p, v)) = v
<1> DEFINE E == ElementsWritten[kind]
           w == Len(E)
           head == WriteTelemetry(kind, p)
           tail == WriteElements(E, v)
           packet == head \o <<Len(v)>> \o tail
           at == 1 + Len(TelemetryRead[kind])
<1>1. kind \in DOMAIN TelemetryMembers /\ ElementsRead[kind] = E
      /\ w \in {1, 2, 4} /\ DOMAIN E = 1 .. w
  BY ElementTablesAgree
<1>2. head \in Seq(Value) /\ Len(head) = at
  <2>1. TelemetryRead[kind] = TelemetryWritten[kind]
        /\ TelemetryWritten[kind] \in Seq(TelemetryMembers[kind])
        /\ Names(TelemetryWritten[kind]) = TelemetryMembers[kind]
    BY <1>1, TelemetryTablesAgree DEF ListOf
  <2>2. TelemetryType[kind] \in Value
    BY <1>1 DEF TelemetryMembers, TelemetryType
  <2>3. WriteFields(TelemetryWritten[kind], p) \in Seq(Value)
        /\ Len(WriteFields(TelemetryWritten[kind], p)) = Len(TelemetryWritten[kind])
    BY <2>1 DEF WriteFields
  <2> QED
    BY <2>1, <2>2, <2>3 DEF WriteTelemetry
<1> HIDE DEF E, head, at
<1>3. \A i \in 1 .. Len(v) : \A k \in 1 .. w :
        Offset(i, w, k) \in DOMAIN tail /\ tail[Offset(i, w, k)] = v[i][E[k]]
  <2>1. Width(Len(E)) /\ Len(v) \in Nat
    BY <1>1 DEF Width
  <2> HIDE DEF packet
  <2> QED
    BY <2>1, ElementAt
<1>4. tail \in Seq(Value)
  <2>1. \A n \in 1 .. Len(v) * w : v[((n - 1) \div w) + 1][E[((n - 1) % w) + 1]] \in Value
    <3> SUFFICES ASSUME NEW n \in 1 .. Len(v) * w
                 PROVE  v[((n - 1) \div w) + 1][E[((n - 1) % w) + 1]] \in Value
      OBVIOUS
    <3>1. ((n - 1) \div w) + 1 \in 1 .. Len(v) /\ ((n - 1) % w) + 1 \in 1 .. w
      <4>1. CASE w = 1
        BY <4>1
      <4>2. CASE w = 2
        BY <4>2
      <4>3. CASE w = 4
        BY <4>3
      <4> QED
        BY <1>1, <4>1, <4>2, <4>3
    <3>2. E[((n - 1) % w) + 1] \in Names(E)
      BY <1>1, <3>1 DEF Names
    <3>3. v[((n - 1) \div w) + 1] \in [Names(E) -> Value]
      BY <3>1 DEF E
    <3> QED
      BY <3>2, <3>3
  <2>2. Len(v) * w \in Nat
    BY <1>1
  <2> QED
    BY <2>1, <2>2 DEF WriteElements
<1> HIDE DEF tail
<1>5. Len(v) \in Value /\ packet[at + 1] = Len(v)
      /\ \A j \in DOMAIN tail : packet[at + 1 + j] = tail[j]
  BY <1>2, <1>4
<1>6. \A i \in 1 .. Len(v) : ReadFields(E, packet, at + 1 + (i - 1) * w) = v[i]
  <2> SUFFICES ASSUME NEW i \in 1 .. Len(v)
               PROVE  ReadFields(E, packet, at + 1 + (i - 1) * w) = v[i]
    OBVIOUS
  <2>1. v[i] \in [Names(E) -> Value]
    BY DEF E
  <2>2. \A f \in Names(E) : packet[at + 1 + (i - 1) * w + Place(E, f)] = v[i][f]
    <3> SUFFICES ASSUME NEW f \in Names(E)
                 PROVE  packet[at + 1 + (i - 1) * w + Place(E, f)] = v[i][f]
      OBVIOUS
    <3> DEFINE k == Place(E, f)
               j == Offset(i, w, k)
    <3>1. k \in 1 .. w /\ E[k] = f
      BY <1>1, PlaceIsThere
    <3> HIDE DEF k
    <3>2. j \in DOMAIN tail /\ tail[j] = v[i][f]
      BY <1>3, <3>1
    <3>3. packet[at + 1 + j] = v[i][f]
      BY <1>5, <3>2
    <3>4. at + 1 + j = at + 1 + (i - 1) * w + k
      <4>1. at \in Nat
        BY <1>2
      <4>2. (i - 1) * w \in Int
        BY <1>1
      <4> QED
        BY <4>1, <4>2, <3>1 DEF Offset
    <3> QED
      BY <3>3, <3>4 DEF k
  <2> HIDE DEF packet
  <2> QED
    BY <2>1, <2>2 DEF ReadFields
<1>7. ReadElements(E, packet, at) = v
  <2> HIDE DEF packet
  <2> QED
    BY <1>5, <1>6 DEF ReadElements
<1> QED
  BY <1>1, <1>7 DEF ReadList, WriteList, E, head, tail, at
-------------------------------------------------------------------------------
(* Induction over numbers, and sequences of sequences put end to end.      *)

Below == {p \in Nat \X Nat : p[1] < p[2]}

(* The numbers are well founded.                                           *)
LEMMA BelowIsWellFounded == IsWellFoundedOn(Below, Nat)
BY NatLessThanWellFounded DEF OpToRel, Below

(* A set of numbers that is not empty has a least element.                 *)
LEMMA LeastExists ==
  ASSUME NEW T \in SUBSET Nat, T # {}
  PROVE  \E x \in T : \A y \in T : x <= y
<1>1. PICK x \in T : \A y \in T : <<y, x>> \notin Below
  BY WFMin, BelowIsWellFounded
<1>2. \A y \in T : ~(y < x)
  BY <1>1 DEF Below
<1> QED
  BY <1>2

(* Induction, the predicate given as the set of numbers that have it.      *)
LEMMA Induction ==
  ASSUME NEW T \in SUBSET Nat, 0 \in T, \A n \in T : n + 1 \in T
  PROVE  T = Nat
<1> SUFFICES ASSUME Nat \ T # {} PROVE FALSE
  OBVIOUS
<1>1. PICK x \in Nat \ T : \A y \in Nat \ T : x <= y
  BY LeastExists
<1>2. x - 1 \in T
  BY <1>1
<1> QED
  BY <1>1, <1>2

(* The recursion of FlattenSeq, up to the n-th element.                    *)
Flattens(f, n, s) ==
  f = [i \in 1..n |-> IF i = 1 THEN s[i] ELSE f[i - 1] \o s[i]]

(* It has a solution of every length.                                      *)
LEMMA FlattensExists ==
  ASSUME NEW s
  PROVE  \A n \in Nat : \E f : Flattens(f, n, s)
<1> DEFINE T == {n \in Nat : \E f : Flattens(f, n, s)}
<1>1. 0 \in T
  <2>1. Flattens([i \in 1..0 |-> s[i]], 0, s)
    BY DEF Flattens
  <2> QED
    BY <2>1
<1>2. ASSUME NEW n \in T PROVE n + 1 \in T
  <2>1. PICK f : Flattens(f, n, s)
    OBVIOUS
  <2> DEFINE last == IF n = 0 THEN s[n + 1] ELSE f[n] \o s[n + 1]
             g == [i \in 1..(n + 1) |-> IF i = n + 1 THEN last ELSE f[i]]
  <2>2. \A i \in 1..n : g[i] = f[i]
    OBVIOUS
  <2>3. \A i \in 1..n : f[i] = IF i = 1 THEN s[i] ELSE f[i - 1] \o s[i]
    BY <2>1 DEF Flattens
  <2>4. \A i \in 1..(n + 1) : g[i] = IF i = 1 THEN s[i] ELSE g[i - 1] \o s[i]
    <3> SUFFICES ASSUME NEW i \in 1..(n + 1)
                 PROVE  g[i] = IF i = 1 THEN s[i] ELSE g[i - 1] \o s[i]
      OBVIOUS
    <3>1. CASE i = n + 1 /\ n = 0
      BY <3>1
    <3>2. CASE i = n + 1 /\ n # 0
      <4>0. n + 1 \in 1..(n + 1) /\ n \in 1..n
        BY <3>2
      <4>1. g[n + 1] = last /\ g[n] = f[n] /\ i - 1 = n /\ i # 1
        <5> HIDE DEF last
        <5>1. g[n] = f[n]
          BY <4>0, <2>2
        <5>2. g[n + 1] = last
          BY <4>0
        <5> QED
          BY <5>1, <5>2, <3>2
      <4>2. last = f[n] \o s[n + 1]
        BY <3>2
      <4> HIDE DEF g, last
      <4> QED
        BY <4>1, <4>2, <3>2
    <3>3. CASE i \in 1..n /\ i = 1
      BY <3>3, <2>3
    <3>4. CASE i \in 1..n /\ i # 1
      <4>1. i - 1 \in 1..n
        BY <3>4
      <4>2. g[i] = f[i] /\ g[i - 1] = f[i - 1]
        BY <4>1, <3>4
      <4> HIDE DEF g
      <4> QED
        BY <4>2, <3>4, <2>3
    <3> QED
      BY <3>1, <3>2, <3>3, <3>4
  <2>5. Flattens(g, n + 1, s)
    <3>1. g = [i \in 1..(n + 1) |-> g[i]]
      OBVIOUS
    <3> HIDE DEF g
    <3> QED
      BY <3>1, <2>4 DEF Flattens
  <2> HIDE DEF g
  <2> QED
    BY <2>5
<1>3. T = Nat
  <2> HIDE DEF T
  <2>1. T \in SUBSET Nat
    BY DEF T
  <2> QED
    BY <1>1, <1>2, <2>1, Induction
<1> QED
  BY <1>3

(* A solution continues every shorter one, when the first elements of the  *)
(* two sequences are the same.                                             *)
LEMMA FlattensAgree ==
  ASSUME NEW s, NEW t, NEW m \in Nat, NEW n \in Nat, m <= n,
         \A i \in 1..m : s[i] = t[i],
         NEW f, Flattens(f, m, s), NEW g, Flattens(g, n, t)
  PROVE  \A i \in 1..m : f[i] = g[i]
<1> DEFINE T == {i \in 1..m : f[i] # g[i]}
<1> SUFFICES ASSUME T # {} PROVE FALSE
  OBVIOUS
<1>1. PICK x \in T : \A y \in T : x <= y
  <2> HIDE DEF T
  <2>1. T \in SUBSET Nat
    BY DEF T
  <2> QED
    BY <2>1, LeastExists
<1>2. f[x] = IF x = 1 THEN s[x] ELSE f[x - 1] \o s[x]
  BY DEF Flattens
<1>3. g[x] = IF x = 1 THEN t[x] ELSE g[x - 1] \o t[x]
  <2>1. x \in 1..n
    OBVIOUS
  <2> QED
    BY <2>1 DEF Flattens
<1>4. x # 1 => f[x - 1] = g[x - 1]
  BY <1>1
<1> QED
  BY <1>2, <1>3, <1>4

(* Any solution gives what FlattenSeq returns.                             *)
LEMMA FlattenSeqIs ==
  ASSUME NEW S, NEW s \in Seq(S), s # <<>>, NEW f, Flattens(f, Len(s), s)
  PROVE  FlattenSeq(s) = f[Len(s)]
<1>1. Len(s) \in Nat \ {0}
  BY EmptySeq
<1> DEFINE g == CHOOSE g : Flattens(g, Len(s), s)
<1>2. FlattenSeq(s) = g[Len(s)]
  BY <1>1 DEF FlattenSeq, Flattens
<1>3. Flattens(g, Len(s), s)
  OBVIOUS
<1> HIDE DEF g
<1>4. f[Len(s)] = g[Len(s)]
  BY <1>1, <1>3, FlattensAgree
<1> QED
  BY <1>2, <1>4

(* Of nothing.                                                             *)
LEMMA FlattenEmpty == FlattenSeq(<<>>) = <<>>
BY DEF FlattenSeq

(* Of one sequence more.                                                   *)
LEMMA FlattenAppend ==
  ASSUME NEW S, NEW s \in Seq(Seq(S)), NEW x \in Seq(S)
  PROVE  FlattenSeq(Append(s, x)) = FlattenSeq(s) \o x
<1> DEFINE t == Append(s, x)
           n == Len(s)
<1>1. n \in Nat /\ t \in Seq(Seq(S)) /\ t # <<>> /\ Len(t) = n + 1 /\ t[n + 1] = x
      /\ \A i \in 1..n : t[i] = s[i]
  BY AppendProperties, LenProperties
<1> HIDE DEF t
<1>2. PICK f : Flattens(f, n + 1, t)
  <2>1. n + 1 \in Nat
    BY <1>1
  <2> QED
    BY <2>1, FlattensExists
<1>3. FlattenSeq(t) = f[n + 1]
  BY <1>1, <1>2, FlattenSeqIs
<1>4. f[n + 1] = IF n + 1 = 1 THEN t[n + 1] ELSE f[n] \o t[n + 1]
  <2>1. n + 1 \in 1..(n + 1) /\ (n + 1) - 1 = n
    BY <1>1
  <2> QED
    BY <1>2, <2>1 DEF Flattens
<1>5. CASE n = 0
  <2>1. s = <<>>
    BY <1>5, EmptySeq
  <2> QED
    BY <1>1, <1>3, <1>4, <1>5, <2>1, FlattenEmpty, ConcatEmptySeq DEF t
<1>6. CASE n # 0
  <2>1. s # <<>>
    BY <1>6, EmptySeq
  <2>2. PICK g : Flattens(g, n, s)
    BY <1>1, FlattensExists
  <2>3. FlattenSeq(s) = g[n]
    BY <2>1, <2>2, FlattenSeqIs
  <2>4. g[n] = f[n]
    <3>0. n \in Nat /\ n + 1 \in Nat /\ n <= n + 1 /\ \A i \in 1..n : s[i] = t[i]
      BY <1>1
    <3> HIDE DEF n
    <3> DEFINE m == n + 1
    <3>2. m \in Nat /\ n <= m /\ Flattens(f, m, t)
      BY <3>0, <1>2
    <3> HIDE DEF m
    <3>1. \A i \in 1..n : g[i] = f[i]
      BY <3>0, <3>2, <2>2, FlattensAgree
    <3> QED
      BY <3>1, <1>1, <1>6
  <2> QED
    BY <1>1, <1>3, <1>4, <1>6, <2>3, <2>4 DEF t
<1> QED
  BY <1>5, <1>6

(* The first n elements.                                                   *)
Prefix(s, n) == SubSeq(s, 1, n)

(* What a prefix is, and how the next one comes from it.                   *)
LEMMA PrefixGrows ==
  ASSUME NEW S, NEW s \in Seq(S)
  PROVE  /\ Prefix(s, 0) = <<>> /\ Prefix(s, Len(s)) = s
         /\ \A n \in 0..Len(s) : Prefix(s, n) \in Seq(S) /\ Len(Prefix(s, n)) = n
         /\ \A n \in 1..Len(s) : Prefix(s, n) = Append(Prefix(s, n - 1), s[n])
<1>1. Prefix(s, 0) = <<>> /\ Prefix(s, Len(s)) = s
  BY SubSeqEmpty, SubSeqFull DEF Prefix
<1>2. \A n \in 0..Len(s) : Prefix(s, n) \in Seq(S) /\ Len(Prefix(s, n)) = n
  BY SubSeqProperties, LenProperties, ElementOfSeq DEF Prefix
<1>3. ASSUME NEW n \in 1..Len(s)
      PROVE  Prefix(s, n) = Append(Prefix(s, n - 1), s[n])
  <2>1. 1 \in 1..Len(s) /\ Len(s) \in Nat /\ n - 1 \in 0..Len(s)
    BY LenProperties
  <2>2. SubSeq(s, 1, n) = SubSeq(s, 1, n - 1) \o <<s[n]>>
    BY <2>1, SubSeqRecursiveSecond
  <2>3. Prefix(s, n - 1) \in Seq(S) /\ s[n] \in S
    BY <1>2, <2>1, ElementOfSeq
  <2> QED
    BY <2>2, <2>3, AppendIsConcat DEF Prefix
<1> QED
  BY <1>1, <1>2, <1>3

(* Its type.                                                               *)
LEMMA FlattenType ==
  ASSUME NEW S, NEW s \in Seq(Seq(S))
  PROVE  FlattenSeq(s) \in Seq(S)
<1> DEFINE T == {n \in Nat : n <= Len(s) => FlattenSeq(Prefix(s, n)) \in Seq(S)}
<1>0. Len(s) \in Nat
  BY LenProperties
<1>1. 0 \in T
  BY PrefixGrows, FlattenEmpty, EmptySeq
<1>2. ASSUME NEW n \in T PROVE n + 1 \in T
  <2> SUFFICES ASSUME n + 1 <= Len(s) PROVE FlattenSeq(Prefix(s, n + 1)) \in Seq(S)
    OBVIOUS
  <2>1. n \in 0..Len(s) /\ n + 1 \in 1..Len(s) /\ (n + 1) - 1 = n
    BY <1>0
  <2>2. Prefix(s, n) \in Seq(Seq(S)) /\ s[n + 1] \in Seq(S)
    BY <2>1, PrefixGrows, ElementOfSeq
  <2>3. Prefix(s, n + 1) = Append(Prefix(s, n), s[n + 1])
    BY <2>1, PrefixGrows
  <2>4. FlattenSeq(Prefix(s, n + 1)) = FlattenSeq(Prefix(s, n)) \o s[n + 1]
    BY <2>2, <2>3, FlattenAppend
  <2>5. FlattenSeq(Prefix(s, n)) \in Seq(S)
    BY <2>1
  <2> QED
    BY <2>2, <2>4, <2>5, ConcatProperties
<1>3. T = Nat
  <2> HIDE DEF T
  <2>1. T \in SUBSET Nat
    BY DEF T
  <2> QED
    BY <1>1, <1>2, <2>1, Induction
<1>4. Len(s) \in T /\ Prefix(s, Len(s)) = s
  BY <1>0, <1>3, PrefixGrows
<1> QED
  BY <1>4

(* An element put at the end of the second of two sequences.               *)
LEMMA AppendToConcat ==
  ASSUME NEW S, NEW s \in Seq(S), NEW t \in Seq(S), NEW x \in S
  PROVE  s \o t \in Seq(S) /\ s \o Append(t, x) = Append(s \o t, x)
<1>1. s \o t \in Seq(S) /\ <<x>> \in Seq(S)
  BY ConcatProperties
<1>2. Append(t, x) = t \o <<x>> /\ Append(s \o t, x) = (s \o t) \o <<x>>
  BY <1>1, AppendIsConcat
<1>3. (s \o t) \o <<x>> = s \o (t \o <<x>>)
  BY <1>1, ConcatAssociative
<1> QED
  BY <1>1, <1>2, <1>3

(* Of two sequences put end to end, when the second gets one more.         *)
LEMMA FlattenConcatStep ==
  ASSUME NEW S, NEW s \in Seq(Seq(S)), NEW t \in Seq(Seq(S)), NEW x \in Seq(S),
         FlattenSeq(s \o t) = FlattenSeq(s) \o FlattenSeq(t)
  PROVE  FlattenSeq(s \o Append(t, x)) = FlattenSeq(s) \o FlattenSeq(Append(t, x))
<1>1. s \o t \in Seq(Seq(S)) /\ s \o Append(t, x) = Append(s \o t, x)
  BY AppendToConcat
<1>2. FlattenSeq(s \o Append(t, x)) = (FlattenSeq(s) \o FlattenSeq(t)) \o x
  BY <1>1, FlattenAppend
<1>3. FlattenSeq(Append(t, x)) = FlattenSeq(t) \o x
  BY FlattenAppend
<1>4. FlattenSeq(s) \in Seq(S) /\ FlattenSeq(t) \in Seq(S)
  BY FlattenType
<1>5. (FlattenSeq(s) \o FlattenSeq(t)) \o x = FlattenSeq(s) \o (FlattenSeq(t) \o x)
  BY <1>4, ConcatAssociative
<1> QED
  BY <1>2, <1>3, <1>5

(* Of two sequences put end to end.                                        *)
LEMMA FlattenConcat ==
  ASSUME NEW S, NEW s \in Seq(Seq(S)), NEW t \in Seq(Seq(S))
  PROVE  FlattenSeq(s \o t) = FlattenSeq(s) \o FlattenSeq(t)
<1> DEFINE P(u) == FlattenSeq(s \o u) = FlattenSeq(s) \o FlattenSeq(u)
           T == {n \in Nat : n <= Len(t) => P(Prefix(t, n))}
<1>0. Len(t) \in Nat /\ FlattenSeq(s) \in Seq(S)
  BY LenProperties, FlattenType
<1>1. 0 \in T
  <2>1. s \o <<>> = s
    BY ConcatEmptySeq
  <2>2. FlattenSeq(s) \o <<>> = FlattenSeq(s)
    BY <1>0, ConcatEmptySeq
  <2>3. Prefix(t, 0) = <<>>
    BY PrefixGrows
  <2> QED
    BY <2>1, <2>2, <2>3, FlattenEmpty
<1>2. ASSUME NEW n \in T PROVE n + 1 \in T
  <2> SUFFICES ASSUME n + 1 <= Len(t) PROVE P(Prefix(t, n + 1))
    OBVIOUS
  <2>1. n \in 0..Len(t) /\ n + 1 \in 1..Len(t) /\ (n + 1) - 1 = n
    BY <1>0
  <2>2. Prefix(t, n) \in Seq(Seq(S)) /\ t[n + 1] \in Seq(S)
        /\ Prefix(t, n + 1) = Append(Prefix(t, n), t[n + 1])
    BY <2>1, PrefixGrows, ElementOfSeq
  <2>3. P(Prefix(t, n))
    BY <2>1
  <2> QED
    BY <2>2, <2>3, FlattenConcatStep
<1>3. T = Nat
  <2> HIDE DEF T
  <2>1. T \in SUBSET Nat
    BY DEF T
  <2> QED
    BY <1>1, <1>2, <2>1, Induction
<1>4. Len(t) \in T /\ Prefix(t, Len(t)) = t
  <2> HIDE DEF T
  <2> QED
    BY <1>0, <1>3, PrefixGrows
<1> QED
  BY <1>4

(* Of one sequence.                                                        *)
LEMMA FlattenOne ==
  ASSUME NEW S, NEW x \in Seq(S)
  PROVE  FlattenSeq(<<x>>) = x
<1>1. <<>> \in Seq(Seq(S)) /\ Append(<<>>, x) = <<x>>
  BY EmptySeq
<1>2. FlattenSeq(<<x>>) = <<>> \o x
  BY <1>1, FlattenAppend, FlattenEmpty
<1>3. <<>> \o x = x
  BY ConcatEmptySeq
<1> QED
  BY <1>2, <1>3

(* Of a first sequence and the rest.                                       *)
LEMMA FlattenHead ==
  ASSUME NEW S, NEW s \in Seq(Seq(S)), s # <<>>
  PROVE  FlattenSeq(s) = Head(s) \o FlattenSeq(Tail(s))
<1>1. Head(s) \in Seq(S) /\ Tail(s) \in Seq(Seq(S)) /\ <<Head(s)>> \in Seq(Seq(S))
  BY HeadTailProperties
<1>2. s = <<Head(s)>> \o Tail(s)
  <2>1. Len(s) \in Nat \ {0} /\ s[1] = Head(s) /\ Len(<<Head(s)>>) = 1
    BY EmptySeq
  <2>2. /\ Len(<<Head(s)>> \o Tail(s)) = Len(s) /\ <<Head(s)>> \o Tail(s) \in Seq(Seq(S))
        /\ \A i \in 1..Len(s) : (<<Head(s)>> \o Tail(s))[i] = s[i]
    <3>1. Len(Tail(s)) = Len(s) - 1 /\ \A i \in 1..Len(Tail(s)) : Tail(s)[i] = s[i + 1]
      BY HeadTailProperties
    <3> QED
      BY <1>1, <2>1, <3>1, ConcatProperties
  <2> QED
    BY <2>1, <2>2, SeqEqual
<1>3. FlattenSeq(<<Head(s)>> \o Tail(s)) = FlattenSeq(<<Head(s)>>) \o FlattenSeq(Tail(s))
  BY <1>1, FlattenConcat
<1> QED
  BY <1>1, <1>2, <1>3, FlattenOne

(* The elements of two sequences put end to end.                           *)
LEMMA ConcatParts ==
  ASSUME NEW S, NEW s \in Seq(S), NEW t \in Seq(S)
  PROVE  /\ Len(s) \in Nat /\ Len(t) \in Nat /\ Len(s \o t) = Len(s) + Len(t)
         /\ \A l \in 1..Len(s) : (s \o t)[l] = s[l]
         /\ \A l \in 1..Len(t) : (s \o t)[Len(s) + l] = t[l]
BY LenProperties, ConcatProperties
-------------------------------------------------------------------------------
(* The inductive invariant of the registry.                                *)

Hop == [node : C2, time : Nat]

(* A path: it has a hop, every hop was made before t, each later than the  *)
(* one before and by its next hop.                                         *)
PathUntil(path, t) ==
  /\ path \in Seq(Hop) /\ path # <<>>
  /\ \A i \in 1..Len(path) : path[i].time < t
  /\ \A i \in 2..Len(path) :
       path[i].time > path[i - 1].time /\ path[i].node = NextHop[path[i - 1].node]

EndOf(path) == path[Len(path)].node
LastNode(id) == EndOf(registry[id])

TypeInv ==
  /\ now \in Nat /\ nextId \in Nat \ {0}
  /\ queue \in [C2 -> Seq(Nat)] /\ counter \in [C2 -> Nat]
  /\ onAir \in [C2 -> BOOLEAN] /\ answer \in [C2 -> {"none", "owed"}]
  /\ DOMAIN keyToId = C2 /\ DOMAIN acked = C2

RegistryInv ==
  \A id \in DOMAIN registry : id \in 1..(nextId - 1) /\ PathUntil(registry[id], now)

(* A transmission that forwards another has that one's path and a hop more *)
(* (ChainInv), and only the node of the last hop counts it (CountedInv).   *)
ChainInv ==
  /\ DOMAIN chain \subseteq DOMAIN registry
  /\ \A id \in DOMAIN registry :
       IF id \in DOMAIN chain
       THEN /\ chain[id] \in DOMAIN registry /\ chain[id] < id
            /\ \E hop \in Hop : registry[id] = Append(registry[chain[id]], hop)
       ELSE Len(registry[id]) = 1

CountedInv ==
  /\ \A n \in C2 : \A id \in DOMAIN acked[n] : id \in DOMAIN registry /\ LastNode(id) = n
  /\ \A id \in DOMAIN registry : id \in DOMAIN acked[LastNode(id)]

(* A key is of a transmission of its node (KeyInv), and who is on the air  *)
(* has one; what waits at a node came from a node that routes to it.       *)
KeyInv ==
  \A n \in C2 : \A k \in DOMAIN keyToId[n] : keyToId[n][k] \in DOMAIN acked[n]

AirInv ==
  \A n \in C2 :
    /\ onAir[n] => answer[n] = "none" /\ counter[n] \in DOMAIN keyToId[n]
    /\ onAir[n] \/ answer[n] = "owed" => queue[n] # <<>>

CameFor(id, n) == id \in DOMAIN registry /\ NextHop[LastNode(id)] = n

QueueInv ==
  \A n \in C2 : \A i \in 1..Len(queue[n]) : queue[n][i] = NoId \/ CameFor(queue[n][i], n)

PathInv == TypeInv /\ RegistryInv /\ ChainInv /\ CountedInv /\ KeyInv /\ AirInv /\ QueueInv
-------------------------------------------------------------------------------
(* The chain of a transmission, walked back to its origin.                 *)

Backward(c) == DOMAIN c \subseteq Nat /\ \A i \in DOMAIN c : c[i] \in 0..(i - 1)

Walks(f, c, m) ==
  f = [i \in 0..m |-> IF i \in DOMAIN c THEN Append(f[c[i]], i) ELSE <<i>>]

(* A walk of one more step.                                                *)
LEMMA WalkGrows ==
  ASSUME NEW c, Backward(c), NEW m \in Nat, NEW f, Walks(f, c, m)
  PROVE  \E g : Walks(g, c, m + 1)
<1> DEFINE k == m + 1
           top == IF k \in DOMAIN c THEN Append(f[c[k]], k) ELSE <<k>>
           g == [i \in 0..k |-> IF i = k THEN top ELSE f[i]]
<1>1. \A i \in 0..m : g[i] = f[i] /\ f[i] = IF i \in DOMAIN c THEN Append(f[c[i]], i) ELSE <<i>>
  <2>1. \A i \in 0..m : g[i] = f[i]
    OBVIOUS
  <2> QED
    BY <2>1 DEF Walks
<1>2. g[k] = top
  OBVIOUS
<1>3. \A i \in 0..k : i \in DOMAIN c => c[i] \in 0..m /\ g[c[i]] = f[c[i]]
  <2> SUFFICES ASSUME NEW i \in 0..k, i \in DOMAIN c
               PROVE  c[i] \in 0..m /\ g[c[i]] = f[c[i]]
    OBVIOUS
  <2>1. c[i] \in 0..(i - 1)
    BY DEF Backward
  <2>2. c[i] \in 0..m
    BY <2>1
  <2> HIDE DEF g
  <2> QED
    BY <2>2, <1>1
<1>4. g = [i \in 0..k |-> g[i]]
  OBVIOUS
<1> HIDE DEF g
<1>5. \A i \in 0..k : g[i] = IF i \in DOMAIN c THEN Append(g[c[i]], i) ELSE <<i>>
  <2> SUFFICES ASSUME NEW i \in 0..k
               PROVE  g[i] = IF i \in DOMAIN c THEN Append(g[c[i]], i) ELSE <<i>>
    OBVIOUS
  <2>1. CASE i = k
    BY <2>1, <1>2, <1>3
  <2>2. CASE i # k
    <3>1. i \in 0..m
      BY <2>2
    <3> QED
      BY <3>1, <1>1, <1>3
  <2> QED
    BY <2>1, <2>2
<1>6. g = [i \in 0..k |-> IF i \in DOMAIN c THEN Append(g[c[i]], i) ELSE <<i>>]
  BY <1>4, <1>5
<1> QED
  BY <1>6 DEF Walks

(* There are walks of every length.                                        *)
LEMMA WalkExists ==
  ASSUME NEW c, Backward(c)
  PROVE  \A m \in Nat : \E f : Walks(f, c, m)
<1> DEFINE T == {m \in Nat : \E f : Walks(f, c, m)}
<1>1. 0 \in T
  <2>1. 0 \notin DOMAIN c
    BY DEF Backward
  <2>2. Walks([i \in 0..0 |-> <<i>>], c, 0)
    BY <2>1 DEF Walks
  <2> QED
    BY <2>2
<1>2. ASSUME NEW m \in T PROVE m + 1 \in T
  BY WalkGrows
<1>3. T = Nat
  <2> HIDE DEF T
  <2>1. T \in SUBSET Nat
    BY DEF T
  <2> QED
    BY <1>1, <1>2, <2>1, Induction
<1> QED
  BY <1>3

(* All of them say the same.                                               *)
LEMMA WalksAgree ==
  ASSUME NEW c, Backward(c), NEW l \in Nat, NEW m \in Nat, l <= m,
         NEW f, Walks(f, c, l), NEW g, Walks(g, c, m)
  PROVE  \A i \in 0..l : f[i] = g[i]
<1> DEFINE T == {i \in 0..l : f[i] # g[i]}
<1> SUFFICES ASSUME T # {} PROVE FALSE
  OBVIOUS
<1>1. PICK x \in T : \A y \in T : x <= y
  <2> HIDE DEF T
  <2>1. T \in SUBSET Nat
    BY DEF T
  <2> QED
    BY <2>1, LeastExists
<1>2. x \in 0..l /\ x \in 0..m
  OBVIOUS
<1>3. f[x] = IF x \in DOMAIN c THEN Append(f[c[x]], x) ELSE <<x>>
  BY <1>2 DEF Walks
<1>4. g[x] = IF x \in DOMAIN c THEN Append(g[c[x]], x) ELSE <<x>>
  BY <1>2 DEF Walks
<1>5. x \in DOMAIN c => c[x] \in 0..l /\ c[x] < x
  BY <1>2 DEF Backward
<1>6. x \in DOMAIN c => f[c[x]] = g[c[x]]
  BY <1>1, <1>5
<1> QED
  BY <1>3, <1>4, <1>6

(* BuildPacketChain is such a walk.                                        *)
LEMMA BuildIsWalk ==
  ASSUME Backward(chain), NEW id \in Nat, NEW m \in Nat, id <= m, NEW f, Walks(f, chain, m)
  PROVE  BuildPacketChain(id) = f[id]
<1> DEFINE g == CHOOSE g : Walks(g, chain, id)
<1>1. BuildPacketChain(id) = g[id]
  BY DEF BuildPacketChain, Walks
<1>2. Walks(g, chain, id)
  BY WalkExists
<1> HIDE DEF g
<1>3. \A i \in 0..id : g[i] = f[i]
  BY <1>2, WalksAgree
<1> QED
  BY <1>1, <1>3

(* The chain of a transmission: that of the one it forwards, and itself.   *)
LEMMA BuildStep ==
  ASSUME Backward(chain), NEW id \in Nat
  PROVE  BuildPacketChain(id)
           = IF id \in DOMAIN chain THEN Append(BuildPacketChain(chain[id]), id) ELSE <<id>>
<1>1. PICK f : Walks(f, chain, id)
  BY WalkExists
<1>2. BuildPacketChain(id) = f[id]
  BY <1>1, BuildIsWalk
<1>3. f[id] = IF id \in DOMAIN chain THEN Append(f[chain[id]], id) ELSE <<id>>
  <2>1. id \in 0..id
    OBVIOUS
  <2> QED
    BY <1>1, <2>1 DEF Walks
<1>4. id \in DOMAIN chain => chain[id] \in Nat /\ chain[id] <= id
  BY DEF Backward
<1>5. id \in DOMAIN chain => BuildPacketChain(chain[id]) = f[chain[id]]
  BY <1>1, <1>4, BuildIsWalk
<1> QED
  BY <1>2, <1>3, <1>5

(* Only one node counts a transmission.                                    *)
LEMMA SenderIs ==
  ASSUME PathInv, NEW id \in DOMAIN registry
  PROVE  LastNode(id) \in C2 /\ Sender(id) = LastNode(id)
<1>1. registry[id] \in Seq(Hop) /\ registry[id] # <<>>
  BY DEF PathInv, RegistryInv, PathUntil
<1>2. LastNode(id) \in C2
  <2>1. Len(registry[id]) \in 1..Len(registry[id])
    BY <1>1, EmptySeq
  <2>2. registry[id][Len(registry[id])] \in Hop
    BY <1>1, <2>1, ElementOfSeq
  <2> QED
    BY <2>2 DEF LastNode, EndOf, Hop
<1>3. \A n \in C2 : id \in DOMAIN acked[n] <=> n = LastNode(id)
  BY <1>2 DEF PathInv, CountedInv
<1> QED
  BY <1>2, <1>3 DEF Sender

(* The path of a packet is the chain of the transmissions that carried it. *)
TellsChain(id) ==
  LET ids == BuildPacketChain(id)
      path == registry[id]
  IN /\ ids \in Seq(Nat) /\ Len(path) = Len(ids)
     /\ \A i \in 1..Len(path) : path[i].node = Sender(ids[i])

(* One transmission after the one it forwards.                             *)
LEMMA TellsChainStep ==
  ASSUME PathInv, NEW id \in DOMAIN registry,
         id \in DOMAIN chain => TellsChain(chain[id])
  PROVE  TellsChain(id)
<1>1. Backward(chain)
  BY DEF PathInv, ChainInv, RegistryInv, Backward
<1>2. id \in Nat /\ registry[id] \in Seq(Hop) /\ registry[id] # <<>>
  BY DEF PathInv, RegistryInv, PathUntil
<1>3. registry[id][Len(registry[id])].node = Sender(id)
  BY SenderIs DEF LastNode, EndOf
<1>4. CASE id \notin DOMAIN chain
  <2>1. BuildPacketChain(id) = <<id>>
    BY <1>1, <1>2, <1>4, BuildStep
  <2>2. Len(registry[id]) = 1
    BY <1>4 DEF PathInv, ChainInv
  <2>3. <<id>> \in Seq(Nat) /\ Len(<<id>>) = 1 /\ <<id>>[1] = id
    BY <1>2
  <2> QED
    BY <2>1, <2>2, <2>3, <1>3 DEF TellsChain
<1>5. CASE id \in DOMAIN chain
  <2> DEFINE before == registry[chain[id]]
             ids == BuildPacketChain(chain[id])
             n == Len(before)
  <2>1. ids \in Seq(Nat) /\ n = Len(ids) /\ \A i \in 1..n : before[i].node = Sender(ids[i])
    BY <1>5 DEF TellsChain
  <2>2. BuildPacketChain(id) = Append(ids, id)
    BY <1>1, <1>2, <1>5, BuildStep
  <2>3. PICK hop \in Hop : registry[id] = Append(before, hop)
    BY <1>5 DEF PathInv, ChainInv
  <2>4. before \in Seq(Hop)
    BY <1>5 DEF PathInv, ChainInv, RegistryInv, PathUntil
  <2> HIDE DEF before, ids
  <2>5. /\ Len(registry[id]) = n + 1 /\ n \in Nat
        /\ \A i \in 1..n : registry[id][i] = before[i]
    BY <2>3, <2>4, AppendProperties, LenProperties
  <2>6. /\ Append(ids, id) \in Seq(Nat) /\ Len(Append(ids, id)) = n + 1
        /\ \A i \in 1..n : Append(ids, id)[i] = ids[i]
        /\ Append(ids, id)[n + 1] = id
    BY <2>1, <1>2, AppendProperties
  <2>7. \A i \in 1..(n + 1) : registry[id][i].node = Sender(Append(ids, id)[i])
    <3> SUFFICES ASSUME NEW i \in 1..(n + 1)
                 PROVE  registry[id][i].node = Sender(Append(ids, id)[i])
      OBVIOUS
    <3>1. CASE i = n + 1
      BY <3>1, <2>5, <2>6, <1>3
    <3>2. CASE i \in 1..n
      BY <3>2, <2>1, <2>5, <2>6
    <3>3. i = n + 1 \/ i \in 1..n
      <4> HIDE DEF n
      <4> QED
        BY <2>5
    <3> QED
      BY <3>1, <3>2, <3>3
  <2> QED
    BY <2>2, <2>5, <2>6, <2>7 DEF TellsChain
<1> QED
  BY <1>4, <1>5

(* All transmissions, from the first on.                                   *)
LEMMA AllTellChain ==
  ASSUME PathInv
  PROVE  \A id \in DOMAIN registry : TellsChain(id)
<1> DEFINE T == {id \in DOMAIN registry : ~TellsChain(id)}
<1> SUFFICES ASSUME T # {} PROVE FALSE
  OBVIOUS
<1>1. T \in SUBSET Nat
  BY DEF PathInv, RegistryInv
<1>2. PICK x \in T : \A y \in T : x <= y
  <2> HIDE DEF T
  <2> QED
    BY <1>1, LeastExists
<1>3. x \in DOMAIN chain => TellsChain(chain[x])
  <2> SUFFICES ASSUME x \in DOMAIN chain PROVE TellsChain(chain[x])
    OBVIOUS
  <2>1. chain[x] \in DOMAIN registry /\ chain[x] < x
    BY DEF PathInv, ChainInv
  <2>2. chain[x] \in Nat /\ x \in Nat
    BY <1>1, <2>1 DEF PathInv, RegistryInv
  <2> QED
    BY <1>2, <2>1, <2>2
<1> QED
  BY <1>3, TellsChainStep

(* So the invariant implies the property.                                  *)
LEMMA PathInvSuffices == PathInv => PathsFollowChain
<1> SUFFICES ASSUME PathInv, NEW id \in DOMAIN registry
             PROVE  LET ids == BuildPacketChain(id)
                        path == registry[id]
                    IN /\ Len(path) = Len(ids)
                       /\ \A i \in DOMAIN path : path[i].node = Sender(ids[i])
                       /\ \A i \in 2 .. Len(path) :
                            /\ path[i].time > path[i - 1].time
                            /\ path[i].node = NextHop[path[i - 1].node]
  BY DEF PathsFollowChain
<1>1. TellsChain(id)
  BY AllTellChain
<1>2. PathUntil(registry[id], now)
  BY DEF PathInv, RegistryInv
<1>3. DOMAIN registry[id] = 1..Len(registry[id])
  BY <1>2, LenProperties DEF PathUntil
<1> QED
  BY <1>1, <1>2, <1>3 DEF TellsChain, PathUntil
-------------------------------------------------------------------------------
(* PathInv is inductive.                                                   *)

(* What a hop of a path is.                                                *)
LEMMA HopIs ==
  ASSUME NEW path \in Seq(Hop), NEW i \in 1..Len(path)
  PROVE  path[i].time \in Nat /\ path[i].node \in C2
<1>1. path[i] \in Hop
  BY ElementOfSeq
<1> QED
  BY <1>1 DEF Hop

(* What was before one time was before a later one.                        *)
LEMMA PathUntilLater ==
  ASSUME NEW path, NEW t \in Nat, NEW u \in Nat, t <= u, PathUntil(path, t)
  PROVE  PathUntil(path, u)
<1>1. \A i \in 1..Len(path) : path[i].time \in Nat
  BY HopIs DEF PathUntil
<1> QED
  BY <1>1 DEF PathUntil

(* A hop that the next node adds to a path.                                *)
LEMMA PathGrows ==
  ASSUME NEW path, NEW t \in Nat, PathUntil(path, t),
         NEW n \in C2, NextHop[EndOf(path)] = n
  PROVE  PathUntil(Append(path, [node |-> n, time |-> t]), t + 1)
<1> DEFINE hop == [node |-> n, time |-> t]
           longer == Append(path, hop)
           len == Len(path)
<1>1. hop \in Hop /\ hop.node = n /\ hop.time = t
  BY DEF Hop
<1>2. path \in Seq(Hop) /\ len \in Nat \ {0}
  BY EmptySeq DEF PathUntil
<1> HIDE DEF hop
<1>3. /\ longer \in Seq(Hop) /\ longer # <<>> /\ Len(longer) = len + 1
      /\ \A i \in 1..len : longer[i] = path[i]
      /\ longer[len + 1] = hop
  BY <1>1, <1>2, AppendProperties
<1>4. \A i \in 1..len : path[i].time < t /\ path[i].time \in Nat
  <2>1. \A i \in 1..Len(path) : path[i].time < t
    BY DEF PathUntil
  <2> QED
    BY <2>1, <1>2, HopIs
<1> HIDE DEF longer, len
<1>5. \A i \in 1..(len + 1) : longer[i].time < t + 1
  <2> SUFFICES ASSUME NEW i \in 1..(len + 1) PROVE longer[i].time < t + 1
    OBVIOUS
  <2>1. CASE i = len + 1
    BY <2>1, <1>1, <1>3
  <2>2. CASE i \in 1..len
    BY <2>2, <1>3, <1>4
  <2> QED
    BY <1>2, <2>1, <2>2
<1>6. ASSUME NEW i \in 2..(len + 1)
      PROVE  longer[i].time > longer[i - 1].time /\ longer[i].node = NextHop[longer[i - 1].node]
  <2>1. i - 1 \in 1..len /\ longer[i - 1] = path[i - 1]
    BY <1>2, <1>3
  <2>2. CASE i = len + 1
    <3>1. i - 1 = len
      BY <1>2, <2>2
    <3>2. NextHop[path[len].node] = n
      BY DEF len, EndOf
    <3> QED
      BY <2>1, <2>2, <3>1, <3>2, <1>1, <1>3, <1>4
  <2>3. CASE i \in 2..len
    <3>1. path[i].time > path[i - 1].time /\ path[i].node = NextHop[path[i - 1].node]
      BY <2>3 DEF PathUntil, len
    <3>2. longer[i] = path[i]
      BY <2>3, <1>2, <1>3
    <3> QED
      BY <2>1, <3>1, <3>2
  <2> QED
    BY <1>2, <2>2, <2>3
<1> QED
  BY <1>3, <1>5, <1>6 DEF PathUntil, longer, hop

(* The path of a packet at its origin.                                     *)
LEMMA PathStarts ==
  ASSUME NEW t \in Nat, NEW n \in C2
  PROVE  PathUntil(<<[node |-> n, time |-> t]>>, t + 1)
<1> DEFINE hop == [node |-> n, time |-> t]
<1>1. hop \in Hop /\ hop.time = t
  BY DEF Hop
<1> HIDE DEF hop
<1>2. <<hop>> \in Seq(Hop) /\ <<hop>> # <<>> /\ Len(<<hop>>) = 1 /\ <<hop>>[1] = hop
  BY <1>1
<1> QED
  BY <1>1, <1>2 DEF PathUntil, hop

(* Steps that record nothing new.                                          *)
LEMMA PathInvKept ==
  ASSUME PathInv, UNCHANGED <<nextId, keyToId, registry, chain>>,
         now' \in Nat, now' >= now,
         \A n \in C2 : DOMAIN acked'[n] = DOMAIN acked[n],
         TypeInv', AirInv', QueueInv'
  PROVE  PathInv'
<1>1. RegistryInv'
  BY PathUntilLater DEF PathInv, RegistryInv, TypeInv
<1>2. ChainInv'
  BY DEF PathInv, ChainInv
<1>3. CountedInv'
  <2>1. \A id : LastNode(id)' = LastNode(id)
    BY DEF LastNode
  <2>2. \A id \in DOMAIN registry : LastNode(id) \in C2
    BY SenderIs
  <2> QED
    BY <2>1, <2>2 DEF PathInv, CountedInv
<1>4. KeyInv'
  BY DEF PathInv, KeyInv
<1> QED
  BY <1>1, <1>2, <1>3, <1>4 DEF PathInv

(* The same, when nothing of the radio changes either.                     *)
LEMMA PathInvStutters ==
  ASSUME PathInv, UNCHANGED <<now, radioVars, lifeVars>>
  PROVE  PathInv'
<1>1. UNCHANGED <<now, queue, counter, onAir, answer, nextId, keyToId, registry, chain, acked>>
  BY DEF radioVars, lifeVars
<1>2. TypeInv'
  BY <1>1 DEF PathInv, TypeInv
<1>3. AirInv'
  BY <1>1 DEF PathInv, AirInv
<1>4. QueueInv'
  BY <1>1 DEF PathInv, QueueInv, CameFor, LastNode
<1>5. RegistryInv' /\ ChainInv' /\ KeyInv'
  BY <1>1 DEF PathInv, RegistryInv, ChainInv, KeyInv
<1>6. CountedInv'
  BY <1>1 DEF PathInv, CountedInv, LastNode
<1> QED
  BY <1>2, <1>3, <1>4, <1>5, <1>6 DEF PathInv

(* In the initial state nothing was sent.                                  *)
LEMMA PathInvInit == Init => PathInv
<1> SUFFICES ASSUME Init PROVE PathInv
  OBVIOUS
<1>1. TypeInv
  <2>1. [i \in 1..InitialPayloads |-> NoId] \in Seq(Nat)
    BY InitialPayloadsAssumption DEF NoId
  <2> QED
    BY <2>1 DEF Init, TypeInv
<1>2. QueueInv
  <2> SUFFICES ASSUME NEW n \in C2, NEW i \in 1..Len(queue[n]) PROVE queue[n][i] = NoId
    BY DEF QueueInv
  <2>1. queue[n] = [j \in 1..InitialPayloads |-> NoId] /\ Len(queue[n]) = InitialPayloads
    BY InitialPayloadsAssumption DEF Init
  <2> QED
    BY <2>1
<1>3. DOMAIN registry = {} /\ DOMAIN chain = {}
  BY DEF Init
<1>4. \A n \in C2 : /\ DOMAIN acked[n] = {} /\ DOMAIN keyToId[n] = {}
                    /\ ~onAir[n] /\ answer[n] = "none"
  BY DEF Init
<1> QED
  BY <1>1, <1>2, <1>3, <1>4 DEF PathInv, RegistryInv, ChainInv, CountedInv, KeyInv, AirInv

(* A first or repeated transmission gets an id, a key and a path.          *)
LEMMA PathInvTransmit ==
  ASSUME PathInv, NEW n \in C2, TransmitData(n)
  PROVE  PathInv'
<1> DEFINE id == nextId
           received == Head(queue[n])
           path == IF received = NoId THEN Originated(n) ELSE Forwarded(n, received)
<1>1. /\ now \in Nat /\ id \in Nat \ {0} /\ now' = now + 1 /\ nextId' = id + 1
      /\ id \notin DOMAIN registry
  BY DEF PathInv, TypeInv, RegistryInv, TransmitData
<1>2. queue[n] \in Seq(Nat) /\ queue[n] # <<>> /\ received = queue[n][1]
      /\ 1 \in 1..Len(queue[n])
  BY EmptySeq DEF PathInv, TypeInv, TransmitData
<1>3. received # NoId => CameFor(received, n)
  BY <1>2 DEF PathInv, QueueInv
<1>4. registry' = With(registry, id, path)
  BY <1>3 DEF TransmitData, CameFor
<1>5. acked' = RecordTransmission(n, id) /\ keyToId' = Registered(n, counter[n], id)
      /\ chain' = (IF received = NoId THEN chain ELSE With(chain, id, received))
      /\ UNCHANGED <<queue, counter, answer>> /\ onAir' = [onAir EXCEPT ![n] = TRUE]
      /\ answer[n] = "none"
  BY DEF TransmitData
<1>6. /\ PathUntil(path, now + 1)
      /\ EndOf(path) = n
      /\ received = NoId => Len(path) = 1
      /\ received # NoId => path = Append(registry[received], [node |-> n, time |-> now])
  <2>1. CASE received = NoId
    <3>1. path = <<[node |-> n, time |-> now]>>
      BY <2>1 DEF Originated
    <3>2. Len(path) = 1 /\ EndOf(path) = n
      <4> DEFINE hop == [node |-> n, time |-> now]
      <4>1. path = <<hop>> /\ hop.node = n
        BY <3>1
      <4> HIDE DEF path, hop
      <4> QED
        BY <4>1 DEF EndOf
    <3>3. PathUntil(path, now + 1)
      BY <1>1, <3>1, PathStarts
    <3> QED
      BY <2>1, <3>2, <3>3
  <2>2. CASE received # NoId
    <3>1. path = Append(registry[received], [node |-> n, time |-> now])
      BY <2>2 DEF Forwarded
    <3>2. PathUntil(registry[received], now) /\ NextHop[LastNode(received)] = n
      BY <2>2, <1>3 DEF PathInv, RegistryInv, CameFor
    <3>3. path[Len(path)] = [node |-> n, time |-> now]
      <4>1. registry[received] \in Seq(Hop) /\ [node |-> n, time |-> now] \in Hop
        BY <3>2, <1>1 DEF PathUntil, Hop
      <4> QED
        BY <3>1, <4>1, AppendProperties
    <3>4. NextHop[EndOf(registry[received])] = n
      BY <3>2 DEF LastNode
    <3>5. PathUntil(path, now + 1)
      <4> HIDE DEF path, received
      <4> QED
        BY <1>1, <3>1, <3>2, <3>4, PathGrows
    <3>6. EndOf(path) = n
      BY <3>3 DEF EndOf
    <3> QED
      BY <2>2, <3>1, <3>5, <3>6
  <2> QED
    BY <2>1, <2>2
<1> HIDE DEF path, received
<1>7. /\ DOMAIN registry' = DOMAIN registry \cup {id} /\ registry'[id] = path
      /\ \A k \in DOMAIN registry : registry'[k] = registry[k]
  <2>1. /\ DOMAIN With(registry, id, path) = DOMAIN registry \cup {id}
        /\ With(registry, id, path)[id] = path
        /\ \A k \in DOMAIN registry : k # id => With(registry, id, path)[k] = registry[k]
    BY DEF With
  <2> QED
    BY <1>1, <1>4, <2>1
<1>8. /\ DOMAIN acked' = C2
      /\ DOMAIN acked'[n] = DOMAIN acked[n] \cup {id}
      /\ \A m \in C2 \ {n} : acked'[m] = acked[m]
  <2>1. acked' = [acked EXCEPT ![n] = With(acked[n], id, FALSE)]
    BY <1>5 DEF RecordTransmission
  <2>2. DOMAIN acked = C2
    BY DEF PathInv, TypeInv
  <2>3. DOMAIN With(acked[n], id, FALSE) = DOMAIN acked[n] \cup {id}
    BY DEF With
  <2> QED
    BY <2>1, <2>2, <2>3
<1>9. /\ DOMAIN keyToId' = C2
      /\ DOMAIN keyToId'[n] = DOMAIN keyToId[n] \cup {counter[n]}
      /\ keyToId'[n][counter[n]] = id
      /\ \A k \in DOMAIN keyToId[n] : k # counter[n] => keyToId'[n][k] = keyToId[n][k]
      /\ \A m \in C2 \ {n} : keyToId'[m] = keyToId[m]
  <2>1. keyToId' = [keyToId EXCEPT ![n] = With(keyToId[n], counter[n], id)]
    BY <1>5 DEF Registered
  <2>2. DOMAIN keyToId = C2
    BY DEF PathInv, TypeInv
  <2> DEFINE keys == With(keyToId[n], counter[n], id)
  <2>3. /\ DOMAIN keys = DOMAIN keyToId[n] \cup {counter[n]}
        /\ keys[counter[n]] = id
        /\ \A k \in DOMAIN keyToId[n] : k # counter[n] => keys[k] = keyToId[n][k]
    BY DEF With
  <2> HIDE DEF keys
  <2>4. keyToId' = [keyToId EXCEPT ![n] = keys]
    BY <2>1 DEF keys
  <2> QED
    BY <2>2, <2>3, <2>4
<1>10. /\ EndOf(registry'[id]) = n
       /\ \A k \in DOMAIN registry : EndOf(registry'[k]) = LastNode(k)
  BY <1>6, <1>7 DEF LastNode
<1>11. TypeInv'
  BY <1>1, <1>5, <1>8, <1>9 DEF PathInv, TypeInv
<1>12. RegistryInv'
  <2> SUFFICES ASSUME NEW k \in DOMAIN registry'
               PROVE  k \in 1..(nextId' - 1) /\ PathUntil(registry'[k], now')
    BY DEF RegistryInv
  <2>1. CASE k = id
    BY <2>1, <1>1, <1>6, <1>7
  <2>2. CASE k \in DOMAIN registry
    <3>1. k \in 1..(id - 1) /\ PathUntil(registry[k], now)
      BY <2>2 DEF PathInv, RegistryInv
    <3>2. PathUntil(registry[k], now + 1)
      BY <3>1, <1>1, PathUntilLater
    <3> QED
      BY <2>2, <3>1, <3>2, <1>1, <1>7
  <2> QED
    BY <2>1, <2>2, <1>7
<1>13. ChainInv'
  <2>1. DOMAIN chain \subseteq DOMAIN registry
    BY DEF PathInv, ChainInv
  <2>2. /\ DOMAIN chain' = IF received = NoId THEN DOMAIN chain ELSE DOMAIN chain \cup {id}
        /\ received # NoId => chain'[id] = received
        /\ \A k \in DOMAIN chain : chain'[k] = chain[k]
    <3>1. /\ DOMAIN With(chain, id, received) = DOMAIN chain \cup {id}
          /\ With(chain, id, received)[id] = received
          /\ \A k \in DOMAIN chain : k # id => With(chain, id, received)[k] = chain[k]
      BY DEF With
    <3> QED
      BY <2>1, <3>1, <1>1, <1>5
  <2>3. ASSUME NEW k \in DOMAIN registry
        PROVE  IF k \in DOMAIN chain'
               THEN /\ chain'[k] \in DOMAIN registry' /\ chain'[k] < k
                    /\ \E hop \in Hop : registry'[k] = Append(registry'[chain'[k]], hop)
               ELSE Len(registry'[k]) = 1
    <3>1. k # id /\ (k \in DOMAIN chain' <=> k \in DOMAIN chain)
      BY <1>1, <2>2
    <3> QED
      BY <3>1, <2>2, <1>7 DEF PathInv, ChainInv
  <2>4. IF id \in DOMAIN chain'
        THEN /\ chain'[id] \in DOMAIN registry' /\ chain'[id] < id
             /\ \E hop \in Hop : registry'[id] = Append(registry'[chain'[id]], hop)
        ELSE Len(registry'[id]) = 1
    <3>1. CASE received = NoId
      BY <3>1, <1>1, <1>6, <1>7, <2>1, <2>2
    <3>2. CASE received # NoId
      <4>1. received \in DOMAIN registry /\ received < id
        BY <3>2, <1>1, <1>3 DEF CameFor, PathInv, RegistryInv
      <4>2. [node |-> n, time |-> now] \in Hop
        BY <1>1 DEF Hop
      <4> QED
        BY <3>2, <4>1, <4>2, <1>6, <1>7, <2>2
    <3> QED
      BY <3>1, <3>2
  <2>5. DOMAIN chain' \subseteq DOMAIN registry'
    BY <2>1, <2>2, <1>7
  <2> QED
    BY <2>3, <2>4, <2>5, <1>7 DEF ChainInv
<1>14. CountedInv'
  <2>1. ASSUME NEW m \in C2, NEW k \in DOMAIN acked'[m]
        PROVE  k \in DOMAIN registry' /\ EndOf(registry'[k]) = m
    <3>1. CASE m = n /\ k = id
      BY <3>1, <1>7, <1>10
    <3>2. CASE k \in DOMAIN acked[m]
      BY <3>2, <1>7, <1>10 DEF PathInv, CountedInv
    <3> QED
      BY <3>1, <3>2, <1>8
  <2>2. ASSUME NEW k \in DOMAIN registry' PROVE k \in DOMAIN acked'[EndOf(registry'[k])]
    <3>1. CASE k = id
      BY <3>1, <1>8, <1>10
    <3>2. CASE k \in DOMAIN registry
      <4>1. LastNode(k) \in C2 /\ k \in DOMAIN acked[LastNode(k)]
        BY <3>2, SenderIs DEF PathInv, CountedInv
      <4> QED
        BY <3>2, <4>1, <1>8, <1>10
    <3> QED
      BY <3>1, <3>2, <1>7
  <2> QED
    BY <2>1, <2>2 DEF CountedInv, LastNode
<1>15. KeyInv'
  <2> SUFFICES ASSUME NEW m \in C2, NEW k \in DOMAIN keyToId'[m]
               PROVE  keyToId'[m][k] \in DOMAIN acked'[m]
    BY DEF KeyInv
  <2>1. CASE m = n /\ k = counter[n]
    BY <2>1, <1>8, <1>9
  <2>2. CASE m = n /\ k # counter[n]
    BY <2>2, <1>8, <1>9 DEF PathInv, KeyInv
  <2>3. CASE m # n
    BY <2>3, <1>8, <1>9 DEF PathInv, KeyInv
  <2> QED
    BY <2>1, <2>2, <2>3
<1>16. AirInv'
  <2> SUFFICES ASSUME NEW m \in C2
               PROVE  /\ onAir'[m] => answer'[m] = "none" /\ counter'[m] \in DOMAIN keyToId'[m]
                      /\ onAir'[m] \/ answer'[m] = "owed" => queue'[m] # <<>>
    BY DEF AirInv
  <2>1. CASE m = n
    BY <2>1, <1>2, <1>5, <1>9
  <2>2. CASE m # n
    <3>1. onAir'[m] = onAir[m]
      BY <2>2, <1>5 DEF PathInv, TypeInv
    <3> QED
      BY <2>2, <3>1, <1>5, <1>9 DEF PathInv, AirInv
  <2> QED
    BY <2>1, <2>2
<1>17. QueueInv'
  <2>1. \A k \in DOMAIN registry : k \in DOMAIN registry' /\ LastNode(k)' = LastNode(k)
    BY <1>7, <1>10 DEF LastNode
  <2> QED
    BY <2>1, <1>5 DEF PathInv, QueueInv, CameFor
<1> QED
  BY <1>11, <1>12, <1>13, <1>14, <1>15, <1>16, <1>17 DEF PathInv

(* What is heard at a relay came for it.                                   *)
LEMMA PathInvHear ==
  ASSUME PathInv, NEW n \in C2, HearAtRelay(n)
  PROVE  PathInv'
<1> DEFINE relay == NextHop[n]
           id == Lookup(n, counter[n])
<1>1. /\ onAir[n] /\ relay \in C2 /\ now' = now + 1
      /\ onAir' = [onAir EXCEPT ![n] = FALSE] /\ answer' = [answer EXCEPT ![n] = "owed"]
      /\ queue' = queue \/ queue' = [queue EXCEPT ![relay] = Append(@, id)]
      /\ UNCHANGED <<counter, nextId, keyToId, registry, chain, acked>>
  BY DEF HearAtRelay, lifeVars
<1>2. id \in Nat /\ CameFor(id, relay)
  <2>1. counter[n] \in DOMAIN keyToId[n] /\ id = keyToId[n][counter[n]]
    BY <1>1 DEF PathInv, AirInv, Lookup
  <2>2. id \in DOMAIN acked[n]
    BY <2>1 DEF PathInv, KeyInv
  <2>3. id \in DOMAIN registry /\ LastNode(id) = n
    BY <2>2 DEF PathInv, CountedInv
  <2> QED
    BY <2>3 DEF PathInv, RegistryInv, CameFor
<1> HIDE DEF relay, id
<1>3. ASSUME NEW m \in C2
      PROVE  /\ queue'[m] \in Seq(Nat)
             /\ queue[m] # <<>> => queue'[m] # <<>>
             /\ \A i \in 1..Len(queue'[m]) : queue'[m][i] = NoId \/ CameFor(queue'[m][i], m)
  <2>1. queue[m] \in Seq(Nat)
        /\ \A i \in 1..Len(queue[m]) : queue[m][i] = NoId \/ CameFor(queue[m][i], m)
    BY DEF PathInv, TypeInv, QueueInv
  <2>2. CASE queue'[m] = queue[m]
    BY <2>1, <2>2
  <2>3. CASE queue'[m] # queue[m]
    <3>1. m = relay /\ queue'[m] = Append(queue[m], id)
      BY <2>3, <1>1 DEF PathInv, TypeInv
    <3>2. /\ queue'[m] \in Seq(Nat) /\ queue'[m] # <<>>
          /\ Len(queue'[m]) = Len(queue[m]) + 1 /\ Len(queue[m]) \in Nat
          /\ \A i \in 1..Len(queue[m]) : queue'[m][i] = queue[m][i]
          /\ queue'[m][Len(queue[m]) + 1] = id
      BY <2>1, <3>1, <1>2, AppendProperties, LenProperties
    <3>3. \A i \in 1..(Len(queue[m]) + 1) : i \in 1..Len(queue[m]) \/ i = Len(queue[m]) + 1
      BY <3>2
    <3> QED
      BY <2>1, <3>1, <3>2, <3>3, <1>2
  <2> QED
    BY <2>2, <2>3
<1>4. TypeInv'
  <2>1. DOMAIN queue' = C2 /\ queue' = [m \in C2 |-> queue'[m]]
    BY <1>1 DEF PathInv, TypeInv
  <2>2. queue' \in [C2 -> Seq(Nat)]
    BY <2>1, <1>3
  <2> QED
    BY <2>2, <1>1 DEF PathInv, TypeInv
<1>5. AirInv'
  <2> SUFFICES ASSUME NEW m \in C2
               PROVE  /\ onAir'[m] => answer'[m] = "none" /\ counter'[m] \in DOMAIN keyToId'[m]
                      /\ onAir'[m] \/ answer'[m] = "owed" => queue'[m] # <<>>
    BY DEF AirInv
  <2>1. CASE m = n
    <3>1. ~onAir'[m] /\ queue[m] # <<>>
      BY <2>1, <1>1 DEF PathInv, TypeInv, AirInv
    <3> QED
      BY <3>1, <1>3
  <2>2. CASE m # n
    <3>1. onAir'[m] = onAir[m] /\ answer'[m] = answer[m]
      BY <2>2, <1>1 DEF PathInv, TypeInv
    <3> QED
      BY <3>1, <1>1, <1>3 DEF PathInv, AirInv
  <2> QED
    BY <2>1, <2>2
<1>6. QueueInv'
  BY <1>1, <1>3 DEF QueueInv, CameFor, LastNode
<1>7. now' \in Nat /\ now' >= now
  BY <1>1 DEF PathInv, TypeInv
<1> QED
  BY <1>1, <1>4, <1>5, <1>6, <1>7, PathInvKept

(* What is lost, answered or delivered leaves the queues or their heads.   *)
LEMMA PathInvAir ==
  ASSUME PathInv, NEW n \in C2, Lose(n) \/ LoseAck(n) \/ DeliverToC3(n)
  PROVE  PathInv'
<1>1. /\ now' = now \/ now' = now + 1
      /\ onAir' = onAir \/ onAir' = [onAir EXCEPT ![n] = FALSE]
      /\ answer' = answer \/ answer' = [answer EXCEPT ![n] = "none"]
         \/ (answer' = [answer EXCEPT ![n] = "owed"] /\ onAir[n] /\ ~onAir'[n])
      /\ UNCHANGED <<queue, counter, nextId, keyToId, registry, chain, acked>>
  <2>1. CASE Lose(n)
    BY <2>1 DEF Lose, lifeVars
  <2>2. CASE LoseAck(n)
    BY <2>2 DEF LoseAck, lifeVars
  <2>3. CASE DeliverToC3(n)
    <3>1. /\ now' = now + 1 /\ answer' = [answer EXCEPT ![n] = "owed"] /\ onAir[n]
          /\ onAir' = [onAir EXCEPT ![n] = FALSE]
          /\ UNCHANGED <<queue, counter, nextId, keyToId, registry, chain, acked>>
      BY <2>3 DEF DeliverToC3, lifeVars
    <3>2. ~onAir'[n]
      BY <3>1 DEF PathInv, TypeInv
    <3> QED
      BY <3>1, <3>2
  <2> QED
    BY <2>1, <2>2, <2>3
<1>2. TypeInv'
  <2>1. onAir' \in [C2 -> BOOLEAN]
    BY <1>1 DEF PathInv, TypeInv
  <2>2. answer' \in [C2 -> {"none", "owed"}]
    BY <1>1 DEF PathInv, TypeInv
  <2> QED
    BY <2>1, <2>2, <1>1 DEF PathInv, TypeInv
<1>3. AirInv'
  <2> SUFFICES ASSUME NEW m \in C2
               PROVE  /\ onAir'[m] => answer'[m] = "none" /\ counter'[m] \in DOMAIN keyToId'[m]
                      /\ onAir'[m] \/ answer'[m] = "owed" => queue'[m] # <<>>
    BY DEF AirInv
  <2>1. onAir'[m] => onAir[m]
    <3>1. CASE onAir' = onAir
      BY <3>1
    <3>2. CASE onAir' = [onAir EXCEPT ![n] = FALSE]
      BY <3>2 DEF PathInv, TypeInv
    <3> QED
      BY <3>1, <3>2, <1>1
  <2>2. answer'[m] = "owed" => answer[m] = "owed" \/ (onAir[m] /\ ~onAir'[m])
    BY <1>1 DEF PathInv, TypeInv
  <2>3. answer'[m] = "none" \/ answer'[m] = "owed"
    BY <1>2 DEF TypeInv
  <2> QED
    BY <2>1, <2>2, <2>3, <1>1 DEF PathInv, AirInv
<1>4. QueueInv'
  BY <1>1 DEF PathInv, QueueInv, CameFor, LastNode
<1>5. now' \in Nat /\ now' >= now
  BY <1>1 DEF PathInv, TypeInv
<1> QED
  BY <1>1, <1>2, <1>3, <1>4, <1>5, PathInvKept

(* An answer takes the head off the queue, and its key is not used again.  *)
LEMMA PathInvAck ==
  ASSUME PathInv, NEW n \in C2, HearAck(n)
  PROVE  PathInv'
<1>1. /\ answer[n] = "owed" /\ answer' = [answer EXCEPT ![n] = "none"]
      /\ acked' = RecordAck(n, Lookup(n, counter[n]))
      /\ queue' = [queue EXCEPT ![n] = Tail(@)]
      /\ counter' = [counter EXCEPT ![n] = @ + 1]
      /\ UNCHANGED <<now, onAir, nextId, keyToId, registry, chain>>
  BY DEF HearAck
<1>2. queue[n] \in Seq(Nat) /\ queue[n] # <<>> /\ ~onAir[n]
  BY <1>1 DEF PathInv, TypeInv, AirInv
<1>3. /\ Tail(queue[n]) \in Seq(Nat) /\ Len(Tail(queue[n])) = Len(queue[n]) - 1
      /\ Len(queue[n]) \in Nat
      /\ \A i \in 1..Len(Tail(queue[n])) : Tail(queue[n])[i] = queue[n][i + 1]
  BY <1>2, HeadTailProperties, LenProperties
<1>4. DOMAIN acked' = C2 /\ \A m \in C2 : DOMAIN acked'[m] = DOMAIN acked[m]
  BY <1>1 DEF RecordAck, PathInv, TypeInv
<1>5. TypeInv'
  BY <1>1, <1>3, <1>4 DEF PathInv, TypeInv
<1>6. AirInv'
  <2> SUFFICES ASSUME NEW m \in C2
               PROVE  /\ onAir'[m] => answer'[m] = "none" /\ counter'[m] \in DOMAIN keyToId'[m]
                      /\ onAir'[m] \/ answer'[m] = "owed" => queue'[m] # <<>>
    BY DEF AirInv
  <2>1. CASE m = n
    <3>1. ~onAir'[m] /\ answer'[m] = "none"
      BY <2>1, <1>1, <1>2 DEF PathInv, TypeInv
    <3> QED
      BY <3>1
  <2>2. CASE m # n
    <3>1. answer'[m] = answer[m] /\ queue'[m] = queue[m] /\ counter'[m] = counter[m]
      BY <2>2, <1>1 DEF PathInv, TypeInv
    <3> QED
      BY <3>1, <1>1 DEF PathInv, AirInv
  <2> QED
    BY <2>1, <2>2
<1>7. QueueInv'
  <2> SUFFICES ASSUME NEW m \in C2, NEW i \in 1..Len(queue'[m])
               PROVE  queue'[m][i] = NoId \/ CameFor(queue'[m][i], m)
    BY <1>1 DEF QueueInv, CameFor, LastNode
  <2>1. CASE m = n
    <3>1. queue'[m] = Tail(queue[n])
      BY <2>1, <1>1 DEF PathInv, TypeInv
    <3>2. i + 1 \in 1..Len(queue[n]) /\ queue'[m][i] = queue[n][i + 1]
      BY <3>1, <1>3
    <3> QED
      BY <2>1, <3>2 DEF PathInv, QueueInv
  <2>2. CASE m # n
    <3>1. queue'[m] = queue[m]
      BY <2>2, <1>1 DEF PathInv, TypeInv
    <3> QED
      BY <3>1 DEF PathInv, QueueInv
  <2> QED
    BY <2>1, <2>2
<1>8. now' \in Nat /\ now' >= now
  BY <1>1 DEF PathInv, TypeInv
<1> QED
  BY <1>1, <1>4, <1>5, <1>6, <1>7, <1>8, PathInvKept

(* Every step keeps PathInv: sampling, exporting and showing touch nothing *)
(* of it.                                                                  *)
LEMMA PathInvNext == PathInv /\ [Next]_vars => PathInv'
<1> SUFFICES ASSUME PathInv, [Next]_vars PROVE PathInv'
  OBVIOUS
<1>1. CASE \E n \in C2 : Radio(n)
  BY <1>1, PathInvTransmit, PathInvHear, PathInvAir, PathInvAck DEF Radio
<1>2. CASE SampleOnly \/ SampleAndExport
  <2>1. UNCHANGED <<now, radioVars, lifeVars>>
    BY <1>2 DEF SampleOnly, SampleAndExport, Sample
  <2> QED
    BY <2>1, PathInvStutters
<1>3. CASE UpdateNodePDR \/ AddLatencyRecords \/ AddEnergySamples
  <2>1. UNCHANGED <<now, radioVars, lifeVars>>
    BY <1>3 DEF UpdateNodePDR, AddLatencyRecords, AddEnergySamples, Receive
  <2> QED
    BY <2>1, PathInvStutters
<1>4. CASE UNCHANGED vars
  <2>1. UNCHANGED <<now, radioVars, lifeVars>>
    BY <1>4 DEF vars
  <2> QED
    BY <2>1, PathInvStutters
<1> QED
  BY <1>1, <1>2, <1>3, <1>4 DEF Next

(* The path that the registry has of a packet is the chain of the          *)
(* transmissions that carried it, whatever the routing, the losses and the *)
(* repetitions, and although keys are overwritten on the way.              *)
THEOREM PathsFollowChainAlways == Spec => []PathsFollowChain
<1>1. Spec => []PathInv
  BY PathInvInit, PathInvNext, PTL DEF Spec
<1> QED
  BY <1>1, PathInvSuffices, PTL
-------------------------------------------------------------------------------
(* The records that a delivery leaves.                                     *)

Record == [packetId : Nat, latency_ms : Int, originTimestamp : Nat, deliveryTimestamp : Nat]

(* A record of the same delivery as r, for this hop of the packet's path.  *)
SameDelivery(r, hop, s) ==
  /\ s.packetId = r.packetId
  /\ s.deliveryTimestamp = r.deliveryTimestamp
  /\ s.originTimestamp = hop.time
  /\ s.latency_ms = s.deliveryTimestamp - s.originTimestamp

(* There is one such record, and no second one.                            *)
OneRecord(records, r, hop) ==
  \E k \in 1..Len(records) :
    /\ SameDelivery(r, hop, records[k])
    /\ \A l \in 1..Len(records) : SameDelivery(r, hop, records[l]) => l = k

(* That every record comes with those of the other hops, and that none is  *)
(* from the future: the records of the next delivery are told apart.       *)
DeliveryInv ==
  /\ latency \in [C2 -> Seq(Record)]
  /\ \A n \in C2 : \A i \in 1..Len(latency[n]) :
       LET r == latency[n][i]
       IN /\ r.packetId \in DOMAIN registry /\ r.deliveryTimestamp <= now
          /\ \A j \in 1..Len(registry[r.packetId]) :
               LET hop == registry[r.packetId][j]
               IN OneRecord(latency[hop.node], r, hop)

(* A value that a sequence has in exactly one place.                       *)
HappensOnce(s, x) ==
  \E k \in 1..Len(s) : s[k] = x /\ \A l \in 1..Len(s) : s[l] = x => l = k

(* What the i-th hop of a path adds to the times of node m, and what the   *)
(* times are after the first n hops.                                       *)
Piece(path, m, i) == IF path[i].node = m THEN <<path[i].time>> ELSE <<>>

Timed(s, path, m, n) ==
  /\ s \in Seq(Nat)
  /\ n > 0 => \A k \in 1..Len(s) : s[k] <= path[n].time
  /\ n = 0 => s = <<>>
  /\ \A j \in 1..n : path[j].node = m => HappensOnce(s, path[j].time)

(* One hop more.                                                           *)
LEMMA TimesStep ==
  ASSUME NEW path, NEW t \in Nat, PathUntil(path, t), NEW m,
         NEW n \in Nat, n + 1 <= Len(path), NEW s, Timed(s, path, m, n)
  PROVE  Timed(s \o Piece(path, m, n + 1), path, m, n + 1)
<1> DEFINE x == path[n + 1].time
           len == Len(path)
<1>1. path \in Seq(Hop) /\ len \in Nat
  BY LenProperties DEF PathUntil
<1>2. \A j \in 1..len : path[j].time \in Nat
  BY <1>1, HopIs
<1>3. s \in Seq(Nat) /\ Len(s) \in Nat /\ \A k \in 1..Len(s) : s[k] \in Nat
  BY LenProperties, ElementOfSeq DEF Timed
<1>4. n > 0 => path[n].time < x
  <2> SUFFICES ASSUME n > 0 PROVE path[n].time < x
    OBVIOUS
  <2>1. n + 1 \in 2..Len(path) /\ (n + 1) - 1 = n
    BY <1>1
  <2>2. path[n + 1].time > path[(n + 1) - 1].time
    BY <2>1 DEF PathUntil
  <2>3. path[n].time \in Nat /\ path[n + 1].time \in Nat
    BY <2>1, <1>1, <1>2
  <2> QED
    BY <2>1, <2>2, <2>3
<1>5. x \in Nat
  BY <1>1, <1>2
<1>6. \A k \in 1..Len(s) : s[k] < x
  <2>1. CASE n = 0
    BY <2>1, EmptySeq DEF Timed
  <2>2. CASE n > 0
    <3>1. path[n].time \in Nat
      BY <1>1, <1>2, <2>2
    <3>2. \A k \in 1..Len(s) : s[k] <= path[n].time
      BY <2>2 DEF Timed
    <3> QED
      BY <2>2, <3>1, <3>2, <1>3, <1>4, <1>5
  <2> QED
    BY <2>1, <2>2
<1>7. CASE path[n + 1].node # m
  <2>1. s \o Piece(path, m, n + 1) = s
    BY <1>3, <1>7, ConcatEmptySeq DEF Piece
  <2>2. \A j \in 1..(n + 1) : path[j].node = m => j \in 1..n
    BY <1>7
  <2>3. \A k \in 1..Len(s) : s[k] <= x
    BY <1>3, <1>5, <1>6
  <2> HIDE DEF x
  <2>4. \A j \in 1..(n + 1) : path[j].node = m => HappensOnce(s, path[j].time)
    BY <2>2 DEF Timed
  <2>5. n + 1 # 0
    OBVIOUS
  <2> QED
    BY <1>3, <2>1, <2>3, <2>4, <2>5 DEF Timed, x
<1>8. CASE path[n + 1].node = m
  <2> DEFINE u == Append(s, x)
  <2>1. s \o Piece(path, m, n + 1) = u
    BY <1>3, <1>5, <1>8, AppendIsConcat DEF Piece
  <2>2. /\ u \in Seq(Nat) /\ Len(u) = Len(s) + 1 /\ u[Len(s) + 1] = x
        /\ \A k \in 1..Len(s) : u[k] = s[k]
    BY <1>3, <1>5, AppendProperties
  <2> HIDE DEF u, x
  <2>8. \A k \in 1..Len(u) : k \in 1..Len(s) \/ k = Len(s) + 1
    <3> DEFINE L == Len(s)
    <3>1. L \in Nat /\ Len(u) = L + 1
      BY <1>3, <2>2
    <3> HIDE DEF L
    <3>2. \A k \in 1..(L + 1) : k \in 1..L \/ k = L + 1
      BY <3>1
    <3> QED
      BY <3>1, <3>2 DEF L
  <2>9. \A k \in 1..Len(s) : u[k] < x /\ u[k] \in Nat
    BY <1>3, <1>6, <2>2
  <2>3. \A k \in 1..Len(u) : u[k] <= x
    <3> SUFFICES ASSUME NEW k \in 1..Len(u) PROVE u[k] <= x
      OBVIOUS
    <3>1. CASE k \in 1..Len(s)
      BY <3>1, <2>9, <1>5
    <3>2. CASE k = Len(s) + 1
      BY <3>2, <2>2, <1>5
    <3> QED
      BY <3>1, <3>2, <2>8
  <2>4. HappensOnce(u, x)
    <3>1. Len(s) + 1 \in 1..Len(u)
      BY <1>3, <2>2
    <3>2. \A l \in 1..Len(s) : u[l] # x
      BY <2>9, <1>5
    <3>3. \A l \in 1..Len(u) : u[l] = x => l = Len(s) + 1
      BY <3>2, <2>8
    <3> QED
      BY <2>2, <3>1, <3>3 DEF HappensOnce
  <2>5. ASSUME NEW j \in 1..n, path[j].node = m PROVE HappensOnce(u, path[j].time)
    <3>1. PICK k \in 1..Len(s) : /\ s[k] = path[j].time
                                 /\ \A l \in 1..Len(s) : s[l] = path[j].time => l = k
      BY <2>5 DEF Timed, HappensOnce
    <3>2. k \in 1..Len(u) /\ u[k] = path[j].time
      BY <1>3, <2>2, <3>1
    <3>3. ASSUME NEW l \in 1..Len(u), u[l] = path[j].time PROVE l = k
      <4>1. s[k] < x /\ s[k] \in Nat
        BY <1>3, <1>6
      <4>2. u[l] # x
        BY <3>1, <3>3, <4>1, <1>5
      <4>3. l \in 1..Len(s)
        BY <2>2, <2>8, <4>2
      <4> QED
        BY <2>2, <3>1, <3>3, <4>3
    <3> QED
      BY <3>2, <3>3 DEF HappensOnce
  <2>6. \A j \in 1..(n + 1) : path[j].node = m => HappensOnce(u, path[j].time)
    <3>1. \A j \in 1..(n + 1) : j \in 1..n \/ j = n + 1
      OBVIOUS
    <3>2. HappensOnce(u, path[n + 1].time)
      BY <2>4 DEF x
    <3> QED
      BY <2>5, <3>1, <3>2
  <2>7. n + 1 # 0
    OBVIOUS
  <2> QED
    BY <2>1, <2>2, <2>3, <2>6, <2>7 DEF Timed, x
<1> QED
  BY <1>7, <1>8

(* The times of a node along a whole path: each of its hops once.          *)
LEMMA TimesAre ==
  ASSUME NEW path, NEW t \in Nat, PathUntil(path, t), NEW m \in C2
  PROVE  Timed(TimesOnPath(path)[m], path, m, Len(path))
<1> DEFINE pieces == [i \in 1..Len(path) |-> Piece(path, m, i)]
<1>1. path \in Seq(Hop) /\ Len(path) \in Nat /\ DOMAIN path = 1..Len(path)
  BY LenProperties DEF PathUntil
<1>2. pieces \in Seq(Seq(Nat)) /\ Len(pieces) = Len(path)
  <2>1. \A i \in 1..Len(path) : Piece(path, m, i) \in Seq(Nat)
    BY <1>1, HopIs DEF Piece
  <2> QED
    BY <1>1, <2>1
<1>3. TimesOnPath(path)[m] = FlattenSeq(pieces)
  BY <1>1 DEF TimesOnPath, Piece
<1>4. \A i \in 1..Len(path) : pieces[i] = Piece(path, m, i)
  OBVIOUS
<1> HIDE DEF pieces
<1> DEFINE P(n) == n <= Len(path) => Timed(FlattenSeq(Prefix(pieces, n)), path, m, n)
           T == {n \in Nat : P(n)}
<1>5. 0 \in T
  <2>1. FlattenSeq(Prefix(pieces, 0)) = <<>>
    BY <1>2, PrefixGrows, FlattenEmpty
  <2>2. Timed(<<>>, path, m, 0)
    <3>1. <<>> \in Seq(Nat)
      OBVIOUS
    <3>2. ~(0 > 0) /\ \A j \in 1..0 : FALSE
      OBVIOUS
    <3> QED
      BY <3>1, <3>2 DEF Timed
  <2> QED
    BY <2>1, <2>2
<1>6. ASSUME NEW n \in T PROVE n + 1 \in T
  <2> SUFFICES ASSUME n + 1 <= Len(path)
               PROVE  Timed(FlattenSeq(Prefix(pieces, n + 1)), path, m, n + 1)
    OBVIOUS
  <2>0. n \in Nat
    OBVIOUS
  <2>1. n \in 0..Len(pieces) /\ n + 1 \in 1..Len(pieces) /\ (n + 1) - 1 = n
    BY <1>1, <1>2
  <2>2. Timed(FlattenSeq(Prefix(pieces, n)), path, m, n)
    BY <1>1
  <2> HIDE DEF T
  <2>3. Prefix(pieces, n) \in Seq(Seq(Nat)) /\ pieces[n + 1] \in Seq(Nat)
        /\ Prefix(pieces, n + 1) = Append(Prefix(pieces, n), pieces[n + 1])
    BY <1>2, <2>1, PrefixGrows, ElementOfSeq
  <2>4. FlattenSeq(Prefix(pieces, n + 1))
          = FlattenSeq(Prefix(pieces, n)) \o Piece(path, m, n + 1)
    BY <1>2, <1>4, <2>1, <2>3, FlattenAppend
  <2> QED
    BY <2>0, <2>2, <2>4, TimesStep
<1>7. T = Nat
  <2> HIDE DEF T
  <2>1. T \in SUBSET Nat
    BY DEF T
  <2> QED
    BY <1>5, <1>6, <2>1, Induction
<1>8. Len(path) \in T /\ Prefix(pieces, Len(path)) = pieces
  BY <1>1, <1>2, <1>7, PrefixGrows
<1> QED
  BY <1>3, <1>8

-------------------------------------------------------------------------------
(* DeliveryInv is inductive.                                               *)

(* The records of a delivery at one node.                                  *)
LEMMA DeliveriesAre ==
  ASSUME NEW id \in Nat, NEW times \in Seq(Nat), NEW at \in Nat
  PROVE  /\ Deliveries(id, times, at) \in Seq(Record)
         /\ Len(Deliveries(id, times, at)) = Len(times)
         /\ \A i \in 1..Len(times) :
              LET r == Deliveries(id, times, at)[i]
              IN /\ r.packetId = id /\ r.latency_ms = at - times[i]
                 /\ r.originTimestamp = times[i] /\ r.deliveryTimestamp = at
<1>1. Len(times) \in Nat /\ DOMAIN times = 1..Len(times)
  BY LenProperties
<1>2. \A i \in 1..Len(times) : times[i] \in Nat
  BY ElementOfSeq
<1> DEFINE Rec(i) == [packetId |-> id, latency_ms |-> at - times[i],
                      originTimestamp |-> times[i], deliveryTimestamp |-> at]
<1>3. Deliveries(id, times, at) = [i \in 1..Len(times) |-> Rec(i)]
  BY <1>1 DEF Deliveries
<1>4. \A i \in 1..Len(times) : Rec(i) \in Record
  BY <1>2 DEF Record
<1>5. \A i \in 1..Len(times) :
        /\ Rec(i).packetId = id /\ Rec(i).latency_ms = at - times[i]
        /\ Rec(i).originTimestamp = times[i] /\ Rec(i).deliveryTimestamp = at
  OBVIOUS
<1> HIDE DEF Rec
<1> QED
  BY <1>1, <1>3, <1>4, <1>5

(* What a record is.                                                       *)
LEMMA RecordIs ==
  ASSUME NEW s \in Seq(Record), NEW i \in 1..Len(s)
  PROVE  /\ s[i].packetId \in Nat /\ s[i].deliveryTimestamp \in Nat
         /\ s[i].originTimestamp \in Nat /\ s[i].latency_ms \in Int
<1>1. s[i] \in Record
  BY ElementOfSeq
<1> QED
  BY <1>1 DEF Record

(* Old records that are told apart from the new ones: the same of an old   *)
(* delivery are still one.                                                 *)
LEMMA OldRecord ==
  ASSUME NEW records \in Seq(Record), NEW more \in Seq(Record), NEW r, NEW hop,
         OneRecord(records, r, hop),
         \A i \in 1..Len(more) : more[i].deliveryTimestamp # r.deliveryTimestamp
  PROVE  OneRecord(records \o more, r, hop)
<1>1. PICK k \in 1..Len(records) :
        /\ SameDelivery(r, hop, records[k])
        /\ \A l \in 1..Len(records) : SameDelivery(r, hop, records[l]) => l = k
  BY DEF OneRecord
<1> DEFINE a == Len(records)
           b == Len(more)
           all == records \o more
<1>2. /\ a \in Nat /\ b \in Nat /\ Len(all) = a + b
      /\ \A l \in 1..a : all[l] = records[l]
      /\ \A l \in 1..b : all[a + l] = more[l]
  BY LenProperties, ConcatProperties
<1>3. \A l \in 1..b : ~SameDelivery(r, hop, more[l])
  BY DEF SameDelivery
<1> HIDE DEF a, b, all
<1>4. k \in 1..(a + b) /\ k \in 1..a
  BY <1>1, <1>2 DEF a
<1>5. ASSUME NEW l \in 1..(a + b), SameDelivery(r, hop, all[l]) PROVE l = k
  <2>1. CASE l \in 1..a
    BY <2>1, <1>1, <1>2, <1>5 DEF a
  <2>2. CASE l \notin 1..a
    <3>1. l - a \in 1..b /\ a + (l - a) = l
      BY <2>2, <1>2
    <3> QED
      BY <3>1, <1>2, <1>3, <1>5
  <2> QED
    BY <2>1, <2>2
<1> QED
  BY <1>1, <1>2, <1>4, <1>5 DEF OneRecord, all

(* And a new delivery has one for each hop.                                *)
LEMMA NewRecord ==
  ASSUME NEW records \in Seq(Record), NEW times \in Seq(Nat), NEW id \in Nat, NEW at \in Nat,
         NEW r, r.packetId = id, r.deliveryTimestamp = at,
         NEW hop, HappensOnce(times, hop.time),
         \A i \in 1..Len(records) : records[i].deliveryTimestamp # at
  PROVE  OneRecord(records \o Deliveries(id, times, at), r, hop)
<1> DEFINE more == Deliveries(id, times, at)
           a == Len(records)
           b == Len(times)
           all == records \o more
<1>1. /\ more \in Seq(Record) /\ Len(more) = b
      /\ \A i \in 1..b : /\ more[i].packetId = id /\ more[i].latency_ms = at - times[i]
                         /\ more[i].originTimestamp = times[i] /\ more[i].deliveryTimestamp = at
  BY DeliveriesAre
<1> HIDE DEF more
<1>2. /\ a \in Nat /\ b \in Nat /\ Len(all) = a + b
      /\ \A l \in 1..a : all[l] = records[l]
      /\ \A l \in 1..b : all[a + l] = more[l]
  <2>1. more \in Seq(Record) /\ Len(more) = b
    BY <1>1
  <2>2. /\ a \in Nat /\ Len(more) \in Nat /\ Len(all) = a + Len(more)
        /\ \A l \in 1..a : all[l] = records[l]
        /\ \A l \in 1..Len(more) : all[a + l] = more[l]
    <3>1. records \in Seq(Record) /\ more \in Seq(Record)
      BY <2>1
    <3> QED
      BY ONLY <3>1, ConcatParts
  <2> HIDE DEF a, b, all
  <2> QED
    BY <2>1, <2>2
<1>3. PICK k \in 1..b : /\ times[k] = hop.time
                       /\ \A l \in 1..b : times[l] = hop.time => l = k
  BY DEF HappensOnce
<1>4. SameDelivery(r, hop, more[k])
  BY <1>1, <1>3 DEF SameDelivery
<1>5. \A l \in 1..b : SameDelivery(r, hop, more[l]) => l = k
  BY <1>1, <1>3 DEF SameDelivery
<1>6. \A l \in 1..a : ~SameDelivery(r, hop, records[l])
  BY DEF SameDelivery
<1> HIDE DEF a, b, all
<1>7. a + k \in 1..(a + b)
  BY <1>2
<1>8. ASSUME NEW l \in 1..(a + b), SameDelivery(r, hop, all[l]) PROVE l = a + k
  <2>1. CASE l \in 1..a
    BY <2>1, <1>2, <1>6, <1>8
  <2>2. CASE l \notin 1..a
    <3>1. l - a \in 1..b /\ a + (l - a) = l
      BY <2>2, <1>2
    <3>2. l - a = k
      BY <3>1, <1>2, <1>5, <1>8
    <3> QED
      BY <3>1, <3>2
  <2> QED
    BY <2>1, <2>2
<1>9. SameDelivery(r, hop, all[a + k])
  BY <1>2, <1>4
<1> QED
  BY <1>2, <1>7, <1>8, <1>9 DEF OneRecord, all, more

(* Steps that deliver nothing, and change no path there is.                *)
LEMMA DeliveryInvKept ==
  ASSUME PathInv, DeliveryInv, UNCHANGED latency, now' \in Nat, now' >= now,
         \A id \in DOMAIN registry : id \in DOMAIN registry' /\ registry'[id] = registry[id]
  PROVE  DeliveryInv'
<1>1. latency \in [C2 -> Seq(Record)] /\ now \in Nat
  BY DEF DeliveryInv, PathInv, TypeInv
<1>2. ASSUME NEW n \in C2, NEW i \in 1..Len(latency[n])
      PROVE  latency[n][i].deliveryTimestamp <= now'
  <2>1. latency[n][i].deliveryTimestamp \in Nat
    BY <1>1, RecordIs
  <2>2. latency[n][i].deliveryTimestamp <= now
    BY DEF DeliveryInv
  <2> QED
    BY <2>1, <2>2, <1>1
<1> QED
  BY <1>1, <1>2 DEF DeliveryInv

(* A delivery.                                                             *)
LEMMA DeliveryInvDeliver ==
  ASSUME PathInv, DeliveryInv, NEW n \in C2, DeliverToC3(n)
  PROVE  DeliveryInv'
<1> DEFINE id == Lookup(n, counter[n])
           times == TimesOnPath(registry[id])
           at == now + 1
           Add(m) == Deliveries(id, times[m], at)
<1>1. now \in Nat /\ at \in Nat /\ now' = at /\ registry' = registry
  BY DEF DeliverToC3, lifeVars, PathInv, TypeInv
<1>2. latency \in [C2 -> Seq(Record)]
  BY DEF DeliveryInv
<1>3. CASE id \notin DOMAIN registry
  <2>1. latency' = latency
    BY <1>3 DEF DeliverToC3
  <2>2. at >= now
    BY <1>1
  <2> HIDE DEF id, times, at
  <2> QED
    BY <2>1, <2>2, <1>1, DeliveryInvKept
<1>4. CASE id \in DOMAIN registry
  <2>1. latency' = [m \in C2 |-> latency[m] \o Add(m)]
    BY <1>4, <1>1 DEF DeliverToC3
  <2>2. PathUntil(registry[id], now) /\ id \in Nat
    BY <1>4 DEF PathInv, RegistryInv
  <2> DEFINE path == registry[id]
  <2>3. ASSUME NEW m \in C2 PROVE Timed(times[m], path, m, Len(path))
    BY <1>1, <2>2, TimesAre
  <2> HIDE DEF id, times, at
  <2>4. ASSUME NEW m \in C2
        PROVE  /\ Add(m) \in Seq(Record) /\ Len(Add(m)) = Len(times[m])
               /\ \A i \in 1..Len(Add(m)) : /\ Add(m)[i].packetId = id
                                           /\ Add(m)[i].deliveryTimestamp = at
    <3>1. times[m] \in Seq(Nat)
      BY <2>3 DEF Timed
    <3> QED
      BY <3>1, <1>1, <2>2, DeliveriesAre
  <2> HIDE DEF Add
  <2>5. ASSUME NEW m \in C2
        PROVE  /\ latency'[m] = latency[m] \o Add(m)
               /\ latency[m] \in Seq(Record) /\ latency'[m] \in Seq(Record)
               /\ Len(latency'[m]) = Len(latency[m]) + Len(Add(m))
               /\ Len(latency[m]) \in Nat /\ Len(Add(m)) \in Nat
               /\ \A i \in 1..Len(latency[m]) : latency'[m][i] = latency[m][i]
               /\ \A i \in 1..Len(Add(m)) : latency'[m][Len(latency[m]) + i] = Add(m)[i]
    <3>1. latency'[m] = latency[m] \o Add(m) /\ latency[m] \in Seq(Record)
      BY <1>2, <2>1
    <3> QED
      BY <3>1, <2>4, ConcatProperties, LenProperties
  <2>6. \A m \in C2 : \A i \in 1..Len(latency[m]) :
          /\ latency[m][i].deliveryTimestamp # at
          /\ latency[m][i].deliveryTimestamp <= at
    <3> SUFFICES ASSUME NEW m \in C2, NEW i \in 1..Len(latency[m])
                 PROVE  /\ latency[m][i].deliveryTimestamp # at
                        /\ latency[m][i].deliveryTimestamp <= at
      OBVIOUS
    <3>1. latency[m][i].deliveryTimestamp \in Nat
      BY <2>5, RecordIs
    <3>2. latency[m][i].deliveryTimestamp <= now
      BY DEF DeliveryInv
    <3> QED
      BY <3>1, <3>2, <1>1 DEF at
  <2>7. \A j \in 1..Len(path) :
          path[j].node \in C2 /\ HappensOnce(times[path[j].node], path[j].time)
    <3> SUFFICES ASSUME NEW j \in 1..Len(path)
                 PROVE  path[j].node \in C2 /\ HappensOnce(times[path[j].node], path[j].time)
      OBVIOUS
    <3>1. path[j].node \in C2
      BY <2>2, HopIs DEF PathUntil
    <3> QED
      BY <3>1, <2>3 DEF Timed
  <2> DEFINE Good(r) == /\ r.packetId \in DOMAIN registry' /\ r.deliveryTimestamp <= now'
                        /\ \A j \in 1..Len(registry'[r.packetId]) :
                             LET hop == registry'[r.packetId][j]
                             IN OneRecord(latency'[hop.node], r, hop)
  <2>8. ASSUME NEW m \in C2, NEW i \in 1..Len(latency[m]) PROVE Good(latency[m][i])
    <3> DEFINE r == latency[m][i]
    <3>1. r.packetId \in DOMAIN registry /\ r.deliveryTimestamp <= at /\ r.deliveryTimestamp # at
      BY <2>6 DEF DeliveryInv
    <3>2. ASSUME NEW j \in 1..Len(registry[r.packetId])
          PROVE  OneRecord(latency'[registry[r.packetId][j].node], r, registry[r.packetId][j])
      <4> DEFINE hop == registry[r.packetId][j]
      <4>1. OneRecord(latency[hop.node], r, hop)
        BY <3>2 DEF DeliveryInv
      <4>2. hop.node \in C2
        BY <3>1, <3>2, HopIs DEF PathInv, RegistryInv, PathUntil
      <4> HIDE DEF hop, r
      <4>3. \A k \in 1..Len(Add(hop.node)) :
              Add(hop.node)[k].deliveryTimestamp # r.deliveryTimestamp
        BY <2>4, <3>1, <4>2
      <4>4. OneRecord(latency[hop.node] \o Add(hop.node), r, hop)
        BY <4>1, <4>2, <4>3, <2>4, <2>5, OldRecord
      <4> QED
        BY <4>2, <4>4, <2>5 DEF hop
    <3> HIDE DEF r
    <3> QED
      BY <3>1, <3>2, <1>1 DEF r
  <2>9. ASSUME NEW m \in C2, NEW i \in 1..Len(Add(m)) PROVE Good(Add(m)[i])
    <3> DEFINE r == Add(m)[i]
    <3>1. r.packetId = id /\ r.deliveryTimestamp = at
      BY <2>4
    <3> HIDE DEF r
    <3>2. ASSUME NEW j \in 1..Len(path)
          PROVE  OneRecord(latency'[path[j].node], r, path[j])
      <4> DEFINE hop == path[j]
      <4>1. hop.node \in C2 /\ HappensOnce(times[hop.node], hop.time)
        BY <2>7
      <4> HIDE DEF hop, path
      <4>2. times[hop.node] \in Seq(Nat)
        BY <2>3, <4>1 DEF Timed
      <4>3. /\ latency[hop.node] \in Seq(Record)
            /\ \A k \in 1..Len(latency[hop.node]) : latency[hop.node][k].deliveryTimestamp # at
        BY <2>5, <2>6, <4>1
      <4>4. OneRecord(latency[hop.node] \o Add(hop.node), r, hop)
        <5> DEFINE records == latency[hop.node]
                   own == times[hop.node]
        <5>1. /\ records \in Seq(Record) /\ own \in Seq(Nat)
              /\ \A k \in 1..Len(records) : records[k].deliveryTimestamp # at
          BY <4>2, <4>3
        <5>2. HappensOnce(own, hop.time)
          BY <4>1
        <5> HIDE DEF records, own, Good
        <5>3. OneRecord(records \o Deliveries(id, own, at), r, hop)
          BY <1>1, <2>2, <3>1, <5>1, <5>2, NewRecord
        <5> QED
          BY <5>3 DEF records, own, Add
      <4> QED
        BY <2>5, <4>1, <4>4 DEF hop
    <3>3. at <= at
      BY <1>1
    <3> QED
      BY <1>1, <1>4, <3>1, <3>2, <3>3 DEF r, path, id
  <2>10. ASSUME NEW m \in C2, NEW i \in 1..Len(latency'[m]) PROVE Good(latency'[m][i])
    <3> HIDE DEF Good
    <3>1. CASE i \in 1..Len(latency[m])
      BY <3>1, <2>5, <2>8
    <3>2. CASE i \notin 1..Len(latency[m])
      <4> DEFINE a == Len(latency[m])
                 b == Len(Add(m))
      <4>1. a \in Nat /\ b \in Nat /\ i \in 1..(a + b) /\ i \notin 1..a
        BY <3>2, <2>5
      <4> HIDE DEF a, b
      <4>2. i - a \in 1..b /\ a + (i - a) = i
        BY <4>1
      <4>3. latency'[m][i] = Add(m)[i - a]
        BY <4>2, <2>5 DEF a, b
      <4> QED
        BY <4>2, <4>3, <2>9 DEF b
    <3> QED
      BY <3>1, <3>2
  <2>11. latency' \in [C2 -> Seq(Record)]
    <3>1. DOMAIN latency' = C2 /\ latency' = [m \in C2 |-> latency'[m]]
      BY <2>1
    <3> QED
      BY <3>1, <2>5
  <2> QED
    BY <2>10, <2>11 DEF DeliveryInv
<1> QED
  BY <1>3, <1>4

(* Every step.                                                             *)
LEMMA DeliveryInvNext ==
  ASSUME PathInv, DeliveryInv, [Next]_vars
  PROVE  DeliveryInv'
<1>0. now \in Nat
  BY DEF PathInv, TypeInv
<1>1. ASSUME UNCHANGED <<latency, registry>>, now' = now \/ now' = now + 1 PROVE DeliveryInv'
  BY <1>0, <1>1, DeliveryInvKept
<1>2. ASSUME NEW n \in C2, TransmitData(n) PROVE DeliveryInv'
  <2>1. nextId \notin DOMAIN registry
    BY DEF PathInv, RegistryInv, TypeInv
  <2>2. UNCHANGED latency /\ now' = now + 1
    BY <1>2 DEF TransmitData, nodeVars
  <2>3. \A id \in DOMAIN registry : id \in DOMAIN registry' /\ registry'[id] = registry[id]
    <3>1. \/ registry' = registry
          \/ \E path : registry' = With(registry, nextId, path)
      BY <1>2 DEF TransmitData
    <3> QED
      BY <3>1, <2>1 DEF With
  <2> QED
    BY <1>0, <2>2, <2>3, DeliveryInvKept
<1>3. ASSUME NEW n \in C2, Lose(n) \/ HearAtRelay(n) \/ LoseAck(n) \/ HearAck(n)
      PROVE  DeliveryInv'
  BY <1>1, <1>3 DEF Lose, HearAtRelay, LoseAck, HearAck, nodeVars, lifeVars
<1>4. ASSUME SampleOnly \/ SampleAndExport PROVE DeliveryInv'
  BY <1>1, <1>4 DEF SampleOnly, SampleAndExport, Sample, lifeVars
<1>5. ASSUME UpdateNodePDR \/ AddLatencyRecords \/ AddEnergySamples PROVE DeliveryInv'
  BY <1>1, <1>5 DEF UpdateNodePDR, AddLatencyRecords, AddEnergySamples, Receive,
                    nodeVars, lifeVars
<1>6. CASE UNCHANGED vars
  BY <1>1, <1>6 DEF vars, nodeVars, lifeVars
<1> QED
  BY <1>2, <1>3, <1>4, <1>5, <1>6, DeliveryInvDeliver DEF Next, Radio

(* At the start nothing was delivered.                                     *)
LEMMA DeliveryInvInit == Init => DeliveryInv
BY DEF Init, DeliveryInv

(* What the invariant says of the delivery of a record.                    *)
LEMMA DeliveryInvSuffices == PathInv /\ DeliveryInv => LatencyShrinksOnPath
<1> SUFFICES ASSUME PathInv, DeliveryInv, NEW n \in C2, NEW i \in DOMAIN latency[n],
                    NEW j \in DOMAIN registry[latency[n][i].packetId]
             PROVE  LET r == latency[n][i]
                        hop == registry[r.packetId][j]
                    IN Cardinality({k \in DOMAIN latency[hop.node] :
                         LET s == latency[hop.node][k]
                         IN /\ s.packetId = r.packetId
                            /\ s.deliveryTimestamp = r.deliveryTimestamp
                            /\ s.originTimestamp = hop.time
                            /\ s.latency_ms = s.deliveryTimestamp - s.originTimestamp}) = 1
  BY DEF LatencyShrinksOnPath
<1> DEFINE r == latency[n][i]
           hop == registry[r.packetId][j]
           records == latency[hop.node]
           Same == {k \in DOMAIN records : SameDelivery(r, hop, records[k])}
<1>1. i \in 1..Len(latency[n])
  BY LenProperties DEF DeliveryInv
<1>2. r.packetId \in DOMAIN registry
  BY <1>1 DEF DeliveryInv
<1>3. registry[r.packetId] \in Seq(Hop)
  BY <1>2 DEF PathInv, RegistryInv, PathUntil
<1>4. j \in 1..Len(registry[r.packetId])
  BY <1>3, LenProperties
<1>5. OneRecord(records, r, hop)
  BY <1>1, <1>4 DEF DeliveryInv
<1>6. hop.node \in C2
  BY <1>3, <1>4, HopIs
<1>7. DOMAIN records = 1..Len(records)
  BY <1>6, LenProperties DEF DeliveryInv
<1>8. \E k : Same = {k}
  BY <1>5, <1>7 DEF OneRecord
<1>9. Cardinality(Same) = 1
  BY <1>8, FS_Singleton
<1> QED
  BY <1>9 DEF SameDelivery

(* The times a delivery leaves get shorter towards the gateway, whatever   *)
(* was lost, repeated or forwarded on the way.                             *)
THEOREM LatencyShrinksAlways == Spec => []LatencyShrinksOnPath
<1>1. Init => PathInv /\ DeliveryInv
  BY PathInvInit, DeliveryInvInit
<1>2. PathInv /\ DeliveryInv /\ [Next]_vars => (PathInv /\ DeliveryInv)'
  BY PathInvNext, DeliveryInvNext
<1>3. PathInv /\ DeliveryInv => LatencyShrinksOnPath
  BY DeliveryInvSuffices
<1> QED
  BY <1>1, <1>2, <1>3, PTL DEF Spec
-------------------------------------------------------------------------------
(* The packets of the export and what is read from them.                   *)

EnergySample == [tick : Nat, energy : Nat]

ListKinds == {"latency", "energy"}
Elements(kind) == IF kind = "latency" THEN Record ELSE EnergySample

Header == [tickNb : Nat, nodeId : C2]
CountsHeader == [tickNb : Nat, nodeId : C2, totalPacketsSent : Nat, totalAcksReceived : Nat]

(* What stands on the wire, and what the GUI makes of it.                  *)
Value == C2 \cup Int

IsCounts(packet) ==
  /\ packet[1] = 12
  /\ ReadTelemetry("nodeMetrics", packet) \in CountsHeader

IsList(packet, kind) ==
  /\ packet[1] = TelemetryType[kind]
  /\ ReadTelemetry(kind, packet) \in Header
  /\ ReadList(kind, packet) \in Seq(Elements(kind))

Packets ==
  {packet \in Seq(Value) : IsCounts(packet) \/ \E kind \in ListKinds : IsList(packet, kind)}

(* The fields of an element are those of the table.                        *)
LEMMA ElementFields ==
  ASSUME NEW kind \in ListKinds
  PROVE  /\ kind \in DOMAIN ElementsWritten
         /\ Elements(kind) \subseteq [Names(ElementsWritten[kind]) -> Value]
<1>1. CASE kind = "latency"
  <2> DEFINE E == ElementsWritten[kind]
  <2>1. E = <<"packetId", "latency_ms", "originTimestamp", "deliveryTimestamp">>
    BY <1>1 DEF ElementsWritten
  <2>2. Names(E) = {"packetId", "latency_ms", "originTimestamp", "deliveryTimestamp"}
    BY <2>1, ListOfFour DEF ListOf
  <2>3. Record \subseteq
          [{"packetId", "latency_ms", "originTimestamp", "deliveryTimestamp"} -> Value]
    BY DEF Record, Value
  <2> QED
    BY <1>1, <2>2, <2>3 DEF ElementsWritten, Elements
<1>2. CASE kind = "energy"
  <2> DEFINE E == ElementsWritten[kind]
  <2>1. E = <<"tick", "energy">>
    BY <1>2 DEF ElementsWritten
  <2>2. Names(E) = {"tick", "energy"}
    BY <2>1, ListOfTwo DEF ListOf
  <2>3. EnergySample \subseteq [{"tick", "energy"} -> Value]
    BY DEF EnergySample, Value
  <2> QED
    BY <1>2, <2>2, <2>3 DEF ElementsWritten, Elements
<1> QED
  BY <1>1, <1>2 DEF ListKinds

(* Reading goes no further than the fields that are read.                  *)
LEMMA ReadFieldsFirst ==
  ASSUME NEW fields, NEW packet, NEW more, NEW S, packet \in Seq(S), more \in Seq(S),
         NEW F, fields \in Seq(F), Len(packet) = 1 + Len(fields)
  PROVE  ReadFields(fields, packet \o more, 1) = ReadFields(fields, packet, 1)
<1>1. ASSUME NEW f \in Names(fields)
      PROVE  (packet \o more)[1 + Place(fields, f)] = packet[1 + Place(fields, f)]
  <2>1. Place(fields, f) \in 1..Len(fields)
    BY PlaceIsThere, LenProperties
  <2>2. 1 + Place(fields, f) \in 1..Len(packet)
    BY <2>1, LenProperties
  <2> QED
    BY <2>2, ConcatProperties
<1> QED
  BY <1>1 DEF ReadFields

(* What a list puts on the wire.                                           *)
LEMMA ElementsAreValues ==
  ASSUME NEW kind \in DOMAIN ElementsWritten,
         NEW v \in Seq([Names(ElementsWritten[kind]) -> Value])
  PROVE  WriteElements(ElementsWritten[kind], v) \in Seq(Value)
<1> DEFINE E == ElementsWritten[kind]
           w == Len(E)
<1>1. w \in {1, 2, 4} /\ DOMAIN E = 1 .. w
  BY ElementTablesAgree
<1>2. Len(v) \in Nat /\ \A i \in 1..Len(v) : v[i] \in [Names(E) -> Value]
  BY LenProperties, ElementOfSeq
<1> HIDE DEF E
<1>3. ASSUME NEW n \in 1 .. Len(v) * w
      PROVE  v[((n - 1) \div w) + 1][E[((n - 1) % w) + 1]] \in Value
  <2>1. ((n - 1) \div w) + 1 \in 1 .. Len(v) /\ ((n - 1) % w) + 1 \in 1 .. w
    <3>1. CASE w = 1
      BY <1>2, <3>1
    <3>2. CASE w = 2
      BY <1>2, <3>2
    <3>3. CASE w = 4
      BY <1>2, <3>3
    <3> QED
      BY <1>1, <3>1, <3>2, <3>3
  <2>2. E[((n - 1) % w) + 1] \in Names(E)
    BY <1>1, <2>1 DEF Names
  <2>3. v[((n - 1) \div w) + 1] \in [Names(E) -> Value]
    BY <1>2, <2>1
  <2> QED
    BY <2>2, <2>3
<1>4. Len(v) * w \in Nat
  BY <1>1, <1>2
<1> HIDE DEF w
<1>5. WriteElements(E, v) \in Seq(Value)
  BY <1>3, <1>4 DEF WriteElements, w
<1> QED
  BY <1>5 DEF E

(* A packet of counts.                                                     *)
LEMMA CountsRead ==
  ASSUME NEW p \in CountsHeader
  PROVE  /\ WriteTelemetry("nodeMetrics", p) \in Seq(Value)
         /\ WriteTelemetry("nodeMetrics", p)[1] = 12
         /\ ReadTelemetry("nodeMetrics", WriteTelemetry("nodeMetrics", p)) = p
<1>1. "nodeMetrics" \in DOMAIN TelemetryMembers /\ TelemetryType["nodeMetrics"] = 12
      /\ 12 \in Value
  BY DEF TelemetryMembers, TelemetryType, Value
<1>2. p \in [TelemetryMembers["nodeMetrics"] -> Value]
  <2>1. TelemetryMembers["nodeMetrics"]
          = {"tickNb", "nodeId", "totalPacketsSent", "totalAcksReceived"}
    BY DEF TelemetryMembers
  <2>2. CountsHeader \subseteq
          [{"tickNb", "nodeId", "totalPacketsSent", "totalAcksReceived"} -> Value]
    BY DEF CountsHeader, Value
  <2> QED
    BY <2>1, <2>2
<1>3. ReadTelemetry("nodeMetrics", WriteTelemetry("nodeMetrics", p)) = p
  BY <1>1, <1>2, TelemetryReadBack
<1>4. WriteFields(TelemetryWritten["nodeMetrics"], p) \in Seq(Value)
  BY <1>1, <1>2, TelemetryTablesAgree DEF ListOf, WriteFields
<1>5. <<12>> \in Seq(Value) /\ Len(<<12>>) = 1 /\ <<12>>[1] = 12
  BY <1>1
<1> DEFINE fields == WriteFields(TelemetryWritten["nodeMetrics"], p)
           tag == <<12>>
<1>6. tag \in Seq(Value) /\ fields \in Seq(Value) /\ 1 \in 1..Len(tag) /\ tag[1] = 12
  BY <1>4, <1>5
<1>7. WriteTelemetry("nodeMetrics", p) = tag \o fields
  BY <1>1 DEF WriteTelemetry
<1> HIDE DEF tag, fields
<1>8. tag \o fields \in Seq(Value) /\ (tag \o fields)[1] = 12
  BY <1>6, ConcatProperties
<1> QED
  BY <1>3, <1>7, <1>8

(* A packet with a list.                                                   *)
LEMMA ListRead ==
  ASSUME NEW kind \in ListKinds, NEW p \in Header, NEW v \in Seq(Elements(kind))
  PROVE  /\ WriteList(kind, p, v) \in Seq(Value)
         /\ WriteList(kind, p, v)[1] = TelemetryType[kind]
         /\ ReadTelemetry(kind, WriteList(kind, p, v)) = p
         /\ ReadList(kind, WriteList(kind, p, v)) = v
<1> DEFINE fields == WriteFields(TelemetryWritten[kind], p)
           tag == <<TelemetryType[kind]>>
           count == <<Len(v)>>
           elements == WriteElements(ElementsWritten[kind], v)
           head == tag \o fields
<1>1. /\ kind \in DOMAIN TelemetryMembers /\ TelemetryType[kind] \in Value
      /\ TelemetryMembers[kind] = {"tickNb", "nodeId"}
      /\ TelemetryWritten[kind] = <<"tickNb", "nodeId">>
      /\ TelemetryRead[kind] = <<"tickNb", "nodeId">>
  BY DEF ListKinds, TelemetryMembers, TelemetryType, TelemetryWritten, TelemetryRead, Value
<1>2. p \in [TelemetryMembers[kind] -> Value]
  <2>1. Header \subseteq [{"tickNb", "nodeId"} -> Value]
    BY DEF Header, Value
  <2> QED
    BY <1>1, <2>1
<1>3. v \in Seq([Names(ElementsWritten[kind]) -> Value]) /\ kind \in DOMAIN ElementsWritten
  <2>1. \A i \in 1..Len(v) : v[i] \in [Names(ElementsWritten[kind]) -> Value]
    BY ElementFields, ElementOfSeq
  <2> QED
    BY <2>1, ElementFields
<1>4. ReadList(kind, WriteList(kind, p, v)) = v
  <2>1. Nat \subseteq Value
    BY DEF Value
  <2> QED
    BY <1>2, <1>3, <2>1, ListReadBack
<1>5. head = WriteTelemetry(kind, p)
  BY DEF WriteTelemetry
<1>6. ReadTelemetry(kind, head) = p
  BY <1>1, <1>2, <1>5, TelemetryReadBack
<1>7. fields \in Seq(Value) /\ Len(fields) = 2
  <2> DEFINE W == TelemetryWritten[kind]
  <2>1. W \in Seq(TelemetryMembers[kind]) /\ Len(W) = 2
    BY <1>1, TelemetryTablesAgree DEF ListOf
  <2> HIDE DEF W
  <2>2. \A i \in 1..2 : p[W[i]] \in Value
    <3>1. \A i \in 1..2 : W[i] \in TelemetryMembers[kind]
      BY <2>1, ElementOfSeq
    <3> QED
      BY <1>2, <3>1
  <2>3. WriteFields(W, p) \in Seq(Value) /\ Len(WriteFields(W, p)) = 2
    BY <2>1, <2>2 DEF WriteFields
  <2> QED
    BY <2>3 DEF W
<1>8. tag \in Seq(Value) /\ Len(tag) = 1 /\ tag[1] = TelemetryType[kind]
      /\ count \in Seq(Value)
  <2>1. Len(v) \in Value
    BY LenProperties DEF Value
  <2> QED
    BY <1>1, <2>1
<1>9. elements \in Seq(Value)
  BY <1>3, ElementsAreValues
<1> HIDE DEF tag, fields, count, elements
<1>10. /\ head \in Seq(Value) /\ Len(head) = 3 /\ head[1] = TelemetryType[kind]
  <2>1. head \in Seq(Value) /\ Len(head) = Len(tag) + Len(fields)
    BY <1>7, <1>8, ConcatProperties
  <2>2. head[1] = tag[1]
    <3>1. tag \in Seq(Value) /\ fields \in Seq(Value) /\ 1 \in 1..Len(tag)
      BY <1>7, <1>8
    <3> QED
      BY <3>1, ConcatParts
  <2> HIDE DEF head
  <2> QED
    BY <2>1, <2>2, <1>7, <1>8
<1>11. count \o elements \in Seq(Value)
  BY <1>8, <1>9, ConcatProperties
<1>12. WriteList(kind, p, v) = head \o (count \o elements)
  <2>1. WriteList(kind, p, v) = (head \o count) \o elements
    BY <1>5 DEF WriteList, count, elements
  <2>2. head \in Seq(Value) /\ count \in Seq(Value) /\ elements \in Seq(Value)
    BY <1>8, <1>9, <1>10
  <2> HIDE DEF head
  <2>3. (head \o count) \o elements = head \o (count \o elements)
    BY <2>2, ConcatAssociative
  <2> QED
    BY <2>1, <2>3
<1> DEFINE more == count \o elements
<1> HIDE DEF head, more
<1>13. head \o more \in Seq(Value) /\ (head \o more)[1] = TelemetryType[kind]
  <2>1. more \in Seq(Value) /\ 1 \in 1..Len(head)
    BY <1>10, <1>11 DEF more
  <2>2. head \in Seq(Value) /\ head[1] = TelemetryType[kind]
    BY <1>10
  <2>3. head \o more \in Seq(Value)
    BY <2>1, <2>2, ConcatProperties
  <2>4. (head \o more)[1] = head[1]
    BY <2>1, <2>2, ConcatParts
  <2> QED
    BY <2>2, <2>3, <2>4
<1>14. ReadTelemetry(kind, head \o more) = p
  <2> DEFINE R == TelemetryRead[kind]
  <2>1. R \in Seq(TelemetryMembers[kind]) /\ Len(R) = 2
    BY <1>1, TelemetryTablesAgree DEF ListOf
  <2>2. Len(head) = 1 + Len(R)
    BY <1>10, <2>1
  <2> HIDE DEF R
  <2>3. more \in Seq(Value)
    BY <1>11 DEF more
  <2>4. ReadFields(R, head \o more, 1) = ReadFields(R, head, 1)
    BY <1>10, <2>1, <2>2, <2>3, ReadFieldsFirst
  <2> QED
    BY <2>4, <1>6 DEF ReadTelemetry, R
<1> QED
  BY <1>4, <1>12, <1>13, <1>14 DEF more

-------------------------------------------------------------------------------
(* What is on the way to a node.                                           *)

Part(packet, n, kind) ==
  IF packet[1] = TelemetryType[kind] /\ ReadTelemetry(kind, packet).nodeId = n
  THEN ReadList(kind, packet) ELSE <<>>

Parts(packets, n, kind) == [i \in DOMAIN packets |-> Part(packets[i], n, kind)]

(* A packet of counts is for nobody's list.                                *)
LEMMA CountsPart ==
  ASSUME NEW packet, IsCounts(packet), NEW n, NEW kind \in ListKinds
  PROVE  Part(packet, n, kind) = <<>>
BY DEF IsCounts, Part, ListKinds, TelemetryType

(* A list is for one node and one kind.                                    *)
LEMMA ListPart ==
  ASSUME NEW other \in ListKinds, NEW packet, IsList(packet, other), NEW n, NEW kind \in ListKinds
  PROVE  Part(packet, n, kind) = IF kind = other /\ ReadTelemetry(kind, packet).nodeId = n
                                 THEN ReadList(kind, packet) ELSE <<>>
BY DEF IsList, Part, ListKinds, TelemetryType

(* Its type.                                                               *)
LEMMA PartType ==
  ASSUME NEW packet \in Packets, NEW n, NEW kind \in ListKinds
  PROVE  Part(packet, n, kind) \in Seq(Elements(kind))
<1>1. <<>> \in Seq(Elements(kind))
  OBVIOUS
<1>2. CASE IsCounts(packet)
  BY <1>1, <1>2, CountsPart
<1>3. ASSUME NEW other \in ListKinds, IsList(packet, other)
      PROVE  Part(packet, n, kind) \in Seq(Elements(kind))
  BY <1>1, <1>3, ListPart DEF IsList
<1> QED
  BY <1>2, <1>3 DEF Packets

(* The types of the parts.                                                 *)
LEMMA PartsType ==
  ASSUME NEW packets \in Seq(Packets), NEW n, NEW kind \in ListKinds
  PROVE  /\ Parts(packets, n, kind) \in Seq(Seq(Elements(kind)))
         /\ Len(Parts(packets, n, kind)) = Len(packets)
         /\ \A i \in 1..Len(packets) : Parts(packets, n, kind)[i] = Part(packets[i], n, kind)
<1>1. Len(packets) \in Nat /\ DOMAIN packets = 1..Len(packets)
  BY LenProperties
<1>2. ASSUME NEW i \in 1..Len(packets) PROVE Part(packets[i], n, kind) \in Seq(Elements(kind))
  <2>1. packets[i] \in Packets
    BY ElementOfSeq
  <2> QED
    BY <2>1, PartType
<1> QED
  BY <1>1, <1>2 DEF Parts

(* The parts of packets put end to end.                                    *)
LEMMA PartsConcat ==
  ASSUME NEW s \in Seq(Packets), NEW t \in Seq(Packets), NEW n, NEW kind \in ListKinds
  PROVE  FlattenSeq(Parts(s \o t, n, kind))
           = FlattenSeq(Parts(s, n, kind)) \o FlattenSeq(Parts(t, n, kind))
<1> DEFINE S == Seq(Elements(kind))
           p == Parts(s, n, kind)
           q == Parts(t, n, kind)
           r == Parts(s \o t, n, kind)
<1>1. /\ p \in Seq(S) /\ Len(p) = Len(s)
      /\ \A i \in 1..Len(s) : p[i] = Part(s[i], n, kind)
  BY PartsType
<1>2. /\ q \in Seq(S) /\ Len(q) = Len(t)
      /\ \A i \in 1..Len(t) : q[i] = Part(t[i], n, kind)
  BY PartsType
<1>3. s \o t \in Seq(Packets)
  BY ConcatProperties
<1>4. /\ r \in Seq(S) /\ Len(r) = Len(s \o t)
      /\ \A i \in 1..Len(s \o t) : r[i] = Part((s \o t)[i], n, kind)
  BY <1>3, PartsType
<1> HIDE DEF S, p, q, r
<1>5. r = p \o q
  <2> DEFINE a == Len(s)
             b == Len(t)
  <2>1. /\ a \in Nat /\ b \in Nat /\ Len(s \o t) = a + b
        /\ \A l \in 1..a : (s \o t)[l] = s[l]
        /\ \A l \in 1..b : (s \o t)[a + l] = t[l]
    BY ConcatParts
  <2>2. /\ p \o q \in Seq(S) /\ Len(p \o q) = a + b
        /\ \A l \in 1..a : (p \o q)[l] = p[l]
        /\ \A l \in 1..b : (p \o q)[a + l] = q[l]
    <3>1. p \o q \in Seq(S)
      BY <1>1, <1>2, ConcatProperties
    <3>2. p \in Seq(S) /\ q \in Seq(S) /\ Len(p) = a /\ Len(q) = b
      BY <1>1, <1>2
    <3>3. /\ Len(p \o q) = Len(p) + Len(q)
          /\ \A l \in 1..Len(p) : (p \o q)[l] = p[l]
          /\ \A l \in 1..Len(q) : (p \o q)[Len(p) + l] = q[l]
      <4>1. p \in Seq(S) /\ q \in Seq(S)
        BY <3>2
      <4> QED
        BY <4>1, ConcatParts
    <3> HIDE DEF a, b
    <3> QED
      BY <3>1, <3>2, <3>3
  <2> HIDE DEF a, b
  <2>3. ASSUME NEW i \in 1..(a + b) PROVE r[i] = (p \o q)[i]
    <3>1. CASE i \in 1..a
      BY <3>1, <1>1, <1>4, <2>1, <2>2 DEF a
    <3>2. CASE i \notin 1..a
      <4>1. i - a \in 1..b /\ a + (i - a) = i
        BY <3>2, <2>1
      <4>2. r[i] = Part(t[i - a], n, kind) /\ (p \o q)[i] = q[i - a]
        BY <4>1, <1>4, <2>1, <2>2
      <4> QED
        BY <4>1, <4>2, <1>2 DEF b
    <3> QED
      BY <3>1, <3>2
  <2>4. Len(r) = a + b /\ Len(p \o q) = a + b
    BY <1>4, <2>1, <2>2
  <2> QED
    BY <1>4, <2>2, <2>3, <2>4, SeqEqual
<1>6. FlattenSeq(p \o q) = FlattenSeq(p) \o FlattenSeq(q)
  BY <1>1, <1>2, FlattenConcat DEF S
<1> QED
  BY <1>5, <1>6 DEF p, q, r

(* What is still on the way when the first packet has arrived.             *)
LEMMA PartsHead ==
  ASSUME NEW packets \in Seq(Packets), packets # <<>>, NEW n, NEW kind \in ListKinds
  PROVE  FlattenSeq(Parts(packets, n, kind))
           = Part(Head(packets), n, kind) \o FlattenSeq(Parts(Tail(packets), n, kind))
<1> DEFINE p == Parts(packets, n, kind)
           q == Parts(Tail(packets), n, kind)
           S == Seq(Elements(kind))
<1>1. /\ p \in Seq(S) /\ Len(p) = Len(packets)
      /\ \A i \in 1..Len(packets) : p[i] = Part(packets[i], n, kind)
  BY PartsType
<1>2. /\ Tail(packets) \in Seq(Packets) /\ Len(Tail(packets)) = Len(packets) - 1
      /\ Len(packets) \in Nat \ {0} /\ Head(packets) = packets[1]
      /\ \A i \in 1..(Len(packets) - 1) : Tail(packets)[i] = packets[i + 1]
  BY HeadTailProperties, EmptySeq
<1>3. /\ q \in Seq(S) /\ Len(q) = Len(packets) - 1
      /\ \A i \in 1..(Len(packets) - 1) : q[i] = Part(packets[i + 1], n, kind)
  <2> DEFINE rest == Tail(packets)
  <2>1. /\ rest \in Seq(Packets) /\ Len(rest) = Len(packets) - 1
        /\ \A i \in 1..(Len(packets) - 1) : rest[i] = packets[i + 1]
    BY <1>2
  <2> HIDE DEF rest
  <2>2. /\ Parts(rest, n, kind) \in Seq(S) /\ Len(Parts(rest, n, kind)) = Len(rest)
        /\ \A i \in 1..Len(rest) : Parts(rest, n, kind)[i] = Part(rest[i], n, kind)
    BY <2>1, PartsType
  <2> HIDE DEF S
  <2> QED
    BY <2>1, <2>2 DEF rest
<1> HIDE DEF p, q, S
<1>4. p # <<>>
  BY <1>1, <1>2, EmptySeq
<1>5. /\ Tail(p) \in Seq(S) /\ Len(Tail(p)) = Len(p) - 1 /\ Head(p) = p[1]
      /\ \A i \in 1..(Len(p) - 1) : Tail(p)[i] = p[i + 1]
  BY <1>1, <1>4, HeadTailProperties
<1>6. Tail(p) = q
  <2> DEFINE m == Len(packets) - 1
  <2>1. m \in Nat /\ Len(packets) = m + 1
    BY <1>2
  <2>2. Len(Tail(p)) = m /\ Len(q) = m
    BY <1>1, <1>3, <1>5
  <2>3. ASSUME NEW i \in 1..m PROVE Tail(p)[i] = q[i]
    <3>1. i + 1 \in 1..Len(packets)
      BY <2>1
    <3> QED
      BY <3>1, <1>1, <1>3, <1>5
  <2> HIDE DEF m
  <2> QED
    BY <1>3, <1>5, <2>2, <2>3, SeqEqual
<1>7. Head(p) = Part(Head(packets), n, kind)
  <2>1. 1 \in 1..Len(packets)
    BY <1>2
  <2> QED
    BY <2>1, <1>1, <1>2, <1>5
<1>8. FlattenSeq(p) = Head(p) \o FlattenSeq(Tail(p))
  BY <1>1, <1>4, FlattenHead DEF S
<1> QED
  BY <1>6, <1>7, <1>8 DEF p, q
-------------------------------------------------------------------------------
(* The inductive invariant of the export.                                  *)

(* What a node has recorded, how much of it was exported, and what the GUI *)
(* has of it.                                                              *)
Recorded(n, kind) == IF kind = "latency" THEN latency[n] ELSE energy[n]
Exported(n, kind) == IF kind = "latency" THEN sentLatency[n] ELSE sentEnergy[n]
Displayed(n, kind) == IF kind = "latency" THEN shown[n].latency ELSE shown[n].energy

Display == [sent : Nat, acked : Nat, latency : Seq(Record), energy : Seq(EnergySample)]

(* Counts that the node itself has reached, now or later.                  *)
Reached(acks, sent, n) == acks <= sent /\ sent <= Cardinality(DOMAIN acked[n])

(* A packet whose counts, if it carries them, were reached.                *)
TruePackets ==
  {packet \in Packets :
     IsCounts(packet) =>
       LET p == ReadTelemetry("nodeMetrics", packet)
       IN Reached(p.totalAcksReceived, p.totalPacketsSent, p.nodeId)}

ExportInv ==
  /\ samples \in Nat
  /\ energy \in [C2 -> Seq(EnergySample)]
  /\ sentLatency \in [C2 -> Nat] /\ sentEnergy \in [C2 -> Nat]
  /\ shown \in [C2 -> Display]
  /\ wire \in Seq(TruePackets)
  /\ \A n \in C2 : Reached(shown[n].acked, shown[n].sent, n)
  /\ \A n \in C2 : \A kind \in ListKinds :
       /\ Exported(n, kind) <= Len(Recorded(n, kind))
       /\ Displayed(n, kind) \o FlattenSeq(Parts(wire, n, kind))
            = Prefix(Recorded(n, kind), Exported(n, kind))

(* That is what the property says.                                         *)
LEMMA ExportInvSuffices == ExportInv => ShownIsRecorded
<1> SUFFICES ASSUME ExportInv, NEW n \in C2
             PROVE  /\ shown[n].latency \o OnTheWay(n, "latency")
                         = SubSeq(latency[n], 1, sentLatency[n])
                    /\ shown[n].energy \o OnTheWay(n, "energy")
                         = SubSeq(energy[n], 1, sentEnergy[n])
                    /\ shown[n].acked <= shown[n].sent
                    /\ shown[n].sent <= Cardinality(DOMAIN acked[n])
  BY DEF ShownIsRecorded
<1>1. \A kind : OnTheWay(n, kind) = FlattenSeq(Parts(wire, n, kind))
  BY DEF OnTheWay, Parts, Part
<1>2. shown[n].latency \o OnTheWay(n, "latency") = SubSeq(latency[n], 1, sentLatency[n])
  BY <1>1 DEF ExportInv, ListKinds, Displayed, Recorded, Exported, Prefix
<1>3. shown[n].energy \o OnTheWay(n, "energy") = SubSeq(energy[n], 1, sentEnergy[n])
  BY <1>1 DEF ExportInv, ListKinds, Displayed, Recorded, Exported, Prefix
<1> QED
  BY <1>2, <1>3 DEF ExportInv, Reached

(* What a node records.                                                    *)
LEMMA RecordedType ==
  ASSUME DeliveryInv, ExportInv, NEW n \in C2, NEW kind \in ListKinds
  PROVE  /\ Recorded(n, kind) \in Seq(Elements(kind))
         /\ Exported(n, kind) \in Nat /\ Exported(n, kind) <= Len(Recorded(n, kind))
<1>1. latency[n] \in Seq(Record)
  BY DEF DeliveryInv
<1> QED
  BY <1>1 DEF ExportInv, ListKinds, Elements, Recorded, Exported

(* The start of a sequence does not change when it gets longer.            *)
LEMMA PrefixStays ==
  ASSUME NEW S, NEW s \in Seq(S), NEW t \in Seq(S), NEW k \in Nat, k <= Len(s)
  PROVE  Prefix(s \o t, k) = Prefix(s, k)
<1>1. CASE k = 0
  BY <1>1, SubSeqEmpty DEF Prefix
<1>2. CASE k # 0
  <2>1. 1 \in 1..Len(s) /\ k \in 1..Len(s)
    BY <1>2, LenProperties
  <2> QED
    BY <2>1, SubSeqOfConcat1 DEF Prefix
<1> QED
  BY <1>1, <1>2

(* What was exported and what is new are all there is.                     *)
LEMMA PrefixAndNew ==
  ASSUME NEW S, NEW s \in Seq(S), NEW k \in Nat, k <= Len(s)
  PROVE  /\ New(s, k) \in Seq(S) /\ Prefix(s, k) \in Seq(S)
         /\ Prefix(s, k) \o New(s, k) = Prefix(s, Len(s))
<1>0. Len(s) \in Nat
  BY LenProperties
<1>1. Prefix(s, k) \in Seq(S)
  BY <1>0, PrefixGrows
<1>2. New(s, k) \in Seq(S)
  <2>1. \A i \in (k + 1)..Len(s) : s[i] \in S
    BY <1>0, ElementOfSeq
  <2> QED
    BY <1>0, <2>1, SubSeqProperties DEF New
<1>3. Prefix(s, k) \o New(s, k) = Prefix(s, Len(s))
  <2>1. 1 \in 1..(Len(s) + 1) /\ k \in (1 - 1)..Len(s) /\ Len(s) \in k..Len(s)
    BY <1>0
  <2> QED
    BY <2>1, ConcatAdjacentSubSeq DEF Prefix, New
<1> QED
  BY <1>1, <1>2, <1>3

(* SetToSeq puts every node into the order, and once.                      *)
LEMMA OrderIs ==
  /\ SetToSeq(C2) \in Seq(C2)
  /\ \A i, j \in 1..Len(SetToSeq(C2)) : SetToSeq(C2)[i] = SetToSeq(C2)[j] => i = j
  /\ \A n \in C2 : \E i \in 1..Len(SetToSeq(C2)) : SetToSeq(C2)[i] = n
<1> DEFINE N == Cardinality(C2)
           order == SetToSeq(C2)
<1>1. N \in Nat /\ ExistsBijection(1..N, C2)
  BY MetricsAssumption, FS_CardinalityType
<1>2. PICK f \in [1..N -> C2] : IsInjective(f)
  BY <1>1 DEF ExistsBijection, Bijection, Injection
<1>3. order \in [1..N -> C2] /\ IsInjective(order)
  BY <1>2 DEF SetToSeq
<1> HIDE DEF order
<1>4. order \in Seq(C2) /\ Len(order) = N
  BY <1>1, <1>3
<1>5. order \in Surjection(1..N, C2)
  <2>1. order \in Injection(1..N, C2) /\ IsFiniteSet(C2)
    BY <1>3, MetricsAssumption DEF Injection
  <2>2. Cardinality(1..N) = N
    BY <1>1, FS_Interval
  <2> QED
    BY <2>1, <2>2, FS_Injection
<1> QED
  BY <1>3, <1>4, <1>5 DEF Surjection, IsInjective, order

(* When every node has its packets in the export and nobody has those of   *)
(* another, what the export adds to a node's list is the node's.           *)
LEMMA ExportOfNode ==
  ASSUME NEW order \in Seq(C2), \A i, j \in 1..Len(order) : order[i] = order[j] => i = j,
         NEW n \in C2, NEW kind \in ListKinds, \E i \in 1..Len(order) : order[i] = n,
         NEW Q \in Seq(Seq(Packets)), Len(Q) = Len(order),
         NEW v \in Seq(Elements(kind)),
         \A i \in 1..Len(order) :
           FlattenSeq(Parts(Q[i], n, kind)) = IF order[i] = n THEN v ELSE <<>>
  PROVE  FlattenSeq(Parts(FlattenSeq(Q), n, kind)) = v
<1> DEFINE G(w) == FlattenSeq(Parts(w, n, kind))
           Has(k) == \E i \in 1..k : order[i] = n
           P(k) == k <= Len(order) => G(FlattenSeq(Prefix(Q, k))) = IF Has(k) THEN v ELSE <<>>
           T == {k \in Nat : P(k)}
<1>0. Len(order) \in Nat
  BY LenProperties
<1>1. 0 \in T
  <2>1. FlattenSeq(Prefix(Q, 0)) = <<>>
    BY PrefixGrows, FlattenEmpty
  <2>2. Parts(<<>>, n, kind) = <<>>
    BY DEF Parts
  <2>3. ~Has(0)
    OBVIOUS
  <2> HIDE DEF Has
  <2> QED
    BY <2>1, <2>2, <2>3, FlattenEmpty
<1>2. ASSUME NEW k \in T PROVE k + 1 \in T
  <2> SUFFICES ASSUME k + 1 <= Len(order)
               PROVE  G(FlattenSeq(Prefix(Q, k + 1))) = IF Has(k + 1) THEN v ELSE <<>>
    OBVIOUS
  <2>0. k \in Nat /\ P(k)
    <3> HIDE DEF P
    <3> QED
      OBVIOUS
  <2>1. k \in Nat /\ k \in 0..Len(Q) /\ k + 1 \in 1..Len(Q) /\ (k + 1) - 1 = k
    <3>1. k \in Nat /\ Len(Q) \in Nat /\ k + 1 <= Len(Q)
      <4>1. Len(Q) = Len(order) /\ k + 1 <= Len(order)
        OBVIOUS
      <4> QED
        BY ONLY <1>0, <2>0, <4>1
    <3> QED
      BY ONLY <3>1
  <2>2. G(FlattenSeq(Prefix(Q, k))) = IF Has(k) THEN v ELSE <<>>
    <3>1. k <= Len(order)
      BY <1>0, <2>0
    <3> QED
      BY <2>0, <3>1
  <2> HIDE DEF T, P
  <2>3. Prefix(Q, k) \in Seq(Seq(Packets)) /\ Q[k + 1] \in Seq(Packets)
        /\ Prefix(Q, k + 1) = Append(Prefix(Q, k), Q[k + 1])
    BY <2>1, PrefixGrows, ElementOfSeq
  <2>4. FlattenSeq(Prefix(Q, k + 1)) = FlattenSeq(Prefix(Q, k)) \o Q[k + 1]
    BY <2>3, FlattenAppend
  <2>5. FlattenSeq(Prefix(Q, k)) \in Seq(Packets)
    BY <2>3, FlattenType
  <2>6. G(FlattenSeq(Prefix(Q, k + 1))) = G(FlattenSeq(Prefix(Q, k))) \o G(Q[k + 1])
    <3> DEFINE before == FlattenSeq(Prefix(Q, k))
               next == Q[k + 1]
    <3>1. before \in Seq(Packets) /\ next \in Seq(Packets)
          /\ FlattenSeq(Prefix(Q, k + 1)) = before \o next
      BY <2>3, <2>4, <2>5
    <3> HIDE DEF before, next
    <3>2. G(before \o next) = G(before) \o G(next)
      BY <3>1, PartsConcat
    <3> QED
      BY <3>1, <3>2 DEF before, next
  <2>7. G(Q[k + 1]) = IF order[k + 1] = n THEN v ELSE <<>>
    BY <2>1
  <2>8. v \o <<>> = v /\ <<>> \o v = v /\ <<>> \o <<>> = <<>>
    <3>1. <<>> \in Seq(Elements(kind))
      OBVIOUS
    <3> QED
      BY <3>1, ConcatEmptySeq
  <2>9. Has(k + 1) <=> Has(k) \/ order[k + 1] = n
    <3>1. \A i : i \in 1..(k + 1) <=> (i \in 1..k \/ i = k + 1)
      BY <2>1
    <3> QED
      BY <3>1
  <2>10. Has(k) => order[k + 1] # n
    <3>1. \A i \in 1..k : i \in 1..Len(order) /\ k + 1 \in 1..Len(order) /\ i # k + 1
      BY <2>1, <1>0
    <3> QED
      BY <3>1
  <2> HIDE DEF G, Has
  <2>11. CASE Has(k)
    BY <2>11, <2>2, <2>6, <2>7, <2>8, <2>9, <2>10
  <2>12. CASE ~Has(k)
    BY <2>12, <2>2, <2>6, <2>7, <2>8, <2>9
  <2> QED
    BY <2>11, <2>12
<1>3. T = Nat
  <2> HIDE DEF T
  <2>1. T \in SUBSET Nat
    BY DEF T
  <2> QED
    BY <1>1, <1>2, <2>1, Induction
<1>4. P(Len(order))
  BY <1>0, <1>3
<1>5. Prefix(Q, Len(order)) = Q
  BY PrefixGrows
<1>6. Has(Len(order)) /\ Len(order) <= Len(order)
  BY <1>0
<1> HIDE DEF Has
<1> QED
  BY <1>4, <1>5, <1>6

(* A packet that is alone.                                                 *)
LEMMA PartsOne ==
  ASSUME NEW packet \in Packets, NEW n, NEW kind \in ListKinds
  PROVE  FlattenSeq(Parts(<<packet>>, n, kind)) = Part(packet, n, kind)
<1>1. Parts(<<packet>>, n, kind) = <<Part(packet, n, kind)>>
  BY DEF Parts
<1>2. Part(packet, n, kind) \in Seq(Elements(kind))
  BY PartType
<1> QED
  BY <1>1, <1>2, FlattenOne

(* A node has sent finitely many packets.                                  *)
LEMMA CountedFinite ==
  ASSUME PathInv
  PROVE  \A n \in C2 : IsFiniteSet(DOMAIN acked[n])
<1>1. ASSUME NEW n \in C2 PROVE DOMAIN acked[n] \in SUBSET (1..(nextId - 1))
  BY DEF PathInv, CountedInv, RegistryInv
<1>2. IsFiniteSet(1..(nextId - 1))
  <2>1. nextId - 1 \in Int
    BY DEF PathInv, TypeInv
  <2> QED
    BY <2>1, FS_Interval
<1> QED
  BY <1>1, <1>2, FS_Subset

(* The counts a node exports were reached.                                 *)
LEMMA CountsWritten ==
  ASSUME PathInv, NEW tick \in Nat, NEW m \in C2
  PROVE  WriteCounts(tick, m) \in TruePackets /\ IsCounts(WriteCounts(tick, m))
<1> DEFINE sent == Cardinality(DOMAIN acked[m])
           acks == AcksReceived(m)
           p == [tickNb |-> tick, nodeId |-> m, totalPacketsSent |-> sent,
                 totalAcksReceived |-> acks]
           packet == WriteCounts(tick, m)
<1>1. IsFiniteSet(DOMAIN acked[m])
  BY CountedFinite
<1>2. sent \in Nat /\ acks \in Nat /\ acks <= sent
  <2>1. {id \in DOMAIN acked[m] : acked[m][id]} \in SUBSET DOMAIN acked[m]
    OBVIOUS
  <2> QED
    BY <1>1, <2>1, FS_Subset, FS_CardinalityType DEF AcksReceived
<1>3. packet = WriteTelemetry("nodeMetrics", p)
  BY DEF WriteCounts
<1> HIDE DEF acks, packet
<1>4. p \in CountsHeader /\ p.totalAcksReceived = acks /\ p.totalPacketsSent = sent /\ p.nodeId = m
  BY <1>2 DEF CountsHeader
<1> HIDE DEF p
<1>5. packet \in Seq(Value) /\ packet[1] = 12 /\ ReadTelemetry("nodeMetrics", packet) = p
  BY <1>3, <1>4, CountsRead
<1>6. IsCounts(packet)
  BY <1>4, <1>5 DEF IsCounts
<1>7. packet \in Packets
  BY <1>5, <1>6 DEF Packets
<1>8. Reached(p.totalAcksReceived, p.totalPacketsSent, p.nodeId)
  BY <1>2, <1>4 DEF Reached
<1> QED
  BY <1>5, <1>6, <1>7, <1>8 DEF TruePackets, packet

(* A list that is exported only when it is not empty.                      *)
IfAny(kind, p, v) == IF v = <<>> THEN <<>> ELSE <<WriteList(kind, p, v)>>

(* A list that is written is read back, and is of no other kind and for   *)
(* no other node.                                                          *)
LEMMA ListWritten ==
  ASSUME NEW other \in ListKinds, NEW p \in Header, NEW v \in Seq(Elements(other))
  PROVE  /\ IfAny(other, p, v) \in Seq(TruePackets)
         /\ \A n \in C2 : \A kind \in ListKinds :
              FlattenSeq(Parts(IfAny(other, p, v), n, kind))
                = IF kind = other /\ p.nodeId = n THEN v ELSE <<>>
<1> DEFINE packet == WriteList(other, p, v)
<1>1. /\ packet \in Seq(Value) /\ packet[1] = TelemetryType[other]
      /\ ReadTelemetry(other, packet) = p /\ ReadList(other, packet) = v
  BY ListRead
<1> HIDE DEF packet
<1>2. IsList(packet, other) /\ packet \in Packets
  BY <1>1 DEF IsList, Packets
<1>3. ~IsCounts(packet)
  BY <1>1 DEF IsCounts, ListKinds, TelemetryType
<1>4. packet \in TruePackets
  BY <1>2, <1>3 DEF TruePackets
<1>5. CASE v = <<>>
  <2>1. \A n, kind : Parts(<<>>, n, kind) = <<>>
    BY DEF Parts
  <2>2. IfAny(other, p, v) = <<>>
    BY <1>5 DEF IfAny
  <2>3. <<>> \in Seq(TruePackets)
    OBVIOUS
  <2>4. \A n, kind : FlattenSeq(Parts(<<>>, n, kind)) = <<>>
    BY <2>1, FlattenEmpty
  <2> QED
    BY <1>5, <2>2, <2>3, <2>4
<1>6. CASE v # <<>>
  <2>1. IfAny(other, p, v) = <<packet>>
    BY <1>6 DEF IfAny, packet
  <2>2. <<packet>> \in Seq(TruePackets)
    BY <1>4
  <2>3. ASSUME NEW n \in C2, NEW kind \in ListKinds
        PROVE  FlattenSeq(Parts(<<packet>>, n, kind))
                 = IF kind = other /\ p.nodeId = n THEN v ELSE <<>>
    <3>1. FlattenSeq(Parts(<<packet>>, n, kind)) = Part(packet, n, kind)
      BY <1>2, PartsOne
    <3>2. Part(packet, n, kind) = IF kind = other /\ ReadTelemetry(kind, packet).nodeId = n
                                  THEN ReadList(kind, packet) ELSE <<>>
      BY <1>2, ListPart
    <3> QED
      BY <3>1, <3>2, <1>1
  <2> QED
    BY <2>1, <2>2, <2>3
<1> QED
  BY <1>5, <1>6

(* A sequence is of any set that all its elements are in.                  *)
LEMMA SeqOfOthers ==
  ASSUME NEW S, NEW T, NEW s \in Seq(S), \A i \in 1..Len(s) : s[i] \in T
  PROVE  s \in Seq(T)
OBVIOUS

(* True packets are packets.                                               *)
LEMMA TrueSeq ==
  ASSUME NEW s \in Seq(TruePackets)
  PROVE  s \in Seq(Packets)
<1>1. TruePackets \subseteq Packets
  BY DEF TruePackets
<1>2. \A i \in 1..Len(s) : s[i] \in Packets
  BY <1>1, ElementOfSeq
<1> QED
  BY <1>2

(* The packets of one node in one export.                                  *)
LEMMA PacketsWritten ==
  ASSUME PathInv, NEW tick \in Nat, NEW m \in C2, NEW sampled,
         New(latency[m], sentLatency[m]) \in Seq(Record),
         New(sampled[m], sentEnergy[m]) \in Seq(EnergySample)
  PROVE  /\ PacketsOf(tick, m, sampled) \in Seq(TruePackets)
         /\ \A n \in C2 : \A kind \in ListKinds :
              FlattenSeq(Parts(PacketsOf(tick, m, sampled), n, kind))
                = IF m # n THEN <<>>
                  ELSE IF kind = "latency" THEN New(latency[m], sentLatency[m])
                  ELSE New(sampled[m], sentEnergy[m])
<1> DEFINE records == New(latency[m], sentLatency[m])
           pairs == New(sampled[m], sentEnergy[m])
           p == [tickNb |-> tick, nodeId |-> m]
           counts == WriteCounts(tick, m)
           a == <<counts>>
           b == IfAny("latency", p, records)
           c == IfAny("energy", p, pairs)
<1>1. p \in Header /\ p.nodeId = m
  BY DEF Header
<1>2. PacketsOf(tick, m, sampled) = (a \o b) \o c
  BY DEF PacketsOf, WriteLatency, WriteEnergy, IfAny
<1> HIDE DEF p, records, pairs, counts
<1>3. "latency" \in ListKinds /\ "energy" \in ListKinds /\ "latency" # "energy"
      /\ Elements("latency") = Record /\ Elements("energy") = EnergySample
  BY DEF ListKinds, Elements
<1>4. records \in Seq(Elements("latency")) /\ pairs \in Seq(Elements("energy"))
  BY <1>3 DEF records, pairs
<1>5. /\ b \in Seq(TruePackets)
      /\ \A n \in C2 : \A kind \in ListKinds :
           FlattenSeq(Parts(b, n, kind)) = IF kind = "latency" /\ m = n THEN records ELSE <<>>
  BY <1>1, <1>3, <1>4, ListWritten
<1>6. /\ c \in Seq(TruePackets)
      /\ \A n \in C2 : \A kind \in ListKinds :
           FlattenSeq(Parts(c, n, kind)) = IF kind = "energy" /\ m = n THEN pairs ELSE <<>>
  BY <1>1, <1>3, <1>4, ListWritten
<1>7. /\ a \in Seq(TruePackets)
      /\ \A n \in C2 : \A kind \in ListKinds : FlattenSeq(Parts(a, n, kind)) = <<>>
  <2>1. counts \in TruePackets /\ IsCounts(counts)
    BY CountsWritten DEF counts
  <2>2. ASSUME NEW n \in C2, NEW kind \in ListKinds PROVE FlattenSeq(Parts(a, n, kind)) = <<>>
    <3>1. counts \in Packets
      BY <2>1 DEF TruePackets
    <3>2. FlattenSeq(Parts(a, n, kind)) = Part(counts, n, kind)
      BY <3>1, PartsOne
    <3> QED
      BY <2>1, <3>2, CountsPart
  <2> QED
    BY <2>1, <2>2
<1> HIDE DEF a, b, c
<1>8. a \o b \in Seq(TruePackets) /\ (a \o b) \o c \in Seq(TruePackets)
  <2>1. a \o b \in Seq(TruePackets)
    BY <1>5, <1>7, ConcatProperties
  <2> DEFINE ab == a \o b
  <2> HIDE DEF ab
  <2>2. ab \o c \in Seq(TruePackets)
    BY <1>6, <2>1, ConcatProperties DEF ab
  <2> QED
    BY <2>1, <2>2 DEF ab
<1>9. ASSUME NEW n \in C2, NEW kind \in ListKinds
      PROVE  FlattenSeq(Parts((a \o b) \o c, n, kind))
               = IF m # n THEN <<>> ELSE IF kind = "latency" THEN records ELSE pairs
  <2> DEFINE G(w) == FlattenSeq(Parts(w, n, kind))
             ab == a \o b
  <2>1. a \in Seq(Packets) /\ b \in Seq(Packets) /\ c \in Seq(Packets) /\ ab \in Seq(Packets)
    BY <1>5, <1>6, <1>7, <1>8, TrueSeq
  <2>2. G(ab) = G(a) \o G(b)
    BY <2>1, PartsConcat
  <2> HIDE DEF ab
  <2>3. G(ab \o c) = G(ab) \o G(c)
    <3>1. ab \in Seq(Packets) /\ c \in Seq(Packets) /\ n \in C2 /\ kind \in ListKinds
      BY <2>1
    <3> QED
      BY ONLY <3>1, PartsConcat
  <2>4. kind = "latency" \/ kind = "energy"
    BY DEF ListKinds
  <2>5. /\ <<>> \o <<>> = <<>> /\ records \o <<>> = records /\ <<>> \o records = records
        /\ <<>> \o pairs = pairs
    <3>1. <<>> \in Seq(Record) /\ records \in Seq(Record) /\ pairs \in Seq(EnergySample)
      BY <1>3, <1>4
    <3> QED
      BY <3>1, ConcatEmptySeq
  <2>6. G(a) = <<>> /\ G(b) = (IF kind = "latency" /\ m = n THEN records ELSE <<>>)
        /\ G(c) = (IF kind = "energy" /\ m = n THEN pairs ELSE <<>>)
    BY <1>5, <1>6, <1>7
  <2> HIDE DEF G
  <2>7. G(ab \o c) = IF m # n THEN <<>> ELSE IF kind = "latency" THEN records ELSE pairs
    <3>1. CASE m # n
      BY <3>1, <2>2, <2>3, <2>5, <2>6
    <3>2. CASE m = n /\ kind = "latency"
      BY <3>2, <1>3, <2>2, <2>3, <2>5, <2>6
    <3>3. CASE m = n /\ kind = "energy"
      BY <3>3, <1>3, <2>2, <2>3, <2>5, <2>6
    <3> QED
      BY <2>4, <3>1, <3>2, <3>3
  <2> QED
    BY <2>7 DEF G, ab
<1> QED
  BY <1>2, <1>8, <1>9 DEF records, pairs
-------------------------------------------------------------------------------
(* ExportInv is inductive.                                                 *)

(* Counts that were reached stay reached.                                  *)
LEMMA TruePacketsStay ==
  ASSUME PathInv, PathInv', \A n \in C2 : DOMAIN acked[n] \subseteq DOMAIN acked'[n]
  PROVE  /\ \A n \in C2 : \A a : \A s \in Nat :
              Reached(a, s, n) => a <= s /\ s <= Cardinality(DOMAIN acked'[n])
         /\ TruePackets \subseteq TruePackets'
<1>1. ASSUME NEW n \in C2
      PROVE  /\ Cardinality(DOMAIN acked[n]) <= Cardinality(DOMAIN acked'[n])
             /\ Cardinality(DOMAIN acked[n]) \in Nat /\ Cardinality(DOMAIN acked'[n]) \in Nat
  <2>1. IsFiniteSet(DOMAIN acked[n])
    BY CountedFinite
  <2>2. IsFiniteSet(DOMAIN acked'[n])
    <3>1. DOMAIN acked'[n] \in SUBSET (1..(nextId' - 1))
      BY DEF PathInv, CountedInv, RegistryInv
    <3>2. nextId' - 1 \in Int
      BY DEF PathInv, TypeInv
    <3>3. IsFiniteSet(1..(nextId' - 1))
      BY <3>2, FS_Interval
    <3> QED
      BY <3>1, <3>3, FS_Subset
  <2>3. IsFiniteSet(DOMAIN acked'[n]) /\ DOMAIN acked[n] \in SUBSET DOMAIN acked'[n]
    BY <2>2
  <2> QED
    BY <2>1, <2>3, FS_Subset, FS_CardinalityType
<1>2. ASSUME NEW a, NEW s \in Nat, NEW n \in C2, Reached(a, s, n)
      PROVE  a <= s /\ s <= Cardinality(DOMAIN acked'[n])
  BY <1>1, <1>2 DEF Reached
<1>3. ASSUME NEW packet \in TruePackets PROVE packet \in TruePackets'
  <2> DEFINE p == ReadTelemetry("nodeMetrics", packet)
  <2>1. packet \in Packets /\ (IsCounts(packet) =>
                                  Reached(p.totalAcksReceived, p.totalPacketsSent, p.nodeId))
    BY DEF TruePackets
  <2>2. IsCounts(packet) => p \in CountsHeader
    BY DEF IsCounts
  <2> HIDE DEF p
  <2>3. IsCounts(packet) => p.totalPacketsSent \in Nat /\ p.nodeId \in C2
    BY <2>2 DEF CountsHeader
  <2>4. IsCounts(packet) =>
          /\ p.totalAcksReceived <= p.totalPacketsSent
          /\ p.totalPacketsSent <= Cardinality(DOMAIN acked'[p.nodeId])
    BY <1>2, <2>1, <2>3
  <2> QED
    BY <2>1, <2>4 DEF TruePackets, Reached, p
<1> QED
  BY <1>2, <1>3 DEF Reached

(* What the shown counts are.                                              *)
LEMMA DisplayIs ==
  ASSUME shown \in [C2 -> Display], NEW n \in C2
  PROVE  /\ shown[n].sent \in Nat /\ shown[n].acked \in Nat
         /\ \A kind \in ListKinds : Displayed(n, kind) \in Seq(Elements(kind))
BY DEF Display, Displayed, ListKinds, Elements

(* Steps that export nothing and show nothing: lists only get longer.      *)
LEMMA ExportInvKept ==
  ASSUME PathInv, PathInv', DeliveryInv, ExportInv,
         UNCHANGED <<wire, shown, sentLatency, sentEnergy>>, samples' \in Nat,
         \A n \in C2 : DOMAIN acked[n] \subseteq DOMAIN acked'[n],
         energy' \in [C2 -> Seq(EnergySample)],
         \A n \in C2 : \A kind \in ListKinds :
           \E more \in Seq(Elements(kind)) : Recorded(n, kind)' = Recorded(n, kind) \o more
  PROVE  ExportInv'
<1>1. ASSUME NEW n \in C2 PROVE Reached(shown[n].acked, shown[n].sent, n)'
  <2>1. shown[n].sent \in Nat /\ Reached(shown[n].acked, shown[n].sent, n)
    BY DisplayIs DEF ExportInv
  <2>2. /\ shown[n].acked <= shown[n].sent
        /\ shown[n].sent <= Cardinality(DOMAIN acked'[n])
    BY <2>1, TruePacketsStay
  <2> QED
    BY <2>2 DEF Reached
<1>2. wire' \in Seq(TruePackets')
  <2>1. wire \in Seq(TruePackets) /\ TruePackets \subseteq TruePackets'
    BY TruePacketsStay DEF ExportInv
  <2>2. \A i \in 1..Len(wire) : wire[i] \in TruePackets'
    BY <2>1, ElementOfSeq
  <2> QED
    BY <2>1, <2>2
<1>3. ASSUME NEW n \in C2, NEW kind \in ListKinds
      PROVE  /\ Exported(n, kind) <= Len(Recorded(n, kind)')
             /\ Prefix(Recorded(n, kind)', Exported(n, kind))
                  = Prefix(Recorded(n, kind), Exported(n, kind))
  <2> DEFINE old == Recorded(n, kind)
             k == Exported(n, kind)
  <2>1. PICK more \in Seq(Elements(kind)) : Recorded(n, kind)' = old \o more
    OBVIOUS
  <2>2. old \in Seq(Elements(kind)) /\ k \in Nat /\ k <= Len(old)
    BY RecordedType DEF ExportInv, Exported
  <2> HIDE DEF old, k
  <2>3. Len(old \o more) = Len(old) + Len(more) /\ Len(old) \in Nat /\ Len(more) \in Nat
    BY <2>1, <2>2, ConcatParts
  <2>4. Prefix(old \o more, k) = Prefix(old, k)
    BY <2>1, <2>2, PrefixStays
  <2> QED
    BY <2>1, <2>2, <2>3, <2>4 DEF old, k
<1>4. \A n \in C2 : \A kind \in ListKinds :
        /\ Exported(n, kind)' = Exported(n, kind) /\ Displayed(n, kind)' = Displayed(n, kind)
        /\ Parts(wire, n, kind)' = Parts(wire, n, kind)
  BY DEF Exported, Displayed
<1>5. ASSUME NEW n \in C2, NEW kind \in ListKinds
      PROVE  /\ Exported(n, kind)' <= Len(Recorded(n, kind)')
             /\ Displayed(n, kind)' \o FlattenSeq(Parts(wire', n, kind))
                  = Prefix(Recorded(n, kind)', Exported(n, kind)')
  <2>1. Displayed(n, kind) \o FlattenSeq(Parts(wire, n, kind))
          = Prefix(Recorded(n, kind), Exported(n, kind))
    BY DEF ExportInv
  <2>2. wire' = wire
    OBVIOUS
  <2> QED
    BY <2>1, <2>2, <1>3, <1>4
<1> QED
  BY <1>1, <1>2, <1>5 DEF ExportInv

(* A packet arrives: what its handler adds to a list is what the packet    *)
(* has for it, and the counts it shows were reached.                       *)
LEMMA ExportInvArrives ==
  ASSUME ExportInv, wire # <<>>, wire' = Tail(wire),
         UNCHANGED <<samples, latency, energy, sentLatency, sentEnergy, acked>>,
         shown' \in [C2 -> Display],
         \A n \in C2 : Reached(shown[n].acked, shown[n].sent, n)',
         \A n \in C2 : \A kind \in ListKinds :
           Displayed(n, kind)' = Displayed(n, kind) \o Part(Head(wire), n, kind)
  PROVE  ExportInv'
<1>1. wire \in Seq(TruePackets) /\ wire' \in Seq(TruePackets)
  BY HeadTailProperties DEF ExportInv
<1>2. TruePackets' = TruePackets
  BY DEF TruePackets, Reached
<1>3. ASSUME NEW n \in C2, NEW kind \in ListKinds
      PROVE  Displayed(n, kind)' \o FlattenSeq(Parts(wire', n, kind))
               = Prefix(Recorded(n, kind), Exported(n, kind))
  <2> DEFINE shownNow == Displayed(n, kind)
             part == Part(Head(wire), n, kind)
             rest == FlattenSeq(Parts(wire', n, kind))
  <2>1. Displayed(n, kind)' = shownNow \o part
    OBVIOUS
  <2>2. FlattenSeq(Parts(wire, n, kind)) = part \o rest
    BY <1>1, TrueSeq, PartsHead
  <2>3. shownNow \in Seq(Elements(kind))
    BY DisplayIs DEF ExportInv
  <2>4. rest \in Seq(Elements(kind))
    BY <1>1, TrueSeq, PartsType, FlattenType
  <2>5. part \in Seq(Elements(kind))
    <3>1. Head(wire) \in Packets
      BY <1>1, HeadTailProperties DEF TruePackets
    <3> QED
      BY <3>1, PartType
  <2>6. shownNow \o (part \o rest) = Prefix(Recorded(n, kind), Exported(n, kind))
    BY <2>2 DEF ExportInv
  <2> HIDE DEF shownNow, part, rest
  <2>7. (shownNow \o part) \o rest = shownNow \o (part \o rest)
    BY <2>3, <2>4, <2>5, ConcatAssociative
  <2> QED
    BY <2>1, <2>6, <2>7 DEF rest
<1>4. \A n \in C2 : \A kind \in ListKinds :
        Exported(n, kind)' = Exported(n, kind) /\ Recorded(n, kind)' = Recorded(n, kind)
  BY DEF Exported, Recorded
<1> QED
  BY <1>1, <1>2, <1>3, <1>4 DEF ExportInv

(* The handler that is called is for the packet that came.                 *)
LEMMA HandlerOf ==
  ASSUME NEW packet \in Packets
  PROVE  /\ TelemetryHandler[packet[1]] = "nodeMetrics" => IsCounts(packet)
         /\ \A kind \in ListKinds : TelemetryHandler[packet[1]] = kind => IsList(packet, kind)
<1>1. TelemetryHandler[12] = "nodeMetrics" /\ TelemetryHandler[13] = "latency"
      /\ TelemetryHandler[14] = "energy"
  BY DEF TelemetryHandler
<1>2. CASE IsCounts(packet)
  <2>1. TelemetryHandler[packet[1]] = "nodeMetrics"
    BY <1>1, <1>2 DEF IsCounts
  <2> QED
    BY <1>2, <2>1 DEF ListKinds
<1>3. ASSUME NEW kind \in ListKinds, IsList(packet, kind)
      PROVE  TelemetryHandler[packet[1]] = kind
  <2>1. packet[1] = TelemetryType[kind]
    BY <1>3 DEF IsList
  <2>2. TelemetryType["latency"] = 13 /\ TelemetryType["energy"] = 14
    BY DEF TelemetryType
  <2> QED
    BY <1>1, <2>1, <2>2 DEF ListKinds
<1> QED
  BY <1>2, <1>3 DEF Packets, ListKinds

(* Counts arrive.                                                          *)
LEMMA ExportInvCounts ==
  ASSUME ExportInv, UpdateNodePDR
  PROVE  ExportInv'
<1> DEFINE packet == Head(wire)
           p == ReadTelemetry("nodeMetrics", packet)
           n == p.nodeId
<1>1. /\ wire # <<>> /\ wire' = Tail(wire) /\ TelemetryHandler[packet[1]] = "nodeMetrics"
      /\ shown' = [shown EXCEPT ![n] = [shown[n] EXCEPT !.sent = p.totalPacketsSent,
                                                        !.acked = p.totalAcksReceived]]
      /\ UNCHANGED <<samples, latency, energy, sentLatency, sentEnergy, acked>>
  BY DEF UpdateNodePDR, Receive, nodeVars, lifeVars
<1>2. packet \in TruePackets /\ shown \in [C2 -> Display]
  BY <1>1, HeadTailProperties DEF ExportInv
<1> HIDE DEF packet
<1>3. packet \in Packets
  BY <1>2 DEF TruePackets
<1>4. IsCounts(packet) /\ p \in CountsHeader
  BY <1>1, <1>3, HandlerOf DEF IsCounts
<1>5. Reached(p.totalAcksReceived, p.totalPacketsSent, n)
  BY <1>2, <1>4 DEF TruePackets
<1> HIDE DEF p
<1>6. n \in C2 /\ p.totalPacketsSent \in Nat /\ p.totalAcksReceived \in Nat
  BY <1>4 DEF CountsHeader
<1> HIDE DEF n
<1> DEFINE new == [shown[n] EXCEPT !.sent = p.totalPacketsSent, !.acked = p.totalAcksReceived]
<1>7. /\ new \in Display /\ new.sent = p.totalPacketsSent /\ new.acked = p.totalAcksReceived
      /\ new.latency = shown[n].latency /\ new.energy = shown[n].energy
  <2>1. shown[n] \in Display
    BY <1>2, <1>6
  <2> QED
    BY <2>1, <1>6 DEF Display
<1>8. shown' = [shown EXCEPT ![n] = new]
  BY <1>1 DEF n
<1> HIDE DEF new
<1>9. shown' \in [C2 -> Display]
  BY <1>2, <1>7, <1>8
<1>10. \A m \in C2 : shown'[m] = IF m = n THEN new ELSE shown[m]
  BY <1>2, <1>8
<1>11. ASSUME NEW m \in C2 PROVE Reached(shown[m].acked, shown[m].sent, m)'
  <2>1. Reached(shown'[m].acked, shown'[m].sent, m)
    BY <1>5, <1>7, <1>10 DEF ExportInv
  <2> QED
    BY <2>1, <1>1 DEF Reached
<1>12. ASSUME NEW m \in C2, NEW kind \in ListKinds
       PROVE  Displayed(m, kind)' = Displayed(m, kind) \o Part(packet, m, kind)
  <2>1. Displayed(m, kind)' = Displayed(m, kind)
    BY <1>7, <1>10 DEF Displayed
  <2>2. Part(packet, m, kind) = <<>>
    BY <1>4, CountsPart
  <2>3. Displayed(m, kind) \in Seq(Elements(kind))
    BY <1>2, DisplayIs
  <2> QED
    BY <2>1, <2>2, <2>3, ConcatEmptySeq
<1> QED
  BY <1>1, <1>9, <1>11, <1>12, ExportInvArrives DEF packet

(* A list arrives.                                                         *)
LEMMA ExportInvList ==
  ASSUME ExportInv, NEW kind \in ListKinds, wire # <<>>, wire' = Tail(wire),
         TelemetryHandler[Head(wire)[1]] = kind,
         UNCHANGED <<samples, latency, energy, sentLatency, sentEnergy, acked>>,
         NEW n, n = ReadTelemetry(kind, Head(wire)).nodeId,
         NEW more, more = ReadList(kind, Head(wire)),
         shown' = [shown EXCEPT ![n] =
                     IF kind = "latency" THEN [shown[n] EXCEPT !.latency = @ \o more]
                     ELSE [shown[n] EXCEPT !.energy = @ \o more]]
  PROVE  ExportInv'
<1> DEFINE packet == Head(wire)
           new == IF kind = "latency" THEN [shown[n] EXCEPT !.latency = @ \o more]
                  ELSE [shown[n] EXCEPT !.energy = @ \o more]
<1>1. packet \in TruePackets /\ shown \in [C2 -> Display]
  BY HeadTailProperties DEF ExportInv
<1>2. IsList(packet, kind)
  <2> HIDE DEF packet
  <2>1. packet \in Packets
    BY <1>1 DEF TruePackets
  <2> QED
    BY <2>1, HandlerOf DEF packet
<1>3. n \in C2 /\ more \in Seq(Elements(kind))
  BY <1>2 DEF IsList, Header
<1>4. shown[n] \in Display
  BY <1>1, <1>3
<1>5. /\ new \in Display /\ new.sent = shown[n].sent /\ new.acked = shown[n].acked
      /\ new.latency = (IF kind = "latency" THEN shown[n].latency \o more ELSE shown[n].latency)
      /\ new.energy = (IF kind = "latency" THEN shown[n].energy ELSE shown[n].energy \o more)
  <2>1. CASE kind = "latency"
    <3>1. shown[n].latency \o more \in Seq(Record)
      BY <1>3, <1>4, <2>1, ConcatProperties DEF Display, Elements
    <3> QED
      BY <1>4, <2>1, <3>1 DEF Display
  <2>2. CASE kind = "energy"
    <3>1. shown[n].energy \o more \in Seq(EnergySample)
      BY <1>3, <1>4, <2>2, ConcatProperties DEF Display, Elements
    <3> QED
      BY <1>4, <2>2, <3>1 DEF Display
  <2> QED
    BY <2>1, <2>2 DEF ListKinds
<1>6. shown' = [shown EXCEPT ![n] = new]
  OBVIOUS
<1> HIDE DEF new, packet
<1>7. shown' \in [C2 -> Display]
  BY <1>1, <1>5, <1>6
<1>8. \A m \in C2 : shown'[m] = IF m = n THEN new ELSE shown[m]
  BY <1>1, <1>6
<1>9. ASSUME NEW m \in C2 PROVE Reached(shown[m].acked, shown[m].sent, m)'
  <2>1. Reached(shown[m].acked, shown[m].sent, m)
    BY DEF ExportInv
  <2>2. shown'[m].acked = shown[m].acked /\ shown'[m].sent = shown[m].sent
    BY <1>5, <1>8
  <2> QED
    BY <2>1, <2>2 DEF Reached
<1>10. ASSUME NEW m \in C2, NEW other \in ListKinds
       PROVE  Displayed(m, other)' = Displayed(m, other) \o Part(packet, m, other)
  <2>1. Displayed(m, other) \in Seq(Elements(other))
    BY <1>1, DisplayIs
  <2>2. Part(packet, m, other)
          = IF other = kind /\ ReadTelemetry(other, packet).nodeId = m
            THEN ReadList(other, packet) ELSE <<>>
    BY <1>2, ListPart
  <2>3. Part(packet, m, other) = IF other = kind /\ m = n THEN more ELSE <<>>
    BY <2>2 DEF packet
  <2>4. Displayed(m, other)' = IF other = kind /\ m = n THEN Displayed(m, other) \o more
                               ELSE Displayed(m, other)
    <3>1. Displayed(m, other)'
            = IF other = "latency" THEN shown'[m].latency ELSE shown'[m].energy
      BY DEF Displayed
    <3>2. CASE m # n
      BY <3>1, <3>2, <1>8 DEF Displayed
    <3>3. CASE m = n /\ other = "latency"
      <4>1. Displayed(m, other)' = new.latency /\ Displayed(m, other) = shown[n].latency
        BY <3>1, <3>3, <1>8 DEF Displayed
      <4> QED
        BY <3>3, <4>1, <1>5
    <3>4. CASE m = n /\ other = "energy"
      <4>1. Displayed(m, other)' = new.energy /\ Displayed(m, other) = shown[n].energy
        BY <3>1, <3>4, <1>8 DEF Displayed
      <4>2. kind = "latency" \/ kind = "energy"
        BY DEF ListKinds
      <4> QED
        BY <3>4, <4>1, <4>2, <1>5
    <3> QED
      BY <3>2, <3>3, <3>4 DEF ListKinds
  <2>5. Displayed(m, other) \o <<>> = Displayed(m, other)
    BY <2>1, ConcatEmptySeq
  <2> QED
    BY <2>3, <2>4, <2>5
<1> QED
  BY <1>7, <1>9, <1>10, ExportInvArrives DEF packet

(* An export.                                                              *)
LEMMA ExportInvExport ==
  ASSUME PathInv, DeliveryInv, ExportInv, SampleAndExport
  PROVE  ExportInv'
<1> DEFINE tick == samples'
           order == SetToSeq(C2)
           Q == [i \in DOMAIN order |-> PacketsOf(tick, order[i], energy')]
           Add(n, kind) == New(Recorded(n, kind)', Exported(n, kind))
<1>1. /\ samples' = samples + 1 /\ UNCHANGED <<latency, acked, shown>>
      /\ energy' = [n \in C2 |-> Append(energy[n], [tick |-> tick, energy |-> now])]
      /\ wire' = wire \o FlattenSeq(Q)
      /\ sentLatency' = [n \in C2 |-> Len(latency[n])]
      /\ sentEnergy' = [n \in C2 |-> Len(energy'[n])]
  BY DEF SampleAndExport, Sample, lifeVars, MarkLatency
<1>2. tick \in Nat /\ now \in Nat
  BY <1>1 DEF ExportInv, PathInv, TypeInv
<1>3. ASSUME NEW n \in C2
      PROVE  \E more \in Seq(EnergySample) : /\ energy[n] \in Seq(EnergySample)
                                             /\ energy'[n] = energy[n] \o more
  <2> DEFINE sample == [tick |-> tick, energy |-> now]
  <2>1. sample \in EnergySample
    BY <1>2 DEF EnergySample
  <2>2. energy[n] \in Seq(EnergySample) /\ energy'[n] = Append(energy[n], sample)
    BY <1>1 DEF ExportInv
  <2> HIDE DEF sample
  <2>3. energy'[n] = energy[n] \o <<sample>>
    BY <2>1, <2>2, AppendIsConcat
  <2>4. <<sample>> \in Seq(EnergySample)
    BY <2>1
  <2> QED
    BY <2>2, <2>3, <2>4
<1>4. ASSUME NEW n \in C2, NEW kind \in ListKinds
      PROVE  \E more \in Seq(Elements(kind)) :
               /\ Recorded(n, kind) \in Seq(Elements(kind))
               /\ Recorded(n, kind)' = Recorded(n, kind) \o more
  <2>1. CASE kind = "latency"
    <3>1. latency[n] \in Seq(Record) /\ <<>> \in Seq(Record)
      BY DEF DeliveryInv
    <3>2. latency[n] \o <<>> = latency[n]
      BY <3>1, ConcatEmptySeq
    <3> QED
      BY <1>1, <2>1, <3>1, <3>2 DEF Recorded, Elements
  <2>2. CASE kind = "energy"
    BY <1>3, <2>2 DEF Recorded, Elements
  <2> QED
    BY <2>1, <2>2 DEF ListKinds
<1>5. ASSUME NEW n \in C2, NEW kind \in ListKinds
      PROVE  /\ Recorded(n, kind)' \in Seq(Elements(kind))
             /\ Add(n, kind) \in Seq(Elements(kind))
             /\ Prefix(Recorded(n, kind), Exported(n, kind)) \in Seq(Elements(kind))
             /\ Prefix(Recorded(n, kind), Exported(n, kind)) \o Add(n, kind)
                  = Prefix(Recorded(n, kind)', Len(Recorded(n, kind)'))
  <2> DEFINE old == Recorded(n, kind)
             k == Exported(n, kind)
  <2>1. PICK more \in Seq(Elements(kind)) : Recorded(n, kind)' = old \o more
    BY <1>4
  <2>2. old \in Seq(Elements(kind)) /\ k \in Nat /\ k <= Len(old)
    BY RecordedType
  <2> DEFINE all == old \o more
  <2> HIDE DEF old, k
  <2>3. all \in Seq(Elements(kind)) /\ k <= Len(all)
    <3>1. all \in Seq(Elements(kind))
      BY <2>2, ConcatProperties
    <3>2. Len(all) = Len(old) + Len(more) /\ Len(old) \in Nat /\ Len(more) \in Nat
      BY <2>2, ConcatParts
    <3> QED
      BY <2>2, <3>1, <3>2
  <2>4. Prefix(all, k) = Prefix(old, k)
    BY <2>2, PrefixStays
  <2> HIDE DEF all
  <2>5. /\ New(all, k) \in Seq(Elements(kind)) /\ Prefix(all, k) \in Seq(Elements(kind))
        /\ Prefix(all, k) \o New(all, k) = Prefix(all, Len(all))
    BY <2>2, <2>3, PrefixAndNew
  <2> QED
    BY <2>1, <2>3, <2>4, <2>5 DEF all, old, k
<1>6. ASSUME NEW m \in C2
      PROVE  /\ PacketsOf(tick, m, energy') \in Seq(TruePackets)
             /\ \A n \in C2 : \A kind \in ListKinds :
                  FlattenSeq(Parts(PacketsOf(tick, m, energy'), n, kind))
                    = IF m = n THEN Add(n, kind) ELSE <<>>
  <2>1. /\ Add(m, "latency") = New(latency[m], sentLatency[m])
        /\ Add(m, "energy") = New(energy'[m], sentEnergy[m])
    BY <1>1 DEF Recorded, Exported
  <2>2. /\ New(latency[m], sentLatency[m]) \in Seq(Record)
        /\ New(energy'[m], sentEnergy[m]) \in Seq(EnergySample)
    BY <2>1, <1>5 DEF ListKinds, Elements
  <2> DEFINE sampled == energy'
  <2> HIDE DEF Add, tick
  <2>3. New(sampled[m], sentEnergy[m]) \in Seq(EnergySample)
    BY <2>2
  <2> HIDE DEF sampled
  <2>4. /\ PacketsOf(tick, m, sampled) \in Seq(TruePackets)
        /\ \A n \in C2 : \A kind \in ListKinds :
             FlattenSeq(Parts(PacketsOf(tick, m, sampled), n, kind))
               = IF m # n THEN <<>>
                 ELSE IF kind = "latency" THEN New(latency[m], sentLatency[m])
                 ELSE New(sampled[m], sentEnergy[m])
    BY <1>2, <2>2, <2>3, PacketsWritten
  <2>5. ASSUME NEW n \in C2, NEW kind \in ListKinds
        PROVE  FlattenSeq(Parts(PacketsOf(tick, m, sampled), n, kind))
                 = IF m = n THEN Add(n, kind) ELSE <<>>
    <3>1. kind = "latency" \/ kind = "energy"
      BY DEF ListKinds
    <3> QED
      BY <3>1, <2>1, <2>4 DEF sampled
  <2> QED
    BY <2>4, <2>5 DEF sampled
<1> HIDE DEF Add
<1>7. /\ order \in Seq(C2) /\ DOMAIN order = 1..Len(order)
      /\ \A i, j \in 1..Len(order) : order[i] = order[j] => i = j
      /\ \A n \in C2 : \E i \in 1..Len(order) : order[i] = n
  BY OrderIs, LenProperties
<1> HIDE DEF order
<1>8. /\ Q \in Seq(Seq(TruePackets)) /\ Len(Q) = Len(order)
      /\ \A i \in 1..Len(order) : Q[i] = PacketsOf(tick, order[i], energy')
  <2>1. \A i \in 1..Len(order) : order[i] \in C2
    BY <1>7, ElementOfSeq
  <2>2. Len(order) \in Nat
    BY <1>7, LenProperties
  <2> HIDE DEF tick
  <2> QED
    BY <1>6, <1>7, <2>1, <2>2
<1> HIDE DEF Q, tick
<1>9. FlattenSeq(Q) \in Seq(TruePackets)
  BY <1>8, FlattenType
<1>10. Q \in Seq(Seq(Packets))
  <2>1. \A i \in 1..Len(Q) : Q[i] \in Seq(Packets)
    BY <1>8, TrueSeq, ElementOfSeq
  <2> QED
    BY <1>8, <2>1, SeqOfOthers
<1>11. ASSUME NEW n \in C2, NEW kind \in ListKinds
       PROVE  FlattenSeq(Parts(FlattenSeq(Q), n, kind)) = Add(n, kind)
  <2> DEFINE v == Add(n, kind)
  <2>1. v \in Seq(Elements(kind)) /\ \E i \in 1..Len(order) : order[i] = n
    BY <1>5, <1>7
  <2>2. ASSUME NEW i \in 1..Len(order)
        PROVE  FlattenSeq(Parts(Q[i], n, kind)) = IF order[i] = n THEN v ELSE <<>>
    <3>1. order[i] \in C2
      BY <1>7, ElementOfSeq
    <3> QED
      BY <3>1, <1>6, <1>8
  <2> HIDE DEF v
  <2> QED
    <3>1. Len(Q) = Len(order) /\ \E i \in 1..Len(order) : order[i] = n
      BY <1>8, <2>1
    <3>2. \A i, j \in 1..Len(order) : order[i] = order[j] => i = j
      BY <1>7
    <3>3. order \in Seq(C2)
      BY <1>7
    <3>4. v \in Seq(Elements(kind))
      BY <2>1
    <3>5. FlattenSeq(Parts(FlattenSeq(Q), n, kind)) = v
      BY <1>10, <2>2, <3>1, <3>2, <3>3, <3>4, ExportOfNode
    <3> QED
      BY <3>5 DEF v
<1>12. wire' \in Seq(TruePackets)
  BY <1>1, <1>9, ConcatProperties DEF ExportInv
<1>13. ASSUME NEW n \in C2, NEW kind \in ListKinds
       PROVE  /\ Exported(n, kind)' = Len(Recorded(n, kind)')
              /\ Exported(n, kind)' \in Nat
              /\ Displayed(n, kind)' = Displayed(n, kind)
              /\ Displayed(n, kind) \o FlattenSeq(Parts(wire', n, kind))
                   = Prefix(Recorded(n, kind)', Len(Recorded(n, kind)'))
  <2> DEFINE shownNow == Displayed(n, kind)
             way == FlattenSeq(Parts(wire, n, kind))
             v == Add(n, kind)
             S == Elements(kind)
  <2>1. Exported(n, kind)' = Len(Recorded(n, kind)') /\ Displayed(n, kind)' = Displayed(n, kind)
    BY <1>1 DEF Exported, Recorded, Displayed
  <2>2. Len(Recorded(n, kind)') \in Nat
    BY <1>5, LenProperties
  <2>3. wire \in Seq(TruePackets) /\ shown \in [C2 -> Display]
    BY DEF ExportInv
  <2>4. shownNow \in Seq(S) /\ way \in Seq(S) /\ v \in Seq(S)
    BY <2>3, <1>5, DisplayIs, TrueSeq, PartsType, FlattenType
  <2>5. FlattenSeq(Parts(wire', n, kind)) = way \o v
    <3> DEFINE more == FlattenSeq(Q)
    <3>1. wire \in Seq(Packets) /\ more \in Seq(Packets) /\ wire' = wire \o more
      BY <2>3, <1>1, <1>9, TrueSeq
    <3> HIDE DEF more
    <3>2. FlattenSeq(Parts(wire \o more, n, kind)) = way \o FlattenSeq(Parts(more, n, kind))
      BY <3>1, PartsConcat
    <3> QED
      BY <3>1, <3>2, <1>11 DEF more
  <2>6. shownNow \o way = Prefix(Recorded(n, kind), Exported(n, kind))
    BY DEF ExportInv
  <2>7. Prefix(Recorded(n, kind), Exported(n, kind)) \o v
          = Prefix(Recorded(n, kind)', Len(Recorded(n, kind)'))
    BY <1>5
  <2> HIDE DEF shownNow, way, v, S
  <2>8. (shownNow \o way) \o v = shownNow \o (way \o v)
    BY <2>4, ConcatAssociative
  <2> QED
    BY <2>1, <2>2, <2>5, <2>6, <2>7, <2>8 DEF shownNow
<1>14. energy' \in [C2 -> Seq(EnergySample)]
  <2>1. \A n \in C2 : energy'[n] \in Seq(EnergySample)
    BY <1>3, ConcatProperties
  <2>2. energy' = [n \in C2 |-> energy'[n]]
    BY <1>1
  <2> QED
    BY <2>1, <2>2
<1>15. /\ sentLatency' \in [C2 -> Nat] /\ sentEnergy' \in [C2 -> Nat]
  <2>1. ASSUME NEW n \in C2 PROVE Len(latency[n]) \in Nat /\ Len(energy'[n]) \in Nat
    BY <1>14, LenProperties DEF DeliveryInv
  <2> QED
    BY <1>1, <2>1
<1>16. TruePackets' = TruePackets
  BY <1>1 DEF TruePackets, Reached
<1>17. \A n \in C2 : Reached(shown[n].acked, shown[n].sent, n)'
  BY <1>1 DEF ExportInv, Reached
<1>18. samples' \in Nat /\ shown' \in [C2 -> Display]
  BY <1>1 DEF ExportInv
<1>19. ASSUME NEW n \in C2, NEW kind \in ListKinds
       PROVE  /\ Exported(n, kind)' <= Len(Recorded(n, kind)')
              /\ Displayed(n, kind)' \o FlattenSeq(Parts(wire', n, kind))
                   = Prefix(Recorded(n, kind)', Exported(n, kind)')
  <2>1. /\ Exported(n, kind)' = Len(Recorded(n, kind)') /\ Exported(n, kind)' \in Nat
        /\ Displayed(n, kind)' \o FlattenSeq(Parts(wire', n, kind))
             = Prefix(Recorded(n, kind)', Len(Recorded(n, kind)'))
    BY <1>13
  <2>2. Exported(n, kind)' <= Len(Recorded(n, kind)')
    BY <2>1
  <2> QED
    BY <2>1, <2>2
<1> QED
  BY <1>12, <1>14, <1>15, <1>16, <1>17, <1>18, <1>19 DEF ExportInv

(* The radio: what is recorded only gets longer.                           *)
LEMMA ExportInvRadio ==
  ASSUME PathInv, PathInv', DeliveryInv, DeliveryInv', ExportInv, NEW n \in C2, Radio(n)
  PROVE  ExportInv'
<1>1. UNCHANGED <<wire, shown, energy, sentLatency, sentEnergy, samples>>
  BY DEF Radio, TransmitData, Lose, HearAtRelay, DeliverToC3, LoseAck, HearAck,
         nodeVars, guiVars
<1>2. \A m \in C2 : DOMAIN acked[m] \subseteq DOMAIN acked'[m]
  <2>1. DOMAIN acked = C2
    BY DEF PathInv, TypeInv
  <2>2. CASE TransmitData(n)
    <3>1. acked' = [acked EXCEPT ![n] = With(acked[n], nextId, FALSE)]
      BY <2>2 DEF TransmitData, RecordTransmission
    <3>2. DOMAIN acked[n] \subseteq DOMAIN With(acked[n], nextId, FALSE)
      BY DEF With
    <3> QED
      BY <2>1, <3>1, <3>2
  <2>3. CASE HearAck(n)
    <3>1. acked' = RecordAck(n, Lookup(n, counter[n]))
      BY <2>3 DEF HearAck
    <3> DEFINE id == Lookup(n, counter[n])
    <3> HIDE DEF id
    <3>2. acked' = RecordAck(n, id)
      BY <3>1 DEF id
    <3> QED
      BY <2>1, <3>2 DEF RecordAck
  <2>4. CASE Lose(n) \/ HearAtRelay(n) \/ DeliverToC3(n) \/ LoseAck(n)
    BY <2>4 DEF Lose, HearAtRelay, DeliverToC3, LoseAck, lifeVars
  <2> QED
    BY <2>2, <2>3, <2>4 DEF Radio
<1>3. ASSUME NEW m \in C2
      PROVE  \E more \in Seq(Record) : latency'[m] = latency[m] \o more
  <2>1. latency[m] \in Seq(Record) /\ latency'[m] \in Seq(Record)
    BY DEF DeliveryInv
  <2>2. CASE latency' = latency
    <3>1. <<>> \in Seq(Record) /\ latency[m] \o <<>> = latency[m]
      BY <2>1, ConcatEmptySeq
    <3> QED
      BY <2>2, <3>1
  <2>3. CASE DeliverToC3(n) /\ latency' # latency
    <3> DEFINE id == Lookup(n, counter[n])
               times == TimesOnPath(registry[id])
    <3>1. /\ id \in DOMAIN registry
          /\ latency' = [l \in C2 |-> latency[l] \o Deliveries(id, times[l], now')]
          /\ now' = now + 1 /\ now \in Nat
      BY <2>3 DEF DeliverToC3, PathInv, TypeInv
    <3>2. PathUntil(registry[id], now) /\ id \in Nat
      BY <3>1 DEF PathInv, RegistryInv
    <3>3. times[m] \in Seq(Nat)
      BY <3>1, <3>2, TimesAre DEF Timed
    <3> HIDE DEF id, times
    <3>4. Deliveries(id, times[m], now') \in Seq(Record)
      BY <3>1, <3>2, <3>3, DeliveriesAre
    <3> QED
      BY <3>1, <3>4
  <2>4. CASE ~DeliverToC3(n)
    <3>1. latency' = latency
      BY <2>4 DEF Radio, TransmitData, Lose, HearAtRelay, LoseAck, HearAck, nodeVars
    <3> QED
      BY <2>2, <3>1
  <2> QED
    BY <2>2, <2>3, <2>4
<1>4. ASSUME NEW m \in C2, NEW kind \in ListKinds
      PROVE  \E more \in Seq(Elements(kind)) : Recorded(m, kind)' = Recorded(m, kind) \o more
  <2>1. CASE kind = "latency"
    BY <1>3, <2>1 DEF Recorded, Elements
  <2>2. CASE kind = "energy"
    <3>1. energy[m] \in Seq(EnergySample) /\ <<>> \in Seq(EnergySample)
      BY DEF ExportInv
    <3>2. energy[m] \o <<>> = energy[m]
      BY <3>1, ConcatEmptySeq
    <3> QED
      BY <1>1, <2>2, <3>1, <3>2 DEF Recorded, Elements
  <2> QED
    BY <2>1, <2>2 DEF ListKinds
<1>5. samples' \in Nat /\ energy' \in [C2 -> Seq(EnergySample)]
  BY <1>1 DEF ExportInv
<1> QED
  BY <1>1, <1>2, <1>4, <1>5, ExportInvKept

(* A sample that is not exported yet.                                      *)
LEMMA ExportInvSample ==
  ASSUME PathInv, PathInv', DeliveryInv, ExportInv, SampleOnly
  PROVE  ExportInv'
<1>1. /\ UNCHANGED <<wire, shown, latency, acked, sentLatency, sentEnergy>>
      /\ samples' = samples + 1
      /\ energy' = [n \in C2 |-> Append(energy[n], [tick |-> samples', energy |-> now])]
  BY DEF SampleOnly, Sample, lifeVars
<1>2. samples' \in Nat /\ now \in Nat
  BY <1>1 DEF ExportInv, PathInv, TypeInv
<1> DEFINE sample == [tick |-> samples', energy |-> now]
<1>3. sample \in EnergySample
  BY <1>2 DEF EnergySample
<1> HIDE DEF sample
<1>4. ASSUME NEW n \in C2
      PROVE  /\ energy'[n] = energy[n] \o <<sample>> /\ energy'[n] \in Seq(EnergySample)
             /\ <<sample>> \in Seq(EnergySample)
  <2>1. energy[n] \in Seq(EnergySample) /\ energy'[n] = Append(energy[n], sample)
    BY <1>1 DEF ExportInv, sample
  <2>2. <<sample>> \in Seq(EnergySample)
    BY <1>3
  <2> QED
    BY <1>3, <2>1, <2>2, AppendIsConcat, AppendProperties
<1>5. energy' \in [C2 -> Seq(EnergySample)]
  BY <1>1, <1>4
<1>6. ASSUME NEW m \in C2, NEW kind \in ListKinds
      PROVE  \E more \in Seq(Elements(kind)) : Recorded(m, kind)' = Recorded(m, kind) \o more
  <2>1. CASE kind = "latency"
    <3>1. latency[m] \in Seq(Record) /\ <<>> \in Seq(Record)
      BY DEF DeliveryInv
    <3>2. latency[m] \o <<>> = latency[m]
      BY <3>1, ConcatEmptySeq
    <3> QED
      BY <1>1, <2>1, <3>1, <3>2 DEF Recorded, Elements
  <2>2. CASE kind = "energy"
    BY <1>4, <2>2 DEF Recorded, Elements
  <2> QED
    BY <2>1, <2>2 DEF ListKinds
<1>7. \A m \in C2 : DOMAIN acked[m] \subseteq DOMAIN acked'[m]
  BY <1>1
<1> QED
  BY <1>1, <1>2, <1>5, <1>6, <1>7, ExportInvKept

(* Every step.                                                             *)
LEMMA ExportInvNext ==
  ASSUME PathInv, PathInv', DeliveryInv, DeliveryInv', ExportInv, [Next]_vars
  PROVE  ExportInv'
<1>1. CASE AddLatencyRecords
  <2> DEFINE n == ReadTelemetry("latency", Head(wire)).nodeId
             more == ReadList("latency", Head(wire))
  <2>1. /\ wire # <<>> /\ wire' = Tail(wire) /\ TelemetryHandler[Head(wire)[1]] = "latency"
        /\ shown' = [shown EXCEPT ![n] = [shown[n] EXCEPT !.latency = @ \o more]]
        /\ UNCHANGED <<samples, latency, energy, sentLatency, sentEnergy, acked>>
    BY <1>1 DEF AddLatencyRecords, Receive, nodeVars, lifeVars
  <2>2. "latency" \in ListKinds
    BY DEF ListKinds
  <2> HIDE DEF n, more
  <2> QED
    BY <2>1, <2>2, ExportInvList DEF n, more
<1>2. CASE AddEnergySamples
  <2> DEFINE n == ReadTelemetry("energy", Head(wire)).nodeId
             more == ReadList("energy", Head(wire))
  <2>1. /\ wire # <<>> /\ wire' = Tail(wire) /\ TelemetryHandler[Head(wire)[1]] = "energy"
        /\ shown' = [shown EXCEPT ![n] = [shown[n] EXCEPT !.energy = @ \o more]]
        /\ UNCHANGED <<samples, latency, energy, sentLatency, sentEnergy, acked>>
    BY <1>2 DEF AddEnergySamples, Receive, nodeVars, lifeVars
  <2>2. "energy" \in ListKinds
    BY DEF ListKinds
  <2> HIDE DEF n, more
  <2> QED
    BY <2>1, <2>2, ExportInvList DEF n, more
<1>3. CASE UNCHANGED vars
  <2>1. UNCHANGED <<samples, energy, sentLatency, sentEnergy, shown, wire, latency, acked>>
    BY <1>3 DEF vars, nodeVars, lifeVars, guiVars
  <2> QED
    BY <2>1 DEF ExportInv, TruePackets, Reached, Exported, Recorded, Displayed
<1> QED
  BY <1>1, <1>2, <1>3, ExportInvRadio, ExportInvSample, ExportInvExport, ExportInvCounts
  DEF Next

(* At the start nothing was recorded, exported or shown.                   *)
LEMMA ExportInvInit == Init => ExportInv
<1> SUFFICES ASSUME Init PROVE ExportInv
  OBVIOUS
<1>1. /\ samples = 0 /\ wire = <<>> /\ energy = [n \in C2 |-> <<>>]
      /\ latency = [n \in C2 |-> <<>>] /\ acked = [n \in C2 |-> <<>>]
      /\ sentLatency = [n \in C2 |-> 0] /\ sentEnergy = [n \in C2 |-> 0]
      /\ shown = [n \in C2 |-> [sent |-> 0, acked |-> 0, latency |-> <<>>, energy |-> <<>>]]
  BY DEF Init
<1>2. /\ samples \in Nat /\ energy \in [C2 -> Seq(EnergySample)]
      /\ sentLatency \in [C2 -> Nat] /\ sentEnergy \in [C2 -> Nat]
      /\ wire \in Seq(TruePackets)
  BY <1>1
<1>3. shown \in [C2 -> Display]
  <2>1. [sent |-> 0, acked |-> 0, latency |-> <<>>, energy |-> <<>>] \in Display
    BY DEF Display
  <2> QED
    BY <1>1, <2>1
<1>4. \A n \in C2 : Reached(shown[n].acked, shown[n].sent, n)
  <2> SUFFICES ASSUME NEW n \in C2 PROVE Reached(shown[n].acked, shown[n].sent, n)
    OBVIOUS
  <2>1. shown[n].acked = 0 /\ shown[n].sent = 0 /\ DOMAIN acked[n] = {}
    BY <1>1
  <2>2. Cardinality(DOMAIN acked[n]) = 0
    BY <2>1, FS_EmptySet
  <2> QED
    BY <2>1, <2>2 DEF Reached
<1>5. ASSUME NEW n \in C2, NEW kind \in ListKinds
      PROVE  /\ Exported(n, kind) <= Len(Recorded(n, kind))
             /\ Displayed(n, kind) \o FlattenSeq(Parts(wire, n, kind))
                  = Prefix(Recorded(n, kind), Exported(n, kind))
  <2>1. Exported(n, kind) = 0 /\ Recorded(n, kind) = <<>> /\ Displayed(n, kind) = <<>>
    BY <1>1 DEF Exported, Recorded, Displayed
  <2>2. Parts(wire, n, kind) = <<>>
    BY <1>1 DEF Parts
  <2>3. <<>> \o <<>> = <<>> /\ Prefix(<<>>, 0) = <<>> /\ Len(<<>>) = 0
    BY ConcatEmptySeq, EmptySeq, SubSeqEmpty DEF Prefix
  <2> QED
    BY <2>1, <2>2, <2>3, FlattenEmpty
<1> QED
  BY <1>2, <1>3, <1>4, <1>5 DEF ExportInv

(* The GUI has, or has on the way, every record that was exported, once    *)
(* and in order, and shows counts that the nodes reached (the indices that *)
(* NodeMetrics keeps of the last export).                                  *)
THEOREM ShownIsRecordedAlways == Spec => []ShownIsRecorded
<1>1. Init => PathInv /\ DeliveryInv /\ ExportInv
  BY PathInvInit, DeliveryInvInit, ExportInvInit
<1>2. PathInv /\ DeliveryInv /\ ExportInv /\ [Next]_vars
        => (PathInv /\ DeliveryInv /\ ExportInv)'
  BY PathInvNext, DeliveryInvNext, ExportInvNext
<1>3. PathInv /\ DeliveryInv /\ ExportInv => ShownIsRecorded
  BY ExportInvSuffices
<1> QED
  BY <1>1, <1>2, <1>3, PTL DEF Spec
==============================================================================
