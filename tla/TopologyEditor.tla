----------------------------- MODULE TopologyEditor -----------------------------
(***************************************************************************)
(* The topology editor of the GUI (TopologyEditorScreen, -Manager, -State) *)
(* between the files it opens and the files it saves.                      *)
(*                                                                         *)
(* A click goes to every device under the pointer, one after the other, in *)
(* the order of an unordered map: hovered holds those the click has still  *)
(* to reach, and no other input is handled in between.  Devices drawn over *)
(* each other are all hovered, so one click can give both ends of a link.  *)
(* A frame with several events handles the same click once for each: that  *)
(* is a click again.  Positions and the moving of nodes are left out.      *)
(*                                                                         *)
(* The file is the one last written.  Saving leaves the drawing as it is,  *)
(* so drawing on after a save is drawing on without it: here the next step *)
(* after a save is to leave.                                               *)
(***************************************************************************)
EXTENDS TopologyFile

CONSTANTS MaxId,       \* bound: identifiers given
          MaxBefore,   \* bound: identifiers given while a file waits to be opened
          MaxHovered,  \* bound: devices under the pointer
          TreeSizes    \* sizes of the generated files

ASSUME TopologyAssumption == MaxId \in Nat /\ MaxHovered \in Nat /\ TreeSizes \subseteq Nat

VARIABLES screen,               \* "home" or "editor"
          nodes, routings,      \* TopologyEditorState
          nodeCounter,
          link,                 \* PendingLink
          mode,                 \* EditorMode
          hovered,              \* the devices the click has still to reach
          opening, saving,      \* the file dialogs
          file, origin          \* the file, and "saved", "generated", "edited"

drawing == <<nodes, routings, nodeCounter>>
dialogs == <<opening, saving>>
vars == <<screen, drawing, link, mode, hovered, dialogs, file, origin>>

Modes == {"Idle", "AddingC2Node", "AddingC3Node", "AddingLink", "CuttingNode", "CuttingLink"}

NoMap == [n \in {} |-> {}]

WithEntry(map, key, value) ==
  [k \in DOMAIN map \cup {key} |-> IF k = key THEN value ELSE map[k]]

EmptyState ==
  /\ nodes = NoMap /\ routings = NoMap /\ nodeCounter = 0
  /\ link = <<>> /\ mode = "Idle" /\ hovered = {}

EmptyStateNext ==
  /\ nodes' = NoMap /\ routings' = NoMap /\ nodeCounter' = 0
  /\ link' = <<>> /\ mode' = "Idle" /\ hovered' = {}

Init ==
  /\ EmptyState
  /\ screen = "home" /\ opening = FALSE /\ saving = FALSE
  /\ \/ file = <<>> /\ origin = "saved"
     \/ file \in UNION {Generated(n) : n \in TreeSizes} /\ origin = "generated"

-------------------------------------------------------------------------------
(* The screens: each is a new object with a new state.                     *)

NewTopology ==
  /\ screen = "home"
  /\ screen' = "editor" /\ file' = <<>> /\ origin' = "saved"
  /\ UNCHANGED <<drawing, link, mode, hovered, dialogs>>

EditTopology ==
  /\ screen = "home" /\ file # <<>>
  /\ screen' = "editor" /\ opening' = TRUE
  /\ UNCHANGED <<drawing, link, mode, hovered, saving, file, origin>>

Leave ==
  /\ screen = "editor" /\ hovered = {}
  /\ screen' = "home" /\ opening' = FALSE /\ saving' = FALSE
  /\ EmptyStateNext
  /\ UNCHANGED <<file, origin>>

-------------------------------------------------------------------------------
(* The editor.                                                             *)

Drawing == screen = "editor" /\ hovered = {} /\ (file = <<>> \/ opening)

(* A button pressed again is released, and keeps the link.                 *)
PressTool ==
  /\ Drawing
  /\ \E m \in Modes \ {"Idle"} :
       IF mode = m THEN mode' = "Idle" /\ UNCHANGED link
       ELSE mode' = m /\ link' = <<>>
  /\ UNCHANGED <<screen, drawing, hovered, dialogs, file, origin>>

AddNode ==
  /\ Drawing /\ mode \in {"AddingC2Node", "AddingC3Node"}
  /\ nodeCounter < IF opening THEN MaxBefore ELSE MaxId
  /\ nodeCounter' = nodeCounter + 1
  /\ nodes' = WithEntry(nodes, nodeCounter', IF mode = "AddingC2Node" THEN "C2" ELSE "C3")
  /\ UNCHANGED <<screen, routings, link, mode, hovered, dialogs, file, origin>>

Click ==
  /\ Drawing /\ mode \in {"AddingLink", "CuttingNode", "CuttingLink"}
  /\ hovered' \in {H \in SUBSET DOMAIN nodes : Cardinality(H) \in 1..MaxHovered}
  /\ UNCHANGED <<screen, drawing, link, mode, dialogs, file, origin>>

Reached(n) == n \in hovered /\ hovered' = hovered \ {n}

(* addRouting: both ends have to exist and to differ.                      *)
LinkAllowed(a, b) == a # b /\ {a, b} \subseteq DOMAIN nodes

LinkAdded(a, b) ==
  IF LinkAllowed(a, b) THEN WithEntry(routings, a, Linked(routings, a) \cup {b})
  ELSE routings

(* removeSpecificRouting: the entry is made when it is missing, and stays  *)
(* when it is empty.                                                       *)
LinkCut(a, b) ==
  IF {a, b} \subseteq DOMAIN nodes
    THEN WithEntry(routings, a, Linked(routings, a) \ {b})
    ELSE routings

ReachLink ==
  /\ mode \in {"AddingLink", "CuttingLink"}
  /\ \E n \in hovered :
       /\ Reached(n)
       /\ IF link = <<>> THEN link' = <<n>> /\ UNCHANGED routings
          ELSE /\ link' = <<>>
               /\ routings' = IF mode = "AddingLink" THEN LinkAdded(link[1], n)
                              ELSE LinkCut(link[1], n)
  /\ UNCHANGED <<screen, nodes, nodeCounter, mode, dialogs, file, origin>>

\* slip: the first of the two calls of removeRouting ends with the outbound links
WithoutOutbound(n) == [m \in DOMAIN routings \ {n} |-> routings[m]]

(* removeRouting: the entry of the node, and the node in every other.      *)
WithoutNode(n) == [m \in DOMAIN routings \ {n} |-> routings[m] \ {n}]

ReachCutNode ==
  /\ mode = "CuttingNode"
  /\ \E n \in hovered :
       /\ Reached(n)
       /\ routings' = WithoutNode(n)
       /\ nodes' = [m \in DOMAIN nodes \ {n} |-> nodes[m]]
  /\ UNCHANGED <<screen, nodeCounter, link, mode, dialogs, file, origin>>

-------------------------------------------------------------------------------
(* The dialogs.  Neither blocks the editor.                                *)

PressSave ==
  /\ Drawing
  /\ mode' = "Idle" /\ link' = <<>>
  /\ saving' = (saving \/ DOMAIN nodes # {})
  /\ UNCHANGED <<screen, drawing, hovered, opening, file, origin>>

SaveFile ==
  /\ Drawing /\ saving
  /\ saving' = FALSE
  /\ IF Writable(nodes, routings)
       THEN file' = FileOf(nodes, routings) /\ origin' = "saved" /\ opening' = FALSE
       ELSE UNCHANGED <<file, origin, opening>>
  /\ UNCHANGED <<screen, drawing, link, mode, hovered>>

LargestId(lines) ==
  CHOOSE n \in FileIds(lines) \cup {0} : \A m \in FileIds(lines) : m <= n

(* read clears the state, but neither the link nor the mode, and a file it *)
(* refuses leaves what was read by then: the k lines before an unknown     *)
(* class, without their routes.                                            *)
OpenFile ==
  /\ Drawing /\ opening
  /\ opening' = FALSE
  /\ \E k \in 0..Len(file) :
       LET lines == SubSeq(file, 1, k)
       IN  /\ ClassesKnown(lines)
           /\ nodes' = ReadNodes(lines) /\ nodeCounter' = LargestId(lines)
           /\ \/ k = Len(file) /\ routings' \in ReadRoutings(file)
              \/ k < Len(file) /\ file[k + 1].class \notin DeviceClass /\ routings' = NoMap
  /\ file' = <<>> /\ origin' = "saved"
  /\ UNCHANGED <<screen, link, mode, hovered, saving>>

-------------------------------------------------------------------------------
(* A line of the file changed by hand, which is plain text.  It is the     *)
(* only way to a C1, which the editor knows but has no tool for, and to a  *)
(* class that nothing knows.                                               *)

EditedLines(l) ==
  {[l EXCEPT !.id = n] : n \in 1..MaxId} \cup
  {[l EXCEPT !.class = c] : c \in DeviceClass \cup {"unknown"}} \cup
  {[l EXCEPT !.nextHop = n] : n \in 0..MaxId} \cup
  {[l EXCEPT !.hopCount = k] : k \in 0..MaxId}

EditByHand ==
  /\ screen = "home" /\ file # <<>> /\ origin # "edited"
  /\ \E i \in DOMAIN file :
       \/ \E l \in EditedLines(file[i]) : file' = [file EXCEPT ![i] = l]
       \/ Len(file) > 1 /\ file' = RemoveAt(file, i)
  /\ origin' = "edited"
  /\ UNCHANGED <<screen, drawing, link, mode, hovered, dialogs>>

Next ==
  \/ NewTopology \/ EditTopology \/ Leave
  \/ PressTool \/ AddNode \/ Click \/ ReachLink \/ ReachCutNode
  \/ PressSave \/ SaveFile \/ OpenFile
  \/ EditByHand

Spec == Init /\ [][Next]_vars

-------------------------------------------------------------------------------
(* The drawing is a graph over its nodes: every link, and every entry, is  *)
(* of devices that exist, and a new node gets an identifier nobody has.    *)
(* drawRootings throws otherwise, and computeRoutingInfo reads a device    *)
(* that is not there.                                                      *)
LinksJoinNodes ==
  /\ \A a \in DOMAIN routings :
       a \in DOMAIN nodes /\ routings[a] \subseteq DOMAIN nodes
  /\ \A n \in DOMAIN nodes : n <= nodeCounter

(* A file just saved is the drawing, but for links that start at a         *)
(* gateway: it opens again with the same devices and links, every hop      *)
(* count is one more than the next hop's, the simulator refuses it only    *)
(* for a C1, which the editor can have from a file changed by hand, and    *)
(* crashes with what it deploys only if a C2 was left without a link.      *)
HopCountOf(n) ==
  IF \E i \in DOMAIN file : file[i].id = n
    THEN LastOf(file, {i \in DOMAIN file : file[i].id = n}).hopCount ELSE Absent

SavedAsDrawn ==
  (screen = "editor" /\ file # <<>> /\ ~opening) =>
    /\ ReadNodes(file) = nodes
    /\ ReadRoutings(file) =
         {[n \in {m \in DOMAIN routings : nodes[m] # "C3" /\ routings[m] # {}} |-> routings[n]]}
    /\ Deploys(file) <=> \A n \in DOMAIN nodes : nodes[n] # "C1"
    /\ \A i \in DOMAIN file :
         file[i].nextHop # Absent =>
           file[i].hopCount = HopCountOf(file[i].nextHop) + 1
    /\ Deploys(file) =>
         (CrashesAtStart(file) <=>
            \E n \in DOMAIN nodes : nodes[n] = "C2" /\ Linked(routings, n) = {})

(* A file verify_topology.py passes, with identifiers that are unique,     *)
(* gateways without a route and a whole one for the devices the script     *)
(* does not know, is one the other tools take as it is, but for those      *)
(* devices: the script says all others are C2 and only warns of them, the  *)
(* simulator refuses the file, and the editor takes a C1 but not an        *)
(* unknown class.  Without them the simulator deploys and starts it, and   *)
(* the editor opens it and would save it back with the same lines.  The    *)
(* files of the generator pass and have none.                              *)
VerifiedFilesWork ==
  LET drawn == ReadNodes(file)
      others == {i \in DOMAIN file : file[i].class \notin SimulatedClass}
      plain == \A i \in DOMAIN file :
        /\ file[i].class = "C3" => file[i].nextHop = Absent /\ file[i].hopCount = Absent
        /\ i \in others => file[i].nextHop # Absent /\ file[i].hopCount # Absent
  IN  file # <<>> =>
        /\ origin = "generated" => VerifyPasses(file) /\ IdsUnique(file) /\ others = {}
        /\ (VerifyPasses(file) /\ IdsUnique(file) /\ plain) =>
             /\ Deploys(file) <=> others = {}
             /\ ~CrashesAtStart(file)
             /\ ClassesKnown(file) =>
                  /\ HopsExist(file)
                  /\ \A routes \in ReadRoutings(file) :
                       Writable(drawn, routes) /\ ToSet(FileOf(drawn, routes)) = ToSet(file)
===============================================================================
