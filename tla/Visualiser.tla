------------------------------- MODULE Visualiser -------------------------------
(***************************************************************************)
(* The GUI process while a simulation is watched: TcpServer with its       *)
(* receive thread, ClientConnectionMonitor, ProtocolVisualiser with its    *)
(* managers, UIController and SimulationController.                        *)
(*                                                                         *)
(* Three threads share the scene, the widgets and the connection: the user *)
(* interface ("ui", the button handlers), the connection monitor           *)
(* ("monitor", which polls the session flag) and the server thread (net).  *)
(* A handler that takes several steps is a sequence of step names in       *)
(* todo; between two of them the other threads run.                        *)
(*                                                                         *)
(* The simulator at the other end is what CommandManager makes of it: it   *)
(* ignores every command but a launch unless its running flag is set, and  *)
(* its send queue survives a stop.                                         *)
(***************************************************************************)
EXTENDS PacketFormats

CONSTANTS
  Parent,        \* the deployment: every mesh node -> its next hop
  Order,         \* all its nodes, in the order of the topology file
  MaxSessions,   \* bound: connections accepted
  MaxEvents,     \* bound: connections accepted and commands given, together
  MaxQueue       \* bound: commands on their way

ASSUME VisualiserAssumption ==
  /\ Len(Order) \in Nat
  /\ MaxSessions \in Nat /\ MaxEvents \in Nat /\ MaxQueue \in Nat \ {0}

VARIABLES
  todo,          \* the steps the handlers of "ui" and "monitor" have left
  net,           \* the server thread: "loop", "insert route", "drop flag", "gone"
  client,        \* TcpServer::client is set
  stale,         \* the selector still holds a socket that was destroyed
  connected,     \* ClientSession
  lastStatus,    \* ClientConnectionMonitor::run
  devices, routes,          \* DeviceManager, RoutingManager
  shown, enabled,           \* the widgets visible, and able to be pressed
  dialog,                   \* the file dialog is open
  topology,                 \* SimulationConfiguration holds a topology
  running,                  \* SimulationController::running
  attached,      \* the simulator's end of the connection is open
  sim,           \* "idle", "launching", "running", "paused"
  unsent,        \* packets to the GUI: the simulator's send queue, each its type
                 \* and the node it is about
  commands,      \* on their way, each its type
  sessions, presses,
  slipped        \* history: a command was lost, ignored or not sent

sceneVars == <<devices, routes>>
linkVars == <<net, client, stale, connected>>
widgetVars == <<shown, enabled, dialog>>
wireVars == <<attached, sim, unsent, commands>>
countVars == <<sessions, presses>>
vars == <<todo, linkVars, lastStatus, sceneVars, widgetVars, topology, running,
          wireVars, countVars, slipped>>

Handlers == {"ui", "monitor"}
Idle(t) == todo[t] = <<>>
Next1(t, step) == ~Idle(t) /\ Head(todo[t]) = step
Done(t) == todo' = [todo EXCEPT ![t] = Tail(@)]

MeshNodes == DOMAIN Parent

-------------------------------------------------------------------------------
(* The scene.                                                              *)

ClearDevices(t) ==
  /\ Next1(t, "clear devices")
  /\ devices' = {}
  /\ Done(t)
  /\ UNCHANGED <<linkVars, lastStatus, routes, widgetVars, topology, running,
                 wireVars, countVars, slipped>>

(* addRouting holds the lock of the table from its look at the devices to  *)
(* its insertion.                                                          *)
ClearRoutes(t) ==
  /\ Next1(t, "clear routes")
  /\ net # "insert route"
  /\ routes' = {}
  /\ Done(t)
  /\ UNCHANGED <<linkVars, lastStatus, devices, widgetVars, topology, running,
                 wireVars, countVars, slipped>>

ResetConfiguration(t) ==
  /\ Next1(t, "reset")
  /\ topology' = FALSE
  /\ Done(t)
  /\ UNCHANGED <<linkVars, lastStatus, sceneVars, widgetVars, running, wireVars,
                 countVars, slipped>>

\* slip: the routes go before the devices
RoutesFirst == <<"clear routes", "clear devices">>

ClearScene == <<"clear devices", "clear routes">>

-------------------------------------------------------------------------------
(* The widgets.                                                            *)

Widgets(t, step, show, hide, on, off) ==
  /\ Next1(t, step)
  /\ shown' = (shown \ hide) \cup show
  /\ enabled' = (enabled \ off) \cup on
  /\ Done(t)
  /\ UNCHANGED <<linkVars, lastStatus, sceneVars, dialog, topology, running,
                 wireVars, countVars, slipped>>

ShowReady(t) ==
  Widgets(t, "ready", {"connected", "files", "start"}, {"stop", "restart"}, {"files", "start"}, {})
HideAll(t) ==
  Widgets(t, "hidden", {}, {"connected", "files", "stop", "restart", "pause", "resume"}, {}, {"start"})
ShowStarted(t) ==
  Widgets(t, "started", {"pause", "stop", "restart"}, {"start"}, {"pause"}, {"files"})
ShowRunning(t) == Widgets(t, "runs", {"pause"}, {"resume"}, {"pause"}, {"resume"})
ShowPaused(t) == Widgets(t, "paused", {"resume"}, {"pause"}, {"resume"}, {"pause"})
ShowStopped(t) ==
  Widgets(t, "stopped", {"start"}, {"stop", "restart", "pause", "resume"}, {"files"}, {"start"})
ShowRestarted(t) == Widgets(t, "restarted", {"pause", "stop"}, {"start", "resume"}, {}, {})

-------------------------------------------------------------------------------
(* transmitPacket, on the user interface's thread.                         *)

(* A client that has gone is only forgotten: neither the session flag nor  *)
(* the selector hears of it.  The first packet after the loss may still go *)
(* out, to nobody.                                                         *)
Transmit(command) ==
  \/ /\ client /\ attached /\ Len(commands) < MaxQueue
     /\ commands' = Append(commands, CommandType[command])
     /\ UNCHANGED <<client, stale, slipped>>
  \/ /\ client /\ ~attached
     /\ client' = FALSE /\ stale' = TRUE /\ slipped' = TRUE
     /\ UNCHANGED commands
  \/ /\ ~attached
     /\ slipped' = TRUE
     /\ UNCHANGED <<client, stale, commands>>

\* slip: pauseSimulation leaves running as it is
PauseKeepsRunning(command) ==
  IF command = "pause" THEN running ELSE command # "stop"

RunningAfter(command) == command \notin {"pause", "stop"}

(* SimulationController: send, then note whether a simulation runs.        *)
Command(command) ==
  /\ Next1("ui", command)
  /\ Transmit(command)
  /\ running' = RunningAfter(command)
  /\ Done("ui")
  /\ UNCHANGED <<net, connected, lastStatus, sceneVars, widgetVars, topology,
                 attached, sim, unsent, countVars>>

CommandNames == {"launch", "pause", "resume", "restart", "stop"}

-------------------------------------------------------------------------------
(* The buttons.                                                            *)

Press(needed, steps) ==
  /\ net # "gone" /\ Idle("ui") /\ presses + sessions < MaxEvents
  /\ needed \subseteq shown
  /\ presses' = presses + 1
  /\ todo' = [todo EXCEPT !["ui"] = steps]
  /\ UNCHANGED <<linkVars, lastStatus, sceneVars, wireVars, sessions, running>>

(* A limit that is no number is refused with a message box, without        *)
(* effect.                                                                 *)
PressStart ==
  /\ "start" \in enabled
  /\ Press({"panel", "start"}, <<"launch", "started">>)
  /\ UNCHANGED <<widgetVars, topology, slipped>>

PressPause ==
  /\ "pause" \in enabled
  /\ Press({"pause"}, IF running THEN <<"pause", "paused">> ELSE <<"paused">>)
  /\ UNCHANGED <<widgetVars, topology, slipped>>

PressResume ==
  /\ "resume" \in enabled
  /\ Press({"resume"}, IF running THEN <<"runs">> ELSE <<"resume", "runs">>)
  /\ UNCHANGED <<widgetVars, topology, slipped>>

PressRestart ==
  /\ Press({"panel", "restart"}, <<"restart">> \o ClearScene \o <<"restarted">>)
  /\ UNCHANGED <<widgetVars, topology, slipped>>

(* A paused simulation is not told to stop.                                *)
PressStop ==
  /\ Press({"panel", "stop"},
           (IF running THEN <<"stop">> ELSE <<>>) \o ClearScene \o <<"reset", "stopped">>)
  /\ slipped' = (slipped \/ (~running /\ (sim # "idle" \/ commands # <<>>)))
  /\ UNCHANGED <<widgetVars, topology>>

OpenDialog ==
  /\ net # "gone" /\ Idle("ui") /\ ~dialog
  /\ "files" \in shown \cap enabled
  /\ dialog' = TRUE
  /\ UNCHANGED <<todo, linkVars, lastStatus, sceneVars, shown, enabled, topology,
                 running, wireVars, countVars, slipped>>

(* readTopologyConfig keeps the earlier topology when the file is refused; *)
(* the command panel appears in either case.                               *)
ChooseFile ==
  /\ net # "gone" /\ Idle("ui") /\ dialog
  /\ dialog' = FALSE
  /\ shown' = shown \cup {"panel"}
  /\ \/ topology' = TRUE /\ enabled' = enabled \cup {"start"}
     \/ topology' = topology /\ enabled' = enabled \ {"start"}
  /\ UNCHANGED <<todo, linkVars, lastStatus, sceneVars, running, wireVars, countVars, slipped>>

(* Back: the server is stopped and its thread joined.                      *)
Leave ==
  /\ net = "loop" /\ Idle("ui")
  /\ net' = "gone" /\ client' = FALSE /\ connected' = FALSE
  /\ attached' = FALSE /\ sim' = "idle"
  /\ commands' = <<>>
  /\ UNCHANGED <<todo, stale, lastStatus, sceneVars, widgetVars, topology, running,
                 unsent, countVars, slipped>>

-------------------------------------------------------------------------------
(* ClientConnectionMonitor::run, every five seconds.                       *)

Poll ==
  /\ Idle("monitor") /\ connected # lastStatus
  /\ todo' = [todo EXCEPT !["monitor"] =
                IF connected THEN <<"ready">> \o ClearScene \o <<"reset", "seen">>
                ELSE <<"hidden", "seen">>]
  /\ UNCHANGED <<linkVars, lastStatus, sceneVars, widgetVars, topology, running,
                 wireVars, countVars, slipped>>

\* slip: the flag is read again after the callback
SeenLater ==
  /\ Next1("monitor", "seen")
  /\ lastStatus' = connected
  /\ Done("monitor")
  /\ UNCHANGED <<linkVars, sceneVars, widgetVars, topology, running, wireVars,
                 countVars, slipped>>

(* The status kept is the one the callback was told.                       *)
Seen ==
  /\ Next1("monitor", "seen")
  /\ lastStatus' = ~lastStatus
  /\ Done("monitor")
  /\ UNCHANGED <<linkVars, sceneVars, widgetVars, topology, running, wireVars,
                 countVars, slipped>>

-------------------------------------------------------------------------------
(* The server thread.  A selector that holds a destroyed socket reports    *)
(* nothing any more: no connection is accepted and no packet received.     *)

Waits == net = "loop" /\ ~stale

(* The GUI's own state says that nothing runs, and it has shown the loss   *)
(* of the last session.                                                    *)
AtRest ==
  /\ Idle("ui") /\ Idle("monitor") /\ ~lastStatus
  /\ ~running /\ "pause" \notin shown

(* The simulator calls until it is accepted; a second client is turned     *)
(* away.                                                                   *)
Accept ==
  /\ Waits /\ ~client /\ ~attached
  /\ sessions < MaxSessions /\ presses + sessions < MaxEvents
  /\ attached' = TRUE /\ client' = TRUE /\ connected' = TRUE
  /\ sessions' = sessions + 1
  /\ slipped' = ~AtRest
  /\ UNCHANGED <<todo, net, stale, lastStatus, sceneVars, widgetVars, topology,
                 running, sim, unsent, commands, presses>>

Receives(kind) ==
  Waits /\ client /\ attached /\ unsent # <<>> /\ TelemetryHandler[Head(unsent)[1]] = kind

ReceivePosition ==
  /\ Receives("position")
  /\ devices' = devices \cup {Head(unsent)[2]}
  /\ unsent' = Tail(unsent)
  /\ UNCHANGED <<todo, linkVars, lastStatus, routes, widgetVars, topology, running,
                 attached, sim, commands, countVars, slipped>>

(* A route between devices that are not there is refused.                  *)
RefuseRoute ==
  /\ Receives("routing")
  /\ ~({Head(unsent)[2], Parent[Head(unsent)[2]]} \subseteq devices)
  /\ unsent' = Tail(unsent)
  /\ UNCHANGED <<todo, linkVars, lastStatus, sceneVars, widgetVars, topology, running,
                 attached, sim, commands, countVars, slipped>>

LookUpRoute ==
  /\ Receives("routing")
  /\ {Head(unsent)[2], Parent[Head(unsent)[2]]} \subseteq devices
  /\ net' = "insert route"
  /\ UNCHANGED <<todo, client, stale, connected, lastStatus, sceneVars, widgetVars,
                 topology, running, wireVars, countVars, slipped>>

InsertRoute ==
  /\ net = "insert route"
  /\ routes' = routes \cup {<<Head(unsent)[2], Parent[Head(unsent)[2]]>>}
  /\ unsent' = Tail(unsent)
  /\ net' = "loop"
  /\ UNCHANGED <<todo, client, stale, connected, lastStatus, devices, widgetVars,
                 topology, running, attached, sim, commands, countVars, slipped>>

(* The socket goes under the lock, the session flag after it.              *)
ReceiveDisconnected ==
  /\ Waits /\ client /\ ~attached
  /\ client' = FALSE
  /\ net' = "drop flag"
  /\ UNCHANGED <<todo, stale, connected, lastStatus, sceneVars, widgetVars, topology,
                 running, wireVars, countVars, slipped>>

DropFlag ==
  /\ net = "drop flag"
  /\ connected' = FALSE
  /\ net' = "loop"
  /\ UNCHANGED <<todo, client, stale, lastStatus, sceneVars, widgetVars, topology,
                 running, wireVars, countVars, slipped>>

(* No pong for ten seconds.  The socket stays in the selector.             *)
HeartbeatTimeout ==
  /\ net = "loop" /\ client
  /\ client' = FALSE /\ connected' = FALSE /\ stale' = TRUE
  /\ IF attached
     THEN attached' = FALSE /\ sim' = "idle" /\ commands' = <<>> /\ slipped' = TRUE
     ELSE UNCHANGED <<attached, sim, commands, slipped>>
  /\ UNCHANGED <<todo, net, lastStatus, sceneVars, widgetVars, topology, running,
                 unsent, countVars>>

-------------------------------------------------------------------------------
(* The simulator.                                                          *)

(* The send queue waits for the next connection; the packet on its way is  *)
(* lost or received just before.                                           *)
SimulatorLeaves ==
  /\ attached
  /\ attached' = FALSE /\ sim' = "idle"
  /\ commands' = <<>>
  /\ unsent' \in {unsent, IF unsent = <<>> \/ net = "insert route" THEN unsent ELSE Tail(unsent)}
  /\ slipped' = TRUE
  /\ UNCHANGED <<todo, linkVars, lastStatus, sceneVars, widgetVars, topology, running,
                 countVars>>

(* initMessage of every node; a stop has not emptied the send queue.       *)
Launched(was) ==
  /\ sim = was
  /\ sim' = "running"
  /\ unsent' = unsent \o [i \in 1 .. Len(Order) |-> <<TelemetryType["position"], Order[i]>>]

SimulatorLaunches ==
  /\ Launched("launching")
  /\ UNCHANGED <<todo, linkVars, lastStatus, sceneVars, widgetVars, topology, running,
                 attached, commands, countVars, slipped>>

(* RRC_UPLINK_displayRouting, with every uplink.  Bound: when all else is  *)
(* sent.                                                                   *)
SimulatorShowsRoute(n) ==
  /\ sim = "running" /\ unsent = <<>>
  /\ unsent' = <<<<TelemetryType["routing"], n>>>>
  /\ UNCHANGED <<todo, linkVars, lastStatus, sceneVars, widgetVars, topology, running,
                 attached, sim, commands, countVars, slipped>>

Takes(command) ==
  /\ attached /\ commands # <<>> /\ CommandHandler[Head(commands)] = command
  /\ commands' = Tail(commands)
  /\ UNCHANGED <<todo, linkVars, lastStatus, sceneVars, widgetVars, topology, running,
                 attached, countVars>>

(* A launch while a simulation runs only replaces the configuration.       *)
TakeLaunch ==
  /\ Takes("launch")
  /\ sim' = IF sim = "idle" THEN "launching" ELSE sim
  /\ slipped' = (slipped \/ sim # "idle")
  /\ UNCHANGED unsent

Obeys == sim \in {"running", "paused"}

TakePauseOrResume ==
  \/ Takes("pause") /\ Obeys /\ sim' = "paused" /\ UNCHANGED <<unsent, slipped>>
  \/ Takes("resume") /\ Obeys /\ sim' = "running" /\ UNCHANGED <<unsent, slipped>>

TakeStop == Takes("stop") /\ Obeys /\ sim' = "idle" /\ UNCHANGED <<unsent, slipped>>

TakeRestart == Takes("restart") /\ Obeys /\ Launched(sim) /\ UNCHANGED slipped

IgnoreCommand ==
  /\ \E command \in CommandNames \ {"launch"} : Takes(command)
  /\ ~Obeys
  /\ slipped' = TRUE
  /\ UNCHANGED <<sim, unsent>>

-------------------------------------------------------------------------------
Init ==
  /\ todo = [t \in Handlers |-> <<>>]
  /\ net = "loop"
  /\ client = FALSE /\ stale = FALSE /\ connected = FALSE /\ lastStatus = FALSE
  /\ devices = {} /\ routes = {}
  /\ shown = {"start", "stop", "restart"} /\ enabled = {"files"}
  /\ dialog = FALSE /\ topology = FALSE /\ running = FALSE
  /\ attached = FALSE /\ sim = "idle" /\ unsent = <<>> /\ commands = <<>>
  /\ sessions = 0 /\ presses = 0
  /\ slipped = FALSE

UiStep ==
  \/ ClearDevices("ui") \/ ClearRoutes("ui") \/ ResetConfiguration("ui")
  \/ ShowStarted("ui") \/ ShowRunning("ui") \/ ShowPaused("ui")
  \/ ShowStopped("ui") \/ ShowRestarted("ui")
  \/ \E command \in CommandNames : Command(command)

Button ==
  \/ PressStart \/ PressPause \/ PressResume \/ PressRestart \/ PressStop
  \/ OpenDialog \/ ChooseFile \/ Leave

MonitorStep ==
  \/ Poll \/ ShowReady("monitor") \/ HideAll("monitor") \/ Seen
  \/ ClearDevices("monitor") \/ ClearRoutes("monitor") \/ ResetConfiguration("monitor")

NetStep ==
  \/ Accept \/ ReceivePosition \/ RefuseRoute \/ LookUpRoute
  \/ InsertRoute \/ ReceiveDisconnected \/ DropFlag

SimulatorStep ==
  \/ SimulatorLeaves \/ SimulatorLaunches
  \/ TakeLaunch \/ TakePauseOrResume \/ TakeStop \/ TakeRestart \/ IgnoreCommand
  \/ \E n \in MeshNodes : SimulatorShowsRoute(n)

Next == UiStep \/ Button \/ MonitorStep \/ NetStep \/ HeartbeatTimeout \/ SimulatorStep

Spec == Init /\ [][Next]_vars

(* The threads run; the user and the simulator do as they please.          *)
FairSpec == Spec /\ WF_vars(UiStep) /\ WF_vars(MonitorStep) /\ WF_vars(NetStep)

-------------------------------------------------------------------------------
(* Every arrow of the routing table joins two devices of the scene, for as *)
(* long as no thread is in the middle of clearing it: whichever of the     *)
(* three threads runs between the two clears, and although addRouting      *)
(* looks at the devices first and inserts later (RoutingManager.cpp:12).   *)
RoutesJoinDevices ==
  (\A t \in Handlers : \A i \in 1 .. Len(todo[t]) : todo[t][i] # "clear routes")
    => \A r \in routes : {r[1], r[2]} \subseteq devices

(* When no command is on its way and none was lost or ignored, the         *)
(* controller's running flag and the pause button show what the simulator  *)
(* does (SimulationController::running is set without an answer).          *)
InStep ==
  Idle("ui") /\ Idle("monitor") /\ commands = <<>> /\ sim # "launching"
    /\ net # "gone" /\ ~slipped
  => /\ running <=> sim = "running"
     /\ "pause" \in shown <=> running

(* A simulator that is connected is shown as connected within a poll or    *)
(* two, unless it goes: also when it comes while the monitor still tells   *)
(* of the loss of the one before.                                          *)
ConnectionShown == client /\ connected ~> ("connected" \in shown \/ ~client)

(* Start is "Initially disabled until a file is selected"                  *)
(* (UIController.cpp:698): when no handler is under way, it can be pressed *)
(* only with a topology to launch.                                         *)
StartHasTopology ==
  Idle("ui") /\ Idle("monitor") /\ {"panel", "start"} \subseteq shown /\ "start" \in enabled
    => topology
===============================================================================
