---------------------------- MODULE CommandManager ----------------------------
(***************************************************************************)
(* The life of a simulation in the simulator process: CommandManager with  *)
(* its dispatcher, the TCP client and the TCP sender.                      *)
(*                                                                         *)
(* Five kinds of threads act on the same unlocked objects: the receive     *)
(* thread of Client (connects, dispatches commands, tears down when the    *)
(* connection is lost), the thread of TcpSender (tears down when a send    *)
(* finds the connection lost), detached threads that wait for a            *)
(* configuration and launch it, the clock's thread, and main, which ends   *)
(* the process.  What a thread is about to do is at[t].                    *)
(*                                                                         *)
(* A use of freed or null memory is the end of what the program promises:  *)
(* `broken` is set and nothing happens any more.                           *)
(***************************************************************************)
EXTENDS Naturals, FiniteSets

CONSTANTS
  Waiters,       \* bound: the detached threads alive at one time
  MaxConfigs,    \* bound: configurations sent by the GUI
  MaxLosses,     \* bound: lost connections
  MaxQueue       \* bound: packets queued in the sender

ASSUME ManagerAssumption ==
  /\ Waiters # {} /\ IsFiniteSet(Waiters)
  /\ Waiters \cap {"receive", "send", "main"} = {}
  /\ MaxConfigs \in Nat /\ MaxLosses \in Nat /\ MaxQueue \in Nat \ {0}

Threads == Waiters \cup {"receive", "send", "main"}

VARIABLES
  at,            \* the next step of every thread
  after,         \* where a thread goes when its stop or launch is done
  job,           \* the configuration a thread launches
  connected, losses,        \* Client::connected, connections lost so far
  config, configs,          \* pendingConfig (0: none), configurations so far
  waitingForConfig,         \* the flag of that name
  running,                  \* CommandManager::running
  metrics, nodes, clock,    \* the objects behind the three unique_ptrs
  queue, senderStop,        \* TcpSender: packets queued, tcpStopFlag
  stoppedAt,                \* history: the last configuration stopped
  broken

callVars == <<after, job>>
linkVars == <<connected, losses>>
configVars == <<config, configs, waitingForConfig>>
objectVars == <<running, metrics, nodes, clock>>
senderVars == <<queue, senderStop>>
vars == <<at, callVars, linkVars, configVars, objectVars, senderVars, stoppedAt, broken>>

Goto(t, step) == at' = [at EXCEPT ![t] = step]

(* The end of a procedure.                                                 *)
Return(t) ==
  /\ Goto(t, after[t])
  /\ after' = [after EXCEPT ![t] = "none"]
  /\ job' = [job EXCEPT ![t] = 0]

(* The clock's thread runs callbacks of the nodes until it is joined.      *)
ClockThreadAlive == clock \in {"running", "stopping"}

StopSteps == {"clear running", "stop clock", "join clock", "summary",
              "drop nodes", "drop clock", "drop metrics"}
LaunchSteps == {"build metrics", "build nodes", "deploy", "build clock",
                "start clock", "set running"}

(* transmit holds socketMutex through the disconnect callback.             *)
SocketHeld == at["send"] \in StopSteps

-------------------------------------------------------------------------------
(* stopSimulation, step by step, on whichever thread calls it.             *)

ClearRunning(t) ==
  /\ at[t] = "clear running"
  /\ running' = FALSE
  /\ Goto(t, "stop clock")
  /\ UNCHANGED <<callVars, linkVars, configVars, metrics, nodes, clock, senderVars, stoppedAt, broken>>

(* Clock::stop returns at once when the clock is not running, also when    *)
(* another thread is still joining it.                                     *)
StopClock(t) ==
  /\ at[t] = "stop clock"
  /\ IF clock = "running"
     THEN clock' = "stopping" /\ Goto(t, "join clock")
     ELSE Goto(t, "summary") /\ UNCHANGED clock
  /\ UNCHANGED <<callVars, linkVars, configVars, running, metrics, nodes, senderVars, stoppedAt, broken>>

JoinClock(t) ==
  /\ at[t] = "join clock" /\ clock # "stopping"
  /\ Goto(t, "summary")
  /\ UNCHANGED <<callVars, linkVars, configVars, objectVars, senderVars, stoppedAt, broken>>

(* The summary reads the metrics of the nodes through raw pointers.        *)
Summary(t) ==
  /\ at[t] = "summary"
  /\ Goto(t, "drop nodes")
  /\ UNCHANGED <<callVars, linkVars, configVars, objectVars, senderVars, stoppedAt, broken>>

DropNodes(t) ==
  /\ at[t] = "drop nodes"
  /\ nodes' = FALSE
  /\ broken' = ClockThreadAlive
  /\ Goto(t, "drop clock")
  /\ UNCHANGED <<callVars, linkVars, configVars, running, metrics, clock, senderVars, stoppedAt>>

DropClock(t) ==
  /\ at[t] = "drop clock"
  /\ clock' = "none"
  /\ broken' = ClockThreadAlive
  /\ Goto(t, "drop metrics")
  /\ UNCHANGED <<callVars, linkVars, configVars, running, metrics, nodes, senderVars, stoppedAt>>

DropMetrics(t) ==
  /\ at[t] = "drop metrics"
  /\ metrics' = FALSE
  /\ broken' = ClockThreadAlive
  /\ Return(t)
  /\ UNCHANGED <<linkVars, configVars, running, nodes, clock, senderVars, stoppedAt>>

StopSimulation(t) ==
  \/ ClearRunning(t) \/ StopClock(t) \/ JoinClock(t) \/ Summary(t)
  \/ DropNodes(t) \/ DropClock(t) \/ DropMetrics(t)

-------------------------------------------------------------------------------
(* launchSimulation.  Assigning a new object frees the old one; using one  *)
(* that is gone breaks the process.                                        *)

BuildMetrics(t) ==
  /\ at[t] = "build metrics"
  /\ metrics' = TRUE
  /\ broken' = ClockThreadAlive
  /\ Goto(t, "build nodes")
  /\ UNCHANGED <<callVars, linkVars, configVars, running, nodes, clock, senderVars, stoppedAt>>

BuildNodes(t) ==
  /\ at[t] = "build nodes"
  /\ nodes' = TRUE
  /\ broken' = ClockThreadAlive
  /\ Goto(t, "deploy")
  /\ UNCHANGED <<callVars, linkVars, configVars, running, metrics, clock, senderVars, stoppedAt>>

(* takeOwnership of the seed's nodes, setMetricsAggregatorForAllNodes.     *)
Deploy(t) ==
  /\ at[t] = "deploy"
  /\ broken' = ~nodes
  /\ Goto(t, "build clock")
  /\ UNCHANGED <<callVars, linkVars, configVars, objectVars, senderVars, stoppedAt>>

\* slip: running is set as soon as the clock exists
SetRunningEarly(t) ==
  /\ at[t] = "build clock"
  /\ clock' = "ready" /\ running' = TRUE
  /\ Goto(t, "start clock")
  /\ UNCHANGED <<callVars, linkVars, configVars, metrics, nodes, senderVars, stoppedAt, broken>>

BuildClock(t) ==
  /\ at[t] = "build clock"
  /\ clock' = "ready"
  /\ broken' = ClockThreadAlive
  /\ Goto(t, "start clock")
  /\ UNCHANGED <<callVars, linkVars, configVars, running, metrics, nodes, senderVars, stoppedAt>>

(* registerAllNodeFirstEvent and Clock::start.                             *)
StartClock(t) ==
  /\ at[t] = "start clock"
  /\ broken' = (~nodes \/ ~metrics \/ clock = "none")
  /\ clock' = IF clock = "ready" THEN "running" ELSE clock
  /\ Goto(t, "set running")
  /\ UNCHANGED <<callVars, linkVars, configVars, running, metrics, nodes, senderVars, stoppedAt>>

SetRunning(t) ==
  /\ at[t] = "set running"
  /\ running' = TRUE
  /\ Return(t)
  /\ UNCHANGED <<linkVars, configVars, metrics, nodes, clock, senderVars, stoppedAt, broken>>

LaunchSimulation(t) ==
  \/ BuildMetrics(t) \/ BuildNodes(t) \/ Deploy(t)
  \/ BuildClock(t) \/ StartClock(t) \/ SetRunning(t)

(* The entry of the two procedures.                                        *)
CallStop(t, return) ==
  /\ Goto(t, "clear running")
  /\ after' = [after EXCEPT ![t] = return]
  /\ UNCHANGED job

CallLaunch(t, c, return) ==
  /\ Goto(t, "build metrics")
  /\ after' = [after EXCEPT ![t] = return]
  /\ job' = [job EXCEPT ![t] = c]

-------------------------------------------------------------------------------
(* waitForLaunchConfig, on a detached thread.                              *)

\* slip: the flag is set but not tested
WaitUntested(w) ==
  /\ at[w] = "wait"
  /\ Goto(w, "poll") /\ waitingForConfig' = TRUE
  /\ UNCHANGED <<callVars, linkVars, config, configs, objectVars, senderVars, stoppedAt, broken>>

(* "Already waiting for configuration. Skipping duplicate wait."           *)
Wait(w) ==
  /\ at[w] = "wait"
  /\ Goto(w, IF waitingForConfig THEN "none" ELSE "poll")
  /\ waitingForConfig' = TRUE
  /\ UNCHANGED <<callVars, linkVars, config, configs, objectVars, senderVars, stoppedAt, broken>>

(* The configuration is copied and stays pending, for a restart.           *)
Poll(w) ==
  /\ at[w] = "poll" /\ config # 0
  /\ CallLaunch(w, config, "allow")
  /\ UNCHANGED <<linkVars, configVars, objectVars, senderVars, stoppedAt, broken>>

AllowFutureCalls(w) ==
  /\ at[w] = "allow"
  /\ waitingForConfig' = FALSE
  /\ Goto(w, "none")
  /\ UNCHANGED <<callVars, linkVars, config, configs, objectVars, senderVars, stoppedAt, broken>>

(* clearConfig, then a new detached thread.                                *)
SpawnWaiter(w, return) ==
  /\ at[w] = "none"
  /\ config' = 0
  /\ at' = [at EXCEPT ![w] = "wait", !["receive"] = return]

-------------------------------------------------------------------------------
(* Client::receiveLoop.                                                    *)

(* tryConnect; the attempts that fail change nothing.                      *)
Connect ==
  /\ at["receive"] = "connect" /\ ~connected
  /\ connected' = TRUE
  /\ Goto("receive", "up")
  /\ UNCHANGED <<callVars, losses, configVars, objectVars, senderVars, stoppedAt, broken>>

(* The connection callback, up.                                            *)
ConnectionUp(w) ==
  /\ at["receive"] = "up"
  /\ SpawnWaiter(w, "session")
  /\ UNCHANGED <<callVars, linkVars, configs, waitingForConfig, objectVars, senderVars, stoppedAt, broken>>

(* The receive thread reads the socket under socketMutex.                  *)
Receives == at["receive"] = "session" /\ connected /\ ~SocketHeld

OnLaunchConfig ==
  /\ Receives
  /\ configs < MaxConfigs
  /\ configs' = configs + 1 /\ config' = configs + 1
  /\ UNCHANGED <<at, callVars, linkVars, waitingForConfig, objectVars, senderVars, stoppedAt, broken>>

\* slip: a stop does not ask whether a simulation runs
OnStopAlways ==
  /\ Receives
  /\ CallStop("receive", "stopped")
  /\ stoppedAt' = configs
  /\ UNCHANGED <<linkVars, configVars, objectVars, senderVars, broken>>

(* A stop while none runs is dropped: the actions below all need running.  *)
OnStop ==
  /\ Receives /\ running
  /\ CallStop("receive", "stopped")
  /\ stoppedAt' = configs
  /\ UNCHANGED <<linkVars, configVars, objectVars, senderVars, broken>>

\* slip: the configuration of the stopped simulation is not cleared
StoppedKeepsConfig(w) ==
  /\ at["receive"] = "stopped" /\ at[w] = "none"
  /\ at' = [at EXCEPT ![w] = "wait", !["receive"] = "session"]
  /\ UNCHANGED <<callVars, linkVars, configVars, objectVars, senderVars, stoppedAt, broken>>

Stopped(w) ==
  /\ at["receive"] = "stopped"
  /\ SpawnWaiter(w, "session")
  /\ UNCHANGED <<callVars, linkVars, configs, waitingForConfig, objectVars, senderVars, stoppedAt, broken>>

OnRestart ==
  /\ Receives /\ running
  /\ CallStop("receive", "relaunch")
  /\ UNCHANGED <<linkVars, configVars, objectVars, senderVars, stoppedAt, broken>>

(* "No previous configuration found. Restart aborted."                     *)
Relaunch ==
  /\ at["receive"] = "relaunch"
  /\ IF config = 0
     THEN Goto("receive", "session") /\ UNCHANGED callVars
     ELSE CallLaunch("receive", config, "session")
  /\ UNCHANGED <<linkVars, configVars, objectVars, senderVars, stoppedAt, broken>>

(* Pause and resume: the test of running, then the use of the clock.       *)
OnPauseOrResume ==
  /\ Receives /\ running
  /\ Goto("receive", "use clock")
  /\ UNCHANGED <<callVars, linkVars, configVars, objectVars, senderVars, stoppedAt, broken>>

UseClock ==
  /\ at["receive"] = "use clock"
  /\ broken' = (clock = "none")
  /\ Goto("receive", "session")
  /\ UNCHANGED <<callVars, linkVars, configVars, objectVars, senderVars, stoppedAt>>

(* A pong goes to the sender's queue.                                      *)
OnPing ==
  /\ Receives /\ queue < MaxQueue
  /\ queue' = queue + 1
  /\ UNCHANGED <<at, callVars, linkVars, configVars, objectVars, senderStop, stoppedAt, broken>>

(* The GUI has gone: the connection callback, down.                        *)
ReceiveFails ==
  /\ Receives /\ losses < MaxLosses
  /\ connected' = FALSE /\ losses' = losses + 1
  /\ CallStop("receive", "connect")
  /\ UNCHANGED <<configVars, objectVars, senderVars, stoppedAt, broken>>

(* The sender found the loss first: back to the reconnect loop.            *)
LeaveSession ==
  /\ at["receive"] = "session" /\ ~connected
  /\ Goto("receive", IF at["main"] = "join receive" THEN "ended" ELSE "connect")
  /\ UNCHANGED <<callVars, linkVars, configVars, objectVars, senderVars, stoppedAt, broken>>

ReceiveEnds ==
  /\ at["receive"] = "connect" /\ at["main"] = "join receive"
  /\ Goto("receive", "ended")
  /\ UNCHANGED <<callVars, linkVars, configVars, objectVars, senderVars, stoppedAt, broken>>

-------------------------------------------------------------------------------
(* TcpSender::processTcpPackets and Client::transmit.                      *)

(* Packets of a running simulation.                                        *)
QueuePacket ==
  /\ clock = "running" /\ queue < MaxQueue
  /\ queue' = queue + 1
  /\ UNCHANGED <<at, callVars, linkVars, configVars, objectVars, senderStop, stoppedAt, broken>>

(* connected is read without the mutex that the send takes.                *)
BeginSend ==
  /\ at["send"] = "idle" /\ queue > 0 /\ connected
  /\ Goto("send", "sending")
  /\ UNCHANGED <<callVars, linkVars, configVars, objectVars, senderVars, stoppedAt, broken>>

SendDone ==
  /\ at["send"] = "sending" /\ connected
  /\ queue' = queue - 1
  /\ Goto("send", "idle")
  /\ UNCHANGED <<callVars, linkVars, configVars, objectVars, senderStop, stoppedAt, broken>>

(* The GUI has gone, or the receive thread has closed the socket since.    *)
SendFails ==
  /\ at["send"] = "sending"
  /\ ~connected \/ losses < MaxLosses
  /\ losses' = IF connected THEN losses + 1 ELSE losses
  /\ connected' = FALSE
  /\ CallStop("send", "idle")
  /\ UNCHANGED <<configVars, objectVars, senderVars, stoppedAt, broken>>

SenderEnds ==
  /\ at["send"] = "idle" /\ senderStop /\ queue = 0
  /\ Goto("send", "ended")
  /\ UNCHANGED <<callVars, linkVars, configVars, objectVars, senderVars, stoppedAt, broken>>

-------------------------------------------------------------------------------
(* main, after "q": the logger is stopped, then the manager destroyed.     *)

Quit ==
  /\ at["main"] = "running"
  /\ senderStop' = TRUE
  /\ Goto("main", "join send")
  /\ UNCHANGED <<callVars, linkVars, configVars, objectVars, queue, stoppedAt, broken>>

DestroyManager ==
  /\ at["main"] = "join send" /\ at["send"] = "ended"
  /\ CallStop("main", "stop client")
  /\ UNCHANGED <<linkVars, configVars, objectVars, senderVars, stoppedAt, broken>>

StopClient ==
  /\ at["main"] = "stop client"
  /\ connected' = FALSE
  /\ Goto("main", "join receive")
  /\ UNCHANGED <<callVars, losses, configVars, objectVars, senderVars, stoppedAt, broken>>

MainEnds ==
  /\ at["main"] = "join receive" /\ at["receive"] = "ended"
  /\ Goto("main", "ended")
  /\ UNCHANGED <<callVars, linkVars, configVars, objectVars, senderVars, stoppedAt, broken>>

(* The clock's thread sees the stop request.                               *)
ClockThreadEnds ==
  /\ clock = "stopping"
  /\ clock' = "stopped"
  /\ UNCHANGED <<at, callVars, linkVars, configVars, running, metrics, nodes, senderVars, stoppedAt, broken>>

-------------------------------------------------------------------------------
Init ==
  /\ at = [t \in Threads |-> CASE t = "receive" -> "connect" [] t = "send" -> "idle"
                               [] t = "main" -> "running" [] OTHER -> "none"]
  /\ after = [t \in Threads |-> "none"]
  /\ job = [t \in Threads |-> 0]
  /\ connected = FALSE /\ losses = 0
  /\ config = 0 /\ configs = 0 /\ waitingForConfig = FALSE
  /\ running = FALSE /\ metrics = FALSE /\ nodes = FALSE /\ clock = "none"
  /\ queue = 0 /\ senderStop = FALSE
  /\ stoppedAt = 0
  /\ broken = FALSE

WaiterStep(w) == Wait(w) \/ Poll(w) \/ LaunchSimulation(w) \/ AllowFutureCalls(w)

ReceiveStep ==
  \/ Connect \/ OnLaunchConfig \/ OnStop \/ OnRestart \/ Relaunch
  \/ OnPauseOrResume \/ UseClock \/ OnPing
  \/ ReceiveFails \/ LeaveSession \/ ReceiveEnds
  \/ \E w \in Waiters : ConnectionUp(w) \/ Stopped(w)
  \/ StopSimulation("receive") \/ LaunchSimulation("receive")

SendStep == BeginSend \/ SendDone \/ SendFails \/ SenderEnds \/ StopSimulation("send")

MainStep == Quit \/ DestroyManager \/ StopClient \/ MainEnds \/ StopSimulation("main")

Next ==
  /\ ~broken /\ at["main"] # "ended"
  /\ \/ \E w \in Waiters : WaiterStep(w)
     \/ ReceiveStep \/ SendStep \/ MainStep
     \/ QueuePacket \/ ClockThreadEnds

Spec == Init /\ [][Next]_vars

(* Every detached thread runs; commands and losses come as they please.    *)
FairSpec == Spec /\ \A w \in Waiters : WF_vars(~broken /\ WaiterStep(w))

-------------------------------------------------------------------------------
(* The connection has held so far and the process is not being ended.      *)
Undisturbed == losses = 0 /\ at["main"] = "running"

Stopping(t) == at[t] \in StopSteps
Launching(t) == at[t] \in LaunchSteps

(* At most one thread waits for, or launches, a configuration received,    *)
(* whatever is lost in between, and the flag says so: a wait is skipped    *)
(* only while another one is under way (test_and_set in                    *)
(* waitForLaunchConfig).                                                   *)
OneWaiter ==
  /\ \A v, w \in Waiters :
       v # w => \/ at[v] \in {"none", "wait"} \/ at[w] \in {"none", "wait"}
  /\ waitingForConfig <=> \E w \in Waiters : at[w] \notin {"none", "wait"}

(* The manager has no lock: that a launch, a stop, a restart and a pause   *)
(* never overlap rests on the commands being handled by one thread and on  *)
(* running being set last in a launch and cleared first in a stop.  It     *)
(* holds for as long as no connection is lost; then nothing is ever used   *)
(* after it is freed.                                                      *)
OneAtATime ==
  Undisturbed =>
    /\ ~broken
    /\ \A s, t \in Threads :
         s # t => ~((Launching(s) \/ Stopping(s) \/ at[s] = "use clock")
                      /\ (Launching(t) \/ Stopping(t)))

(* A simulation that is said to run is complete, and its clock is driving  *)
(* it.                                                                     *)
RunningIsComplete ==
  Undisturbed /\ running /\ at["receive"] # "clear running" =>
    metrics /\ nodes /\ clock = "running"

(* After a stop nothing is launched until the GUI has sent a new           *)
(* configuration: the old one, kept for restarts, is not picked up again.  *)
NoRelaunchByItself ==
  Undisturbed => \A w \in Waiters : Launching(w) => job[w] > stoppedAt

(* A configuration that finds a thread waiting is launched.                *)
ConfigIsLaunched ==
  \A w \in Waiters : (at[w] = "poll" /\ config # 0) ~> (running \/ ~Undisturbed)

(* "Stop clock (no more metric sampling)" comes first in stopSimulation,   *)
(* so that nodes, clock and metrics are "safe to destroy now that no one   *)
(* references it" (CommandManager.cpp:159, 178).                           *)
NothingFreedUnderClock ==
  ClockThreadAlive => metrics /\ nodes
===============================================================================
