-------------------------- MODULE CommandManagerProofs --------------------------
(***************************************************************************)
(* CommandManager proved for any number of waiting threads,                *)
(* configurations, lost connections and queued packets: at most one thread *)
(* waits for a configuration, and, for as long as no connection has been   *)
(* lost and the process is not being ended, the manager needs no lock.     *)
(*                                                                         *)
(* Types and the two invariants below are preserved together; the three    *)
(* properties about the undisturbed manager are conjuncts of CalmInv or    *)
(* follow from them.                                                       *)
(***************************************************************************)
EXTENDS CommandManager, TLAPS

(* What a thread can be about to do.                                       *)
OtherSteps == {"none", "wait", "poll", "allow",
               "connect", "up", "session", "use clock", "stopped", "relaunch",
               "idle", "sending",
               "running", "join send", "stop client", "join receive", "ended"}
Steps == StopSteps \cup LaunchSteps \cup OtherSteps

ThreadTypes ==
  /\ at \in [Threads -> Steps] /\ after \in [Threads -> Steps]
  /\ connected \in BOOLEAN /\ waitingForConfig \in BOOLEAN /\ senderStop \in BOOLEAN
  /\ running \in BOOLEAN /\ metrics \in BOOLEAN /\ nodes \in BOOLEAN
  /\ clock \in {"none", "ready", "running", "stopping", "stopped"}

NumberTypes ==
  /\ job \in [Threads -> Nat]
  /\ losses \in Nat /\ config \in Nat /\ configs \in Nat /\ stoppedAt \in Nat

ManagerTypes == ThreadTypes /\ NumberTypes

(* Where a detached thread can be, and that it allows the next wait when   *)
(* its launch is done.  The destructor's stop ends in the client's.        *)
WaiterInv ==
  /\ OneWaiter
  /\ \A w \in Waiters :
       /\ at[w] \in {"none", "wait", "poll", "allow"} \cup LaunchSteps
       /\ at[w] \in LaunchSteps => after[w] = "allow"
  /\ at["main"] \in StopSteps => after["main"] = "stop client"

(* A detached thread that will launch, or is launching.                    *)
Pending(w) == at[w] \in {"wait", "poll"} \cup LaunchSteps

(* One sender of commands: a pending launch keeps running false, and with  *)
(* running false the receive thread can only stay in its session.          *)
ReceiveAlone ==
  /\ at["receive"] \in {"connect", "up", "session", "use clock", "stopped", "relaunch"}
                         \cup StopSteps \cup LaunchSteps
  /\ at["receive"] \in StopSteps => after["receive"] \in {"stopped", "relaunch"}
  /\ at["receive"] \in LaunchSteps => after["receive"] = "session"
  /\ connected <=> at["receive"] # "connect"
  /\ \A v, w \in Waiters : Pending(v) /\ Pending(w) => v = w
  /\ \A w \in Waiters : Pending(w) => at["receive"] = "session" /\ ~running

(* The sender only sends, and finds the connection.                        *)
SenderCalm ==
  /\ ~senderStop
  /\ at["send"] \in {"idle", "sending"}
  /\ at["send"] = "sending" => connected

(* What exists: a running simulation is complete; a launch has made what   *)
(* it uses next; and the clock's thread is alive only while it is said to  *)
(* run, is just about to be said to, or is being stopped.                  *)
ObjectsInv ==
  /\ ~broken
  /\ running => /\ at["receive"] \in {"session", "use clock", "clear running"}
                /\ metrics /\ nodes /\ clock = "running"
  /\ at["receive"] \in {"use clock", "clear running"} => running
  /\ at["receive"] = "join clock" => clock \in {"stopping", "stopped"}
  /\ clock = "stopping" => at["receive"] = "join clock"
  /\ ClockThreadAlive => \/ running
                         \/ at["receive"] \in {"stop clock", "join clock"}
                         \/ \E t \in Waiters \cup {"receive"} : at[t] = "set running"
  /\ \A t \in Waiters \cup {"receive"} :
       /\ at[t] \in {"build nodes", "deploy", "build clock", "start clock", "set running"} => metrics
       /\ at[t] \in {"deploy", "build clock", "start clock", "set running"} => nodes
       /\ at[t] = "start clock" => clock = "ready"
       /\ at[t] = "set running" => clock = "running"

(* The configuration a pending launch has, or will take, is a later one    *)
(* than the one last stopped.                                              *)
ConfigInv ==
  /\ stoppedAt <= configs
  /\ \A w \in Waiters :
       /\ Pending(w) /\ config # 0 => config > stoppedAt
       /\ at[w] \in LaunchSteps => job[w] > stoppedAt

CalmInv == ReceiveAlone /\ SenderCalm /\ ObjectsInv /\ ConfigInv

IInv == ManagerTypes /\ WaiterInv /\ (Undisturbed => CalmInv)

-------------------------------------------------------------------------------
(* The threads are told apart by their names.                              *)
LEMMA ThreadNames ==
  /\ {"receive", "send", "main"} \subseteq Threads /\ Waiters \subseteq Threads
  /\ \A w \in Waiters : w # "receive" /\ w # "send" /\ w # "main"
BY ManagerAssumption DEF Threads

(* The names of the steps.                                                 *)
LEMMA StepNames ==
  /\ "clear running" \in Steps /\ "stop clock" \in Steps /\ "join clock" \in Steps
  /\ "summary" \in Steps /\ "drop nodes" \in Steps /\ "drop clock" \in Steps
  /\ "drop metrics" \in Steps
  /\ "build metrics" \in Steps /\ "build nodes" \in Steps /\ "deploy" \in Steps
  /\ "build clock" \in Steps /\ "start clock" \in Steps /\ "set running" \in Steps
  /\ "none" \in Steps /\ "wait" \in Steps /\ "poll" \in Steps /\ "allow" \in Steps
  /\ "connect" \in Steps /\ "up" \in Steps /\ "session" \in Steps
  /\ "use clock" \in Steps /\ "stopped" \in Steps /\ "relaunch" \in Steps
  /\ "idle" \in Steps /\ "sending" \in Steps
  /\ "running" \in Steps /\ "join send" \in Steps /\ "stop client" \in Steps
  /\ "join receive" \in Steps /\ "ended" \in Steps
BY DEF Steps, StopSteps, LaunchSteps, OtherSteps

(* A stop, on any thread, keeps the types of what the threads share.       *)
LEMMA StopTypes ==
  ASSUME ThreadTypes, NEW t \in Threads, StopSimulation(t)
  PROVE  ThreadTypes'
<1>. USE StepNames
<1>1. CASE ClearRunning(t)
  BY <1>1 DEF ThreadTypes, ClearRunning, Goto, callVars, linkVars, configVars, objectVars,
     senderVars
<1>2. CASE StopClock(t)
  BY <1>2 DEF ThreadTypes, StopClock, Goto, callVars, linkVars, configVars, objectVars,
     senderVars
<1>3. CASE JoinClock(t)
  BY <1>3 DEF ThreadTypes, JoinClock, Goto, callVars, linkVars, configVars, objectVars,
     senderVars
<1>4. CASE Summary(t)
  BY <1>4 DEF ThreadTypes, Summary, Goto, callVars, linkVars, configVars, objectVars,
     senderVars
<1>5. CASE DropNodes(t)
  BY <1>5 DEF ThreadTypes, DropNodes, Goto, callVars, linkVars, configVars, objectVars,
     senderVars
<1>6. CASE DropClock(t)
  BY <1>6 DEF ThreadTypes, DropClock, Goto, callVars, linkVars, configVars, objectVars,
     senderVars
<1>7. CASE DropMetrics(t)
  BY <1>7 DEF ThreadTypes, DropMetrics, Goto, Return, callVars, linkVars, configVars,
     objectVars, senderVars
<1>. QED BY <1>1, <1>2, <1>3, <1>4, <1>5, <1>6, <1>7 DEF StopSimulation

(* So does a launch.                                                       *)
LEMMA LaunchTypes ==
  ASSUME ThreadTypes, NEW t \in Threads, LaunchSimulation(t)
  PROVE  ThreadTypes'
<1>. USE StepNames
<1>1. CASE BuildMetrics(t)
  BY <1>1 DEF ThreadTypes, BuildMetrics, Goto, callVars, linkVars, configVars, objectVars,
     senderVars
<1>2. CASE BuildNodes(t)
  BY <1>2 DEF ThreadTypes, BuildNodes, Goto, callVars, linkVars, configVars, objectVars,
     senderVars
<1>3. CASE Deploy(t)
  BY <1>3 DEF ThreadTypes, Deploy, Goto, callVars, linkVars, configVars, objectVars,
     senderVars
<1>4. CASE BuildClock(t)
  BY <1>4 DEF ThreadTypes, BuildClock, Goto, callVars, linkVars, configVars, objectVars,
     senderVars
<1>5. CASE StartClock(t)
  BY <1>5 DEF ThreadTypes, StartClock, Goto, callVars, linkVars, configVars, objectVars,
     senderVars
<1>6. CASE SetRunning(t)
  BY <1>6 DEF ThreadTypes, SetRunning, Goto, Return, callVars, linkVars, configVars,
     objectVars, senderVars
<1>. QED BY <1>1, <1>2, <1>3, <1>4, <1>5, <1>6 DEF LaunchSimulation

(* Every step keeps those types.                                           *)
LEMMA ThreadTypesStep ==
  ASSUME ThreadTypes, Next
  PROVE  ThreadTypes'
<1>. USE ThreadNames, StepNames
<1>1. ASSUME NEW w \in Waiters, WaiterStep(w) PROVE ThreadTypes'
  <2>1. CASE Wait(w)
    BY <2>1 DEF ThreadTypes, Wait, Goto, callVars, linkVars, configVars, objectVars, senderVars
  <2>2. CASE Poll(w)
    BY <2>2 DEF ThreadTypes, Poll, CallLaunch, Goto, callVars, linkVars, configVars,
       objectVars, senderVars
  <2>3. CASE AllowFutureCalls(w)
    BY <2>3 DEF ThreadTypes, AllowFutureCalls, Goto, callVars, linkVars, configVars,
       objectVars, senderVars
  <2>. QED BY <1>1, <2>1, <2>2, <2>3, LaunchTypes DEF WaiterStep
<1>2. CASE ReceiveStep
  <2>1. CASE Connect
    BY <2>1 DEF ThreadTypes, Connect, Goto, callVars, linkVars, configVars, objectVars, senderVars
  <2>2. CASE OnLaunchConfig
    BY <2>2 DEF ThreadTypes, OnLaunchConfig, Goto, callVars, linkVars, configVars,
       objectVars, senderVars
  <2>3. CASE OnStop
    BY <2>3 DEF ThreadTypes, OnStop, CallStop, Goto, callVars, linkVars, configVars,
       objectVars, senderVars
  <2>4. CASE OnRestart
    BY <2>4 DEF ThreadTypes, OnRestart, CallStop, Goto, callVars, linkVars, configVars,
       objectVars, senderVars
  <2>5. CASE Relaunch
    BY <2>5 DEF ThreadTypes, Relaunch, CallLaunch, Goto, callVars, linkVars, configVars,
       objectVars, senderVars
  <2>6. CASE OnPauseOrResume
    BY <2>6 DEF ThreadTypes, OnPauseOrResume, Goto, callVars, linkVars, configVars,
       objectVars, senderVars
  <2>7. CASE UseClock
    BY <2>7 DEF ThreadTypes, UseClock, Goto, callVars, linkVars, configVars, objectVars, senderVars
  <2>8. CASE OnPing
    BY <2>8 DEF ThreadTypes, OnPing, callVars, linkVars, configVars, objectVars, senderVars
  <2>9. CASE ReceiveFails
    BY <2>9 DEF ThreadTypes, ReceiveFails, CallStop, Goto, callVars, linkVars, configVars,
       objectVars, senderVars
  <2>10. CASE LeaveSession
    BY <2>10 DEF ThreadTypes, LeaveSession, Goto, callVars, linkVars, configVars,
       objectVars, senderVars
  <2>11. CASE ReceiveEnds
    BY <2>11 DEF ThreadTypes, ReceiveEnds, Goto, callVars, linkVars, configVars, objectVars,
       senderVars
  <2>12. ASSUME NEW w \in Waiters, ConnectionUp(w) PROVE ThreadTypes'
    BY <2>12 DEF ThreadTypes, ConnectionUp, SpawnWaiter, callVars, linkVars, configVars,
       objectVars, senderVars
  <2>13. ASSUME NEW w \in Waiters, Stopped(w) PROVE ThreadTypes'
    BY <2>13 DEF ThreadTypes, Stopped, SpawnWaiter, callVars, linkVars, configVars,
       objectVars, senderVars
  <2>. QED
    BY <1>2, <2>1, <2>2, <2>3, <2>4, <2>5, <2>6, <2>7, <2>8, <2>9, <2>10, <2>11, <2>12,
       <2>13, StopTypes, LaunchTypes
       DEF ReceiveStep
<1>3. CASE SendStep
  <2>1. CASE BeginSend
    BY <2>1 DEF ThreadTypes, BeginSend, Goto, callVars, linkVars, configVars, objectVars, senderVars
  <2>2. CASE SendDone
    BY <2>2 DEF ThreadTypes, SendDone, Goto, callVars, linkVars, configVars, objectVars, senderVars
  <2>3. CASE SendFails
    BY <2>3 DEF ThreadTypes, SendFails, CallStop, Goto, callVars, linkVars, configVars,
       objectVars, senderVars
  <2>4. CASE SenderEnds
    BY <2>4 DEF ThreadTypes, SenderEnds, Goto, callVars, linkVars, configVars, objectVars,
       senderVars
  <2>. QED BY <1>3, <2>1, <2>2, <2>3, <2>4, StopTypes DEF SendStep
<1>4. CASE MainStep
  <2>1. CASE Quit
    BY <2>1 DEF ThreadTypes, Quit, Goto, callVars, linkVars, configVars, objectVars, senderVars
  <2>2. CASE DestroyManager
    BY <2>2 DEF ThreadTypes, DestroyManager, CallStop, Goto, callVars, linkVars, configVars,
       objectVars, senderVars
  <2>3. CASE StopClient
    BY <2>3 DEF ThreadTypes, StopClient, Goto, callVars, linkVars, configVars, objectVars,
       senderVars
  <2>4. CASE MainEnds
    BY <2>4 DEF ThreadTypes, MainEnds, Goto, callVars, linkVars, configVars, objectVars, senderVars
  <2>. QED BY <1>4, <2>1, <2>2, <2>3, <2>4, StopTypes DEF MainStep
<1>5. CASE QueuePacket
  BY <1>5 DEF ThreadTypes, QueuePacket, callVars, linkVars, configVars, objectVars, senderVars
<1>6. CASE ClockThreadEnds
  BY <1>6 DEF ThreadTypes, ClockThreadEnds, callVars, linkVars, configVars, objectVars, senderVars
<1>. QED BY <1>1, <1>2, <1>3, <1>4, <1>5, <1>6 DEF Next

(* Every step keeps the types of what is counted.                          *)
LEMMA NumberTypesStep ==
  ASSUME NumberTypes, Next
  PROVE  NumberTypes'
<1>. USE ThreadNames
<1>1. ASSUME NEW t \in Threads, StopSimulation(t) PROVE NumberTypes'
  <2>1. CASE ClearRunning(t) BY <2>1 DEF NumberTypes, ClearRunning, callVars, linkVars, configVars
  <2>2. CASE StopClock(t) BY <2>2 DEF NumberTypes, StopClock, callVars, linkVars, configVars
  <2>3. CASE JoinClock(t) BY <2>3 DEF NumberTypes, JoinClock, callVars, linkVars, configVars
  <2>4. CASE Summary(t) BY <2>4 DEF NumberTypes, Summary, callVars, linkVars, configVars
  <2>5. CASE DropNodes(t) BY <2>5 DEF NumberTypes, DropNodes, callVars, linkVars, configVars
  <2>6. CASE DropClock(t) BY <2>6 DEF NumberTypes, DropClock, callVars, linkVars, configVars
  <2>7. CASE DropMetrics(t) BY <2>7 DEF NumberTypes, DropMetrics, Return, linkVars, configVars
  <2>. QED BY <1>1, <2>1, <2>2, <2>3, <2>4, <2>5, <2>6, <2>7 DEF StopSimulation
<1>2. ASSUME NEW t \in Threads, LaunchSimulation(t) PROVE NumberTypes'
  <2>1. CASE BuildMetrics(t) BY <2>1 DEF NumberTypes, BuildMetrics, callVars, linkVars, configVars
  <2>2. CASE BuildNodes(t) BY <2>2 DEF NumberTypes, BuildNodes, callVars, linkVars, configVars
  <2>3. CASE Deploy(t) BY <2>3 DEF NumberTypes, Deploy, callVars, linkVars, configVars
  <2>4. CASE BuildClock(t) BY <2>4 DEF NumberTypes, BuildClock, callVars, linkVars, configVars
  <2>5. CASE StartClock(t) BY <2>5 DEF NumberTypes, StartClock, callVars, linkVars, configVars
  <2>6. CASE SetRunning(t) BY <2>6 DEF NumberTypes, SetRunning, Return, linkVars, configVars
  <2>. QED BY <1>2, <2>1, <2>2, <2>3, <2>4, <2>5, <2>6 DEF LaunchSimulation
<1>3. ASSUME NEW w \in Waiters, WaiterStep(w) PROVE NumberTypes'
  BY <1>2, <1>3 DEF NumberTypes, WaiterStep, Wait, Poll, AllowFutureCalls, CallLaunch,
              callVars, linkVars, configVars, objectVars, senderVars
<1>4. CASE ReceiveStep
  <2>1. CASE Connect
    BY <2>1 DEF NumberTypes, Connect, callVars, linkVars, configVars, objectVars, senderVars
  <2>2. CASE OnLaunchConfig
    BY <2>2 DEF NumberTypes, OnLaunchConfig, callVars, linkVars, configVars, objectVars, senderVars
  <2>3. CASE OnStop
    BY <2>3 DEF NumberTypes, OnStop, CallStop, callVars, linkVars, configVars, objectVars,
       senderVars
  <2>4. CASE OnRestart
    BY <2>4 DEF NumberTypes, OnRestart, CallStop, callVars, linkVars, configVars,
       objectVars, senderVars
  <2>5. CASE Relaunch
    BY <2>5 DEF NumberTypes, Relaunch, CallLaunch, callVars, linkVars, configVars,
       objectVars, senderVars
  <2>6. CASE OnPauseOrResume
    BY <2>6 DEF NumberTypes, OnPauseOrResume, callVars, linkVars, configVars, objectVars, senderVars
  <2>7. CASE UseClock
    BY <2>7 DEF NumberTypes, UseClock, callVars, linkVars, configVars, objectVars, senderVars
  <2>8. CASE OnPing
    BY <2>8 DEF NumberTypes, OnPing, callVars, linkVars, configVars, objectVars, senderVars
  <2>9. CASE ReceiveFails
    <3>1. losses' \in Nat BY <2>9 DEF NumberTypes, ReceiveFails
    <3>. QED BY <2>9, <3>1 DEF NumberTypes, ReceiveFails, CallStop, configVars
  <2>10. CASE LeaveSession
    BY <2>10 DEF NumberTypes, LeaveSession, callVars, linkVars, configVars, objectVars, senderVars
  <2>11. CASE ReceiveEnds
    BY <2>11 DEF NumberTypes, ReceiveEnds, callVars, linkVars, configVars, objectVars, senderVars
  <2>12. ASSUME NEW w \in Waiters, ConnectionUp(w) \/ Stopped(w) PROVE NumberTypes'
    BY <2>12 DEF NumberTypes, ConnectionUp, Stopped, SpawnWaiter, callVars, linkVars,
       configVars, objectVars, senderVars
  <2>. QED
    BY <1>1, <1>2, <1>4, <2>1, <2>2, <2>3, <2>4, <2>5, <2>6, <2>7, <2>8, <2>9, <2>10, <2>11,
       <2>12 DEF ReceiveStep
<1>5. CASE SendStep
  <2>1. CASE BeginSend
    BY <2>1 DEF NumberTypes, BeginSend, callVars, linkVars, configVars, objectVars, senderVars
  <2>2. CASE SendDone
    BY <2>2 DEF NumberTypes, SendDone, callVars, linkVars, configVars, objectVars, senderVars
  <2>3. CASE SendFails
    <3>1. losses' \in Nat BY <2>3 DEF NumberTypes, SendFails
    <3>. QED BY <2>3, <3>1 DEF NumberTypes, SendFails, CallStop, configVars
  <2>4. CASE SenderEnds
    BY <2>4 DEF NumberTypes, SenderEnds, callVars, linkVars, configVars, objectVars, senderVars
  <2>. QED BY <1>1, <1>5, <2>1, <2>2, <2>3, <2>4 DEF SendStep
<1>6. CASE MainStep
  <2>1. CASE Quit
    BY <2>1 DEF NumberTypes, Quit, callVars, linkVars, configVars, objectVars, senderVars
  <2>2. CASE DestroyManager
    BY <2>2 DEF NumberTypes, DestroyManager, CallStop, callVars, linkVars, configVars,
       objectVars, senderVars
  <2>3. CASE StopClient
    BY <2>3 DEF NumberTypes, StopClient, callVars, linkVars, configVars, objectVars, senderVars
  <2>4. CASE MainEnds
    BY <2>4 DEF NumberTypes, MainEnds, callVars, linkVars, configVars, objectVars, senderVars
  <2>. QED BY <1>1, <1>6, <2>1, <2>2, <2>3, <2>4 DEF MainStep
<1>7. CASE QueuePacket \/ ClockThreadEnds
  BY <1>7 DEF NumberTypes, QueuePacket, ClockThreadEnds, callVars, linkVars, configVars,
     objectVars, senderVars
<1>. QED BY <1>3, <1>4, <1>5, <1>6, <1>7 DEF Next

(* What a step leaves alone, for a thread that is not a detached one.      *)
LEMMA WaiterFrame ==
  ASSUME WaiterInv, waitingForConfig' = waitingForConfig,
         \A w \in Waiters : at'[w] = at[w] /\ after'[w] = after[w],
         at'["main"] \in StopSteps => after'["main"] = "stop client"
  PROVE  WaiterInv'
BY DEF WaiterInv, OneWaiter

(* A step of a stop goes to the next one, or back to the caller.           *)
LEMMA StopFrame ==
  ASSUME ThreadTypes, NEW t \in Threads, StopSimulation(t)
  PROVE  /\ \A u \in Threads \ {t} : at'[u] = at[u] /\ after'[u] = after[u]
         /\ at[t] \in StopSteps
         /\ \/ at'[t] \in StopSteps /\ after'[t] = after[t]
            \/ at'[t] = after[t]
         /\ UNCHANGED <<linkVars, configVars, senderVars, stoppedAt>>
<1>1. CASE ClearRunning(t) \/ StopClock(t) \/ JoinClock(t) \/ Summary(t)
  BY <1>1 DEF ThreadTypes, ClearRunning, StopClock, JoinClock, Summary, StopSteps, Goto,
     callVars, linkVars, configVars, senderVars
<1>2. CASE DropNodes(t) \/ DropClock(t)
  BY <1>2 DEF ThreadTypes, DropNodes, DropClock, StopSteps, Goto, callVars, linkVars,
     configVars, senderVars
<1>3. CASE DropMetrics(t)
  BY <1>3 DEF ThreadTypes, DropMetrics, Return, StopSteps, Goto, linkVars, configVars, senderVars
<1>. QED BY <1>1, <1>2, <1>3 DEF StopSimulation

(* So does a step of a launch.                                             *)
LEMMA LaunchFrame ==
  ASSUME ThreadTypes, NEW t \in Threads, LaunchSimulation(t)
  PROVE  /\ \A u \in Threads \ {t} : at'[u] = at[u] /\ after'[u] = after[u]
         /\ at[t] \in LaunchSteps
         /\ \/ at'[t] \in LaunchSteps /\ after'[t] = after[t]
            \/ at'[t] = after[t]
         /\ UNCHANGED <<linkVars, configVars, senderVars, stoppedAt>>
<1>1. CASE BuildMetrics(t) \/ BuildNodes(t) \/ Deploy(t) \/ BuildClock(t) \/ StartClock(t)
  BY <1>1 DEF ThreadTypes, BuildMetrics, BuildNodes, Deploy, BuildClock, StartClock,
     LaunchSteps, Goto, callVars, linkVars, configVars, senderVars
<1>2. CASE SetRunning(t)
  BY <1>2 DEF ThreadTypes, SetRunning, Return, LaunchSteps, Goto, linkVars, configVars, senderVars
<1>. QED BY <1>1, <1>2 DEF LaunchSimulation

(* One waiter: the flag is set by the thread that starts to wait and       *)
(* cleared by the one that has launched; no other thread touches either.   *)
LEMMA WaiterStepKeepsOneWaiter ==
  ASSUME ThreadTypes, WaiterInv, NEW w \in Waiters, WaiterStep(w)
  PROVE  WaiterInv'
<1>. USE ThreadNames
<1>1. CASE Wait(w)
  BY <1>1 DEF ThreadTypes, WaiterInv, OneWaiter, Wait, Goto, LaunchSteps, StopSteps, callVars
<1>2. CASE Poll(w)
  BY <1>2 DEF ThreadTypes, WaiterInv, OneWaiter, Poll, CallLaunch, Goto, LaunchSteps,
     StopSteps, configVars
<1>3. CASE AllowFutureCalls(w)
  BY <1>3 DEF ThreadTypes, WaiterInv, OneWaiter, AllowFutureCalls, Goto, LaunchSteps,
     StopSteps, callVars
<1>4. CASE LaunchSimulation(w)
  <2>1. /\ \A v \in Waiters \ {w} : at'[v] = at[v] /\ after'[v] = after[v]
        /\ at'["main"] = at["main"] /\ after'["main"] = after["main"]
        /\ waitingForConfig' = waitingForConfig
        /\ at[w] \in LaunchSteps
    BY <1>4, LaunchFrame DEF configVars
  <2>2. \/ at'[w] \in LaunchSteps /\ after'[w] = "allow"
        \/ at'[w] = "allow"
    BY <1>4, LaunchFrame DEF WaiterInv
  <2>3. at[w] \notin {"none", "wait"} /\ at'[w] \notin {"none", "wait"}
    BY <2>1, <2>2 DEF LaunchSteps
  <2>4. OneWaiter'
    BY <2>1, <2>3 DEF WaiterInv, OneWaiter
  <2>5. "allow" \notin LaunchSteps
    BY DEF LaunchSteps
  <2>. QED BY <2>1, <2>2, <2>4, <2>5 DEF WaiterInv
<1>. QED BY <1>1, <1>2, <1>3, <1>4 DEF WaiterStep

(* The other threads at most start a detached thread, which has to wait.   *)
LEMMA OthersKeepOneWaiter ==
  ASSUME ThreadTypes, WaiterInv, Next, ~(\E w \in Waiters : WaiterStep(w))
  PROVE  WaiterInv'
<1>. USE ThreadNames
<1>1. CASE ReceiveStep
  <2>1. CASE Connect \/ LeaveSession \/ ReceiveEnds \/ OnPauseOrResume \/ UseClock
    <3>. at'["main"] = at["main"] /\ (\A w \in Waiters : at'[w] = at[w]) /\ after' = after /\ waitingForConfig' = waitingForConfig
      BY <2>1 DEF ThreadTypes, Connect, LeaveSession, ReceiveEnds, OnPauseOrResume,
         UseClock, Goto, callVars, configVars
    <3>. QED BY WaiterFrame DEF WaiterInv
  <2>2. CASE OnLaunchConfig \/ OnPing
    <3>. at' = at /\ after' = after /\ waitingForConfig' = waitingForConfig
      BY <2>2 DEF OnLaunchConfig, OnPing, callVars, configVars
    <3>. QED BY WaiterFrame DEF WaiterInv
  <2>3. CASE OnStop \/ OnRestart \/ ReceiveFails \/ Relaunch
    <3>. /\ \A u \in Threads \ {"receive"} : at'[u] = at[u] /\ after'[u] = after[u]
         /\ waitingForConfig' = waitingForConfig
      BY <2>3 DEF ThreadTypes, OnStop, OnRestart, ReceiveFails, Relaunch, CallStop,
         CallLaunch, Goto, callVars, configVars
    <3>. QED BY WaiterFrame DEF WaiterInv
  <2>4. ASSUME NEW w \in Waiters, ConnectionUp(w) \/ Stopped(w) PROVE WaiterInv'
    <3>1. /\ at' = [at EXCEPT ![w] = "wait", !["receive"] = "session"]
          /\ at[w] = "none" /\ after' = after /\ waitingForConfig' = waitingForConfig
      BY <2>4 DEF ConnectionUp, Stopped, SpawnWaiter, callVars
    <3>2. /\ at'[w] = "wait" /\ at'["main"] = at["main"]
          /\ \A v \in Waiters \ {w} : at'[v] = at[v]
      BY <3>1 DEF ThreadTypes
    <3>. QED BY <3>1, <3>2 DEF WaiterInv, OneWaiter, LaunchSteps
  <2>5. CASE StopSimulation("receive")
    BY <2>5, StopFrame, WaiterFrame DEF WaiterInv, configVars
  <2>6. CASE LaunchSimulation("receive")
    BY <2>6, LaunchFrame, WaiterFrame DEF WaiterInv, configVars
  <2>. QED BY <1>1, <2>1, <2>2, <2>3, <2>4, <2>5, <2>6 DEF ReceiveStep
<1>2. CASE SendStep
  <2>1. CASE BeginSend \/ SendDone \/ SenderEnds \/ SendFails
    <3>. /\ \A u \in Threads \ {"send"} : at'[u] = at[u] /\ after'[u] = after[u]
         /\ waitingForConfig' = waitingForConfig
      BY <2>1 DEF ThreadTypes, BeginSend, SendDone, SenderEnds, SendFails, CallStop, Goto,
         callVars, configVars
    <3>. QED BY WaiterFrame DEF WaiterInv
  <2>2. CASE StopSimulation("send")
    BY <2>2, StopFrame, WaiterFrame DEF WaiterInv, configVars
  <2>. QED BY <1>2, <2>1, <2>2 DEF SendStep
<1>3. CASE MainStep
  <2>1. CASE Quit \/ StopClient \/ MainEnds
    <3>. /\ \A u \in Threads \ {"main"} : at'[u] = at[u] /\ after'[u] = after[u]
         /\ at'["main"] \notin StopSteps /\ waitingForConfig' = waitingForConfig
      BY <2>1 DEF ThreadTypes, Quit, StopClient, MainEnds, StopSteps, Goto, callVars, configVars
    <3>. QED BY WaiterFrame DEF WaiterInv
  <2>2. CASE DestroyManager
    <3>. /\ \A u \in Threads \ {"main"} : at'[u] = at[u] /\ after'[u] = after[u]
         /\ after'["main"] = "stop client" /\ waitingForConfig' = waitingForConfig
      BY <2>2 DEF ThreadTypes, DestroyManager, CallStop, Goto, configVars
    <3>. QED BY WaiterFrame DEF WaiterInv
  <2>3. CASE StopSimulation("main")
    <3>1. at["main"] \in StopSteps /\ after["main"] = "stop client"
      BY <2>3, StopFrame DEF WaiterInv
    <3>2. at'["main"] \in StopSteps => after'["main"] = "stop client"
      BY <2>3, <3>1, StopFrame DEF StopSteps
    <3>. QED BY <2>3, <3>2, StopFrame, WaiterFrame DEF configVars
  <2>. QED BY <1>3, <2>1, <2>2, <2>3 DEF MainStep
<1>4. CASE QueuePacket \/ ClockThreadEnds
  <2>. at' = at /\ after' = after /\ waitingForConfig' = waitingForConfig
    BY <1>4 DEF QueuePacket, ClockThreadEnds, callVars, configVars
  <2>. QED BY WaiterFrame DEF WaiterInv
<1>. QED BY <1>1, <1>2, <1>3, <1>4 DEF Next

(* Losses are only counted.                                                *)
LEMMA LossesCounted ==
  ASSUME NumberTypes, ThreadTypes, Next
  PROVE  losses' = losses \/ losses' = losses + 1
<1>. USE ThreadNames
<1>1. ASSUME NEW w \in Waiters, WaiterStep(w) PROVE losses' = losses
  BY <1>1, LaunchFrame DEF WaiterStep, Wait, Poll, AllowFutureCalls, linkVars
<1>2. CASE ReceiveStep
  <2>1. ASSUME NEW w \in Waiters, ConnectionUp(w) \/ Stopped(w) PROVE losses' = losses
    BY <2>1 DEF ConnectionUp, Stopped, linkVars
  <2>2. CASE StopSimulation("receive") \/ LaunchSimulation("receive")
    BY <2>2, StopFrame, LaunchFrame DEF linkVars
  <2>. QED
    BY <1>2, <2>1, <2>2 DEF ReceiveStep, Connect, OnLaunchConfig, OnStop, OnRestart,
       Relaunch,
                OnPauseOrResume, UseClock, OnPing, ReceiveFails, LeaveSession, ReceiveEnds, linkVars
<1>3. CASE SendStep
  BY <1>3, StopFrame DEF SendStep, BeginSend, SendDone, SendFails, SenderEnds, linkVars
<1>4. CASE MainStep
  BY <1>4, StopFrame DEF MainStep, Quit, DestroyManager, StopClient, MainEnds, linkVars
<1>5. CASE QueuePacket \/ ClockThreadEnds
  BY <1>5 DEF QueuePacket, ClockThreadEnds, linkVars
<1>. QED BY <1>1, <1>2, <1>3, <1>4, <1>5 DEF Next

(* And main does not come back from ending the process.                    *)
LEMMA MainForGood ==
  ASSUME ThreadTypes, WaiterInv, Next, at'["main"] = "running"
  PROVE  at["main"] = "running" /\ ~MainStep
<1>. USE ThreadNames
<1>1. ~MainStep
  <2>1. ~Quit /\ ~DestroyManager /\ ~StopClient /\ ~MainEnds
    BY DEF ThreadTypes, Quit, DestroyManager, StopClient, MainEnds, CallStop, Goto
  <2>2. ~StopSimulation("main")
    BY StopFrame DEF WaiterInv, StopSteps
  <2>. QED BY <2>1, <2>2 DEF MainStep
<1>2. ASSUME NEW w \in Waiters, WaiterStep(w) PROVE at'["main"] = at["main"]
  BY <1>2, LaunchFrame DEF ThreadTypes, WaiterStep, Wait, Poll, AllowFutureCalls, CallLaunch, Goto
<1>3. ASSUME ReceiveStep PROVE at'["main"] = at["main"]
  <2>1. ASSUME NEW w \in Waiters, ConnectionUp(w) \/ Stopped(w) PROVE at'["main"] = at["main"]
    BY <2>1 DEF ThreadTypes, ConnectionUp, Stopped, SpawnWaiter
  <2>2. CASE StopSimulation("receive") \/ LaunchSimulation("receive")
    BY <2>2, StopFrame, LaunchFrame
  <2>3. CASE Connect \/ OnPauseOrResume \/ UseClock \/ OnLaunchConfig \/ OnPing \/ LeaveSession \/ ReceiveEnds
    BY <2>3 DEF ThreadTypes, Connect, OnPauseOrResume, UseClock, OnLaunchConfig, OnPing,
       LeaveSession, ReceiveEnds, Goto
  <2>4. CASE OnStop \/ OnRestart \/ ReceiveFails \/ Relaunch
    BY <2>4 DEF ThreadTypes, OnStop, OnRestart, ReceiveFails, Relaunch, CallStop, CallLaunch, Goto
  <2>. QED BY <1>3, <2>1, <2>2, <2>3, <2>4 DEF ReceiveStep
<1>4. ASSUME SendStep PROVE at'["main"] = at["main"]
  BY <1>4, StopFrame DEF ThreadTypes, SendStep, BeginSend, SendDone, SendFails, SenderEnds,
     CallStop, Goto
<1>5. ASSUME QueuePacket \/ ClockThreadEnds PROVE at'["main"] = at["main"]
  BY <1>5 DEF QueuePacket, ClockThreadEnds
<1>. QED BY <1>1, <1>2, <1>3, <1>4, <1>5 DEF Next

(* Once disturbed, disturbed.                                              *)
LEMMA DisturbedForGood ==
  ASSUME ManagerTypes, WaiterInv, Next, Undisturbed'
  PROVE  Undisturbed /\ losses' = losses /\ ~MainStep
<1>1. losses' = losses /\ losses = 0
  BY LossesCounted DEF ManagerTypes, NumberTypes, Undisturbed
<1>. QED BY <1>1, MainForGood DEF ManagerTypes, Undisturbed

(* Without what is counted, CalmInv is about the threads and the objects.  *)
ThreadsCalm == ReceiveAlone /\ SenderCalm /\ ObjectsInv

(* A detached thread, while nothing else is under way.                     *)
LEMMA WaiterKeepsCalm ==
  ASSUME ThreadTypes, WaiterInv, ThreadsCalm, NEW w \in Waiters, WaiterStep(w)
  PROVE  ThreadsCalm'
<1>. USE ThreadNames
<1>1. CASE Wait(w)
  <2>1. ReceiveAlone'
    BY <1>1 DEF Wait, Goto, callVars, linkVars, configVars, objectVars, senderVars,
       ThreadsCalm, ReceiveAlone, ObjectsInv, Pending, StopSteps, LaunchSteps, WaiterInv,
       ThreadTypes
  <2>2. SenderCalm'
    BY <1>1 DEF Wait, Goto, callVars, linkVars, configVars, objectVars, senderVars,
       ThreadsCalm, SenderCalm, ReceiveAlone, StopSteps, LaunchSteps, ThreadTypes
  <2>3. ObjectsInv'
    BY <1>1 DEF Wait, Goto, callVars, linkVars, configVars, objectVars, senderVars,
       ThreadsCalm, ReceiveAlone, ObjectsInv, Pending, StopSteps, LaunchSteps,
       ClockThreadAlive, WaiterInv, ThreadTypes
  <2>. QED BY <2>1, <2>2, <2>3 DEF ThreadsCalm
<1>2. CASE Poll(w)
  <2>1. ReceiveAlone'
    BY <1>2 DEF Poll, CallLaunch, Goto, callVars, linkVars, configVars, objectVars,
       senderVars, ThreadsCalm, ReceiveAlone, ObjectsInv, Pending, StopSteps, LaunchSteps,
       WaiterInv, ThreadTypes
  <2>2. SenderCalm'
    BY <1>2 DEF Poll, CallLaunch, Goto, callVars, linkVars, configVars, objectVars,
       senderVars, ThreadsCalm, SenderCalm, ReceiveAlone, StopSteps, LaunchSteps, ThreadTypes
  <2>3. ObjectsInv'
    BY <1>2 DEF Poll, CallLaunch, Goto, callVars, linkVars, configVars, objectVars,
       senderVars, ThreadsCalm, ReceiveAlone, ObjectsInv, Pending, StopSteps, LaunchSteps,
       ClockThreadAlive, WaiterInv, ThreadTypes
  <2>. QED BY <2>1, <2>2, <2>3 DEF ThreadsCalm
<1>3. CASE AllowFutureCalls(w)
  <2>1. ReceiveAlone'
    BY <1>3 DEF AllowFutureCalls, Goto, callVars, linkVars, configVars, objectVars,
       senderVars, ThreadsCalm, ReceiveAlone, ObjectsInv, Pending, StopSteps, LaunchSteps,
       WaiterInv, ThreadTypes
  <2>2. SenderCalm'
    BY <1>3 DEF AllowFutureCalls, Goto, callVars, linkVars, configVars, objectVars,
       senderVars, ThreadsCalm, SenderCalm, ReceiveAlone, StopSteps, LaunchSteps, ThreadTypes
  <2>3. ObjectsInv'
    BY <1>3 DEF AllowFutureCalls, Goto, callVars, linkVars, configVars, objectVars,
       senderVars, ThreadsCalm, ReceiveAlone, ObjectsInv, Pending, StopSteps, LaunchSteps,
       ClockThreadAlive, WaiterInv, ThreadTypes
  <2>. QED BY <2>1, <2>2, <2>3 DEF ThreadsCalm
<1>4. CASE BuildMetrics(w)
  <2>1. /\ at[w] = "build metrics" /\ at'[w] = "build nodes"
        /\ \A u \in Threads \ {w} : at'[u] = at[u] /\ after'[u] = after[u]
        /\ metrics' = TRUE /\ UNCHANGED <<connected, running, nodes, clock, senderStop>>
        /\ ~ClockThreadAlive => ~broken'
    BY <1>4 DEF BuildMetrics, Goto, callVars, linkVars, senderVars, ThreadTypes
  <2>2. ReceiveAlone'
    BY <2>1 DEF ThreadsCalm, ReceiveAlone, Pending, LaunchSteps
  <2>3. SenderCalm'
    BY <2>1 DEF ThreadsCalm, SenderCalm
  <2>4. ObjectsInv'
    BY <2>1 DEF ThreadsCalm, ReceiveAlone, ObjectsInv, ClockThreadAlive, Pending, LaunchSteps
  <2>. QED BY <2>2, <2>3, <2>4 DEF ThreadsCalm
<1>5. CASE BuildNodes(w)
  BY <1>5 DEF BuildNodes, Goto, callVars, linkVars, configVars, objectVars, senderVars,
              ThreadsCalm, ReceiveAlone, SenderCalm, ObjectsInv, Pending,
              StopSteps, LaunchSteps, ClockThreadAlive, WaiterInv, ThreadTypes
<1>6. CASE Deploy(w)
  BY <1>6 DEF Deploy, Goto, callVars, linkVars, configVars, objectVars, senderVars,
              ThreadsCalm, ReceiveAlone, SenderCalm, ObjectsInv, Pending,
              StopSteps, LaunchSteps, ClockThreadAlive, WaiterInv, ThreadTypes
<1>7. CASE BuildClock(w)
  BY <1>7 DEF BuildClock, Goto, callVars, linkVars, configVars, objectVars, senderVars,
              ThreadsCalm, ReceiveAlone, SenderCalm, ObjectsInv, Pending,
              StopSteps, LaunchSteps, ClockThreadAlive, WaiterInv, ThreadTypes
<1>8. CASE StartClock(w)
  BY <1>8 DEF StartClock, Goto, callVars, linkVars, configVars, objectVars, senderVars,
              ThreadsCalm, ReceiveAlone, SenderCalm, ObjectsInv, Pending,
              StopSteps, LaunchSteps, ClockThreadAlive, WaiterInv, ThreadTypes
<1>9. CASE SetRunning(w)
  <2>1. ReceiveAlone'
    BY <1>9 DEF SetRunning, Return, Goto, callVars, linkVars, configVars, objectVars,
       senderVars, ThreadsCalm, ReceiveAlone, ObjectsInv, Pending, StopSteps, LaunchSteps,
       WaiterInv, ThreadTypes
  <2>2. SenderCalm'
    BY <1>9 DEF SetRunning, Return, Goto, callVars, linkVars, configVars, objectVars,
       senderVars, ThreadsCalm, SenderCalm, ReceiveAlone, StopSteps, LaunchSteps, ThreadTypes
  <2>3. ObjectsInv'
    <3>1. /\ at[w] = "set running" /\ at'[w] = "allow"
          /\ \A v \in Waiters \ {w} : at'[v] = at[v]
          /\ at'["receive"] = at["receive"]
      BY <1>9 DEF SetRunning, Return, Goto, WaiterInv, ThreadTypes, LaunchSteps
    <3>2. at["receive"] = "session" /\ \A v \in Waiters \ {w} : ~Pending(v)
      BY <3>1 DEF ThreadsCalm, ReceiveAlone, Pending, LaunchSteps
    <3>3. running' /\ UNCHANGED <<metrics, nodes, clock, broken>>
      BY <1>9 DEF SetRunning
    <3>. QED BY <3>1, <3>2, <3>3 DEF ThreadsCalm, ObjectsInv, ClockThreadAlive, Pending, LaunchSteps
  <2>. QED BY <2>1, <2>2, <2>3 DEF ThreadsCalm
<1>. QED BY <1>1, <1>2, <1>3, <1>4, <1>5, <1>6, <1>7, <1>8, <1>9 DEF WaiterStep, LaunchSimulation

(* The receive thread, while no connection is lost.                        *)
LEMMA ReceiveKeepsCalm ==
  ASSUME ThreadTypes, NumberTypes, WaiterInv, ThreadsCalm, at["main"] = "running",
         losses' = losses, ReceiveStep
  PROVE  ThreadsCalm'
<1>. USE ThreadNames
<1>1. CASE OnLaunchConfig
  BY <1>1 DEF OnLaunchConfig, Receives, Goto, callVars, linkVars, configVars, objectVars,
     senderVars,
              ThreadsCalm, ReceiveAlone, SenderCalm, ObjectsInv, Pending,
              StopSteps, LaunchSteps, ClockThreadAlive, WaiterInv, ThreadTypes
<1>2. CASE OnPauseOrResume
  BY <1>2 DEF OnPauseOrResume, Receives, Goto, callVars, linkVars, configVars, objectVars,
     senderVars,
              ThreadsCalm, ReceiveAlone, SenderCalm, ObjectsInv, Pending,
              StopSteps, LaunchSteps, ClockThreadAlive, WaiterInv, ThreadTypes
<1>3. CASE OnPing
  BY <1>3 DEF OnPing, Receives, Goto, callVars, linkVars, configVars, objectVars, senderVars,
              ThreadsCalm, ReceiveAlone, SenderCalm, ObjectsInv, Pending,
              StopSteps, LaunchSteps, ClockThreadAlive, WaiterInv, ThreadTypes
<1>4. CASE LeaveSession
  BY <1>4 DEF LeaveSession, Receives, Goto, callVars, linkVars, configVars, objectVars, senderVars,
              ThreadsCalm, ReceiveAlone, SenderCalm, ObjectsInv, Pending,
              StopSteps, LaunchSteps, ClockThreadAlive, WaiterInv, ThreadTypes
<1>5. ~ReceiveEnds
  BY DEF ReceiveEnds
<1>6. CASE Connect
  BY <1>6 DEF Connect, Goto, callVars, linkVars, configVars, objectVars, senderVars,
              ThreadsCalm, ReceiveAlone, SenderCalm, ObjectsInv, Pending,
              StopSteps, LaunchSteps, ClockThreadAlive, WaiterInv, ThreadTypes
<1>7. CASE UseClock
  BY <1>7 DEF UseClock, Goto, callVars, linkVars, configVars, objectVars, senderVars,
              ThreadsCalm, ReceiveAlone, SenderCalm, ObjectsInv, Pending,
              StopSteps, LaunchSteps, ClockThreadAlive, WaiterInv, ThreadTypes
<1>8. CASE OnStop
  BY <1>8 DEF OnStop, Receives, CallStop, Goto, callVars, linkVars, configVars, objectVars,
     senderVars,
              ThreadsCalm, ReceiveAlone, SenderCalm, ObjectsInv, Pending,
              StopSteps, LaunchSteps, ClockThreadAlive, WaiterInv, ThreadTypes
<1>9. CASE OnRestart
  BY <1>9 DEF OnRestart, Receives, CallStop, Goto, callVars, linkVars, configVars,
     objectVars, senderVars,
              ThreadsCalm, ReceiveAlone, SenderCalm, ObjectsInv, Pending,
              StopSteps, LaunchSteps, ClockThreadAlive, WaiterInv, ThreadTypes
<1>10. CASE Relaunch
  <2>1. /\ at["receive"] = "relaunch"
        /\ \/ at'["receive"] = "session" /\ after' = after
           \/ at'["receive"] = "build metrics" /\ after'["receive"] = "session"
        /\ \A u \in Threads \ {"receive"} : at'[u] = at[u]
        /\ UNCHANGED <<connected, running, metrics, nodes, clock, senderStop, broken>>
    BY <1>10 DEF Relaunch, CallLaunch, Goto, callVars, linkVars, objectVars, senderVars, ThreadTypes
  <2>2. ~running /\ \A w \in Waiters : ~Pending(w)
    BY <2>1 DEF ThreadsCalm, ReceiveAlone, ObjectsInv
  <2>3. ReceiveAlone'
    BY <2>1, <2>2 DEF ThreadsCalm, ReceiveAlone, Pending, StopSteps, LaunchSteps
  <2>4. SenderCalm'
    BY <2>1 DEF ThreadsCalm, SenderCalm
  <2>5. ObjectsInv'
    BY <2>1, <2>2 DEF ThreadsCalm, ObjectsInv, ClockThreadAlive, Pending, LaunchSteps
  <2>. QED BY <2>3, <2>4, <2>5 DEF ThreadsCalm
<1>11. CASE ClearRunning("receive")
  BY <1>11 DEF ClearRunning, Goto, callVars, linkVars, configVars, objectVars, senderVars,
              ThreadsCalm, ReceiveAlone, SenderCalm, ObjectsInv, Pending,
              StopSteps, LaunchSteps, ClockThreadAlive, WaiterInv, ThreadTypes
<1>12. CASE StopClock("receive")
  <2>1. ReceiveAlone'
    BY <1>12 DEF StopClock, Goto, callVars, linkVars, configVars, objectVars, senderVars,
       ThreadsCalm, ReceiveAlone, ObjectsInv, Pending, StopSteps, LaunchSteps, WaiterInv,
       ThreadTypes
  <2>2. SenderCalm'
    BY <1>12 DEF StopClock, Goto, callVars, linkVars, configVars, objectVars, senderVars,
       ThreadsCalm, SenderCalm, ReceiveAlone, StopSteps, LaunchSteps, ThreadTypes
  <2>3. ObjectsInv'
    <3>1. /\ at["receive"] = "stop clock"
          /\ \/ at'["receive"] = "join clock" /\ clock' = "stopping"
             \/ at'["receive"] = "summary" /\ clock' = clock /\ clock # "running"
          /\ \A w \in Waiters : at'[w] = at[w]
          /\ UNCHANGED <<running, metrics, nodes, broken>>
      BY <1>12 DEF StopClock, Goto, objectVars, ThreadTypes
    <3>2. ~running /\ \A w \in Waiters : ~Pending(w)
      BY <3>1 DEF ThreadsCalm, ReceiveAlone, ObjectsInv
    <3>. QED BY <3>1, <3>2 DEF ThreadsCalm, ObjectsInv, ClockThreadAlive, Pending, LaunchSteps
  <2>. QED BY <2>1, <2>2, <2>3 DEF ThreadsCalm
<1>13. CASE JoinClock("receive")
  <2>1. ReceiveAlone'
    BY <1>13 DEF JoinClock, Goto, callVars, linkVars, configVars, objectVars, senderVars,
       ThreadsCalm, ReceiveAlone, ObjectsInv, Pending, StopSteps, LaunchSteps, WaiterInv,
       ThreadTypes
  <2>2. SenderCalm'
    BY <1>13 DEF JoinClock, Goto, callVars, linkVars, configVars, objectVars, senderVars,
       ThreadsCalm, SenderCalm, ReceiveAlone, StopSteps, LaunchSteps, ThreadTypes
  <2>3. ObjectsInv'
    <3>1. /\ at["receive"] = "join clock" /\ at'["receive"] = "summary" /\ clock # "stopping"
          /\ \A w \in Waiters : at'[w] = at[w]
          /\ UNCHANGED <<running, metrics, nodes, clock, broken>>
      BY <1>13 DEF JoinClock, Goto, objectVars, ThreadTypes
    <3>2. ~running /\ \A w \in Waiters : ~Pending(w)
      BY <3>1 DEF ThreadsCalm, ReceiveAlone, ObjectsInv
    <3>. QED BY <3>1, <3>2 DEF ThreadsCalm, ObjectsInv, ClockThreadAlive, Pending, LaunchSteps
  <2>. QED BY <2>1, <2>2, <2>3 DEF ThreadsCalm
<1>14. CASE Summary("receive")
  BY <1>14 DEF Summary, Goto, callVars, linkVars, configVars, objectVars, senderVars,
              ThreadsCalm, ReceiveAlone, SenderCalm, ObjectsInv, Pending,
              StopSteps, LaunchSteps, ClockThreadAlive, WaiterInv, ThreadTypes
<1>15. CASE DropNodes("receive")
  BY <1>15 DEF DropNodes, Goto, callVars, linkVars, configVars, objectVars, senderVars,
              ThreadsCalm, ReceiveAlone, SenderCalm, ObjectsInv, Pending,
              StopSteps, LaunchSteps, ClockThreadAlive, WaiterInv, ThreadTypes
<1>16. CASE DropClock("receive")
  BY <1>16 DEF DropClock, Goto, callVars, linkVars, configVars, objectVars, senderVars,
              ThreadsCalm, ReceiveAlone, SenderCalm, ObjectsInv, Pending,
              StopSteps, LaunchSteps, ClockThreadAlive, WaiterInv, ThreadTypes
<1>17. CASE DropMetrics("receive")
  BY <1>17 DEF DropMetrics, Return, Goto, callVars, linkVars, configVars, objectVars, senderVars,
              ThreadsCalm, ReceiveAlone, SenderCalm, ObjectsInv, Pending,
              StopSteps, LaunchSteps, ClockThreadAlive, WaiterInv, ThreadTypes
<1>18. CASE BuildMetrics("receive")
  <2>1. ReceiveAlone'
    BY <1>18 DEF BuildMetrics, Goto, callVars, linkVars, configVars, objectVars, senderVars,
       ThreadsCalm, ReceiveAlone, ObjectsInv, Pending, StopSteps, LaunchSteps, WaiterInv,
       ThreadTypes
  <2>2. SenderCalm'
    BY <1>18 DEF BuildMetrics, Goto, callVars, linkVars, configVars, objectVars, senderVars,
       ThreadsCalm, SenderCalm, ReceiveAlone, StopSteps, LaunchSteps, ThreadTypes
  <2>3. ObjectsInv'
    BY <1>18 DEF BuildMetrics, Goto, callVars, linkVars, configVars, objectVars, senderVars,
       ThreadsCalm, ReceiveAlone, ObjectsInv, Pending, StopSteps, LaunchSteps,
       ClockThreadAlive, WaiterInv, ThreadTypes
  <2>. QED BY <2>1, <2>2, <2>3 DEF ThreadsCalm
<1>19. CASE BuildNodes("receive")
  <2>1. ReceiveAlone'
    BY <1>19 DEF BuildNodes, Goto, callVars, linkVars, configVars, objectVars, senderVars,
       ThreadsCalm, ReceiveAlone, ObjectsInv, Pending, StopSteps, LaunchSteps, WaiterInv,
       ThreadTypes
  <2>2. SenderCalm'
    BY <1>19 DEF BuildNodes, Goto, callVars, linkVars, configVars, objectVars, senderVars,
       ThreadsCalm, SenderCalm, ReceiveAlone, StopSteps, LaunchSteps, ThreadTypes
  <2>3. ObjectsInv'
    <3>1. /\ at["receive"] = "build nodes" /\ at'["receive"] = "deploy"
          /\ \A w \in Waiters : at'[w] = at[w]
          /\ nodes' = TRUE /\ (~ClockThreadAlive => ~broken')
          /\ UNCHANGED <<running, metrics, clock>>
      BY <1>19 DEF BuildNodes, Goto, objectVars, ThreadTypes
    <3>2. ~running /\ \A w \in Waiters : ~Pending(w)
      BY <3>1 DEF ThreadsCalm, ReceiveAlone, ObjectsInv
    <3>. QED BY <3>1, <3>2 DEF ThreadsCalm, ObjectsInv, ClockThreadAlive, Pending, LaunchSteps
  <2>. QED BY <2>1, <2>2, <2>3 DEF ThreadsCalm
<1>20. CASE Deploy("receive")
  <2>1. ReceiveAlone'
    BY <1>20 DEF Deploy, Goto, callVars, linkVars, configVars, objectVars, senderVars,
       ThreadsCalm, ReceiveAlone, ObjectsInv, Pending, StopSteps, LaunchSteps, WaiterInv,
       ThreadTypes
  <2>2. SenderCalm'
    BY <1>20 DEF Deploy, Goto, callVars, linkVars, configVars, objectVars, senderVars,
       ThreadsCalm, SenderCalm, ReceiveAlone, StopSteps, LaunchSteps, ThreadTypes
  <2>3. ObjectsInv'
    BY <1>20 DEF Deploy, Goto, callVars, linkVars, configVars, objectVars, senderVars,
       ThreadsCalm, ReceiveAlone, ObjectsInv, Pending, StopSteps, LaunchSteps,
       ClockThreadAlive, WaiterInv, ThreadTypes
  <2>. QED BY <2>1, <2>2, <2>3 DEF ThreadsCalm
<1>21. CASE BuildClock("receive")
  <2>1. ReceiveAlone'
    BY <1>21 DEF BuildClock, Goto, callVars, linkVars, configVars, objectVars, senderVars,
       ThreadsCalm, ReceiveAlone, ObjectsInv, Pending, StopSteps, LaunchSteps, WaiterInv,
       ThreadTypes
  <2>2. SenderCalm'
    BY <1>21 DEF BuildClock, Goto, callVars, linkVars, configVars, objectVars, senderVars,
       ThreadsCalm, SenderCalm, ReceiveAlone, StopSteps, LaunchSteps, ThreadTypes
  <2>3. ObjectsInv'
    BY <1>21 DEF BuildClock, Goto, callVars, linkVars, configVars, objectVars, senderVars,
       ThreadsCalm, ReceiveAlone, ObjectsInv, Pending, StopSteps, LaunchSteps,
       ClockThreadAlive, WaiterInv, ThreadTypes
  <2>. QED BY <2>1, <2>2, <2>3 DEF ThreadsCalm
<1>22. CASE StartClock("receive")
  <2>1. ReceiveAlone'
    BY <1>22 DEF StartClock, Goto, callVars, linkVars, configVars, objectVars, senderVars,
       ThreadsCalm, ReceiveAlone, ObjectsInv, Pending, StopSteps, LaunchSteps, WaiterInv,
       ThreadTypes
  <2>2. SenderCalm'
    BY <1>22 DEF StartClock, Goto, callVars, linkVars, configVars, objectVars, senderVars,
       ThreadsCalm, SenderCalm, ReceiveAlone, StopSteps, LaunchSteps, ThreadTypes
  <2>3. ObjectsInv'
    BY <1>22 DEF StartClock, Goto, callVars, linkVars, configVars, objectVars, senderVars,
       ThreadsCalm, ReceiveAlone, ObjectsInv, Pending, StopSteps, LaunchSteps,
       ClockThreadAlive, WaiterInv, ThreadTypes
  <2>. QED BY <2>1, <2>2, <2>3 DEF ThreadsCalm
<1>23. CASE SetRunning("receive")
  <2>1. ReceiveAlone'
    BY <1>23 DEF SetRunning, Return, Goto, callVars, linkVars, configVars, objectVars,
       senderVars, ThreadsCalm, ReceiveAlone, ObjectsInv, Pending, StopSteps, LaunchSteps,
       WaiterInv, ThreadTypes
  <2>2. SenderCalm'
    BY <1>23 DEF SetRunning, Return, Goto, callVars, linkVars, configVars, objectVars,
       senderVars, ThreadsCalm, SenderCalm, ReceiveAlone, StopSteps, LaunchSteps, ThreadTypes
  <2>3. ObjectsInv'
    BY <1>23 DEF SetRunning, Return, Goto, callVars, linkVars, configVars, objectVars,
       senderVars, ThreadsCalm, ReceiveAlone, ObjectsInv, Pending, StopSteps, LaunchSteps,
       ClockThreadAlive, WaiterInv, ThreadTypes
  <2>. QED BY <2>1, <2>2, <2>3 DEF ThreadsCalm
<1>24. ASSUME NEW w \in Waiters, ConnectionUp(w) \/ Stopped(w) PROVE ThreadsCalm'
  <2>1. /\ at["receive"] \in {"up", "stopped"} /\ at'["receive"] = "session"
        /\ at'[w] = "wait" /\ \A u \in Threads \ {w, "receive"} : at'[u] = at[u]
        /\ UNCHANGED <<connected, running, metrics, nodes, clock, senderStop, broken>>
    BY <1>24 DEF ConnectionUp, Stopped, SpawnWaiter, linkVars, objectVars, senderVars, ThreadTypes
  <2>2. ~running /\ \A v \in Waiters : ~Pending(v)
    BY <2>1 DEF ThreadsCalm, ReceiveAlone, ObjectsInv
  <2>3. ReceiveAlone'
    BY <2>1, <2>2 DEF ThreadsCalm, ReceiveAlone, Pending, StopSteps, LaunchSteps
  <2>4. SenderCalm'
    BY <2>1 DEF ThreadsCalm, SenderCalm
  <2>5. ObjectsInv'
    BY <2>1, <2>2 DEF ThreadsCalm, ObjectsInv, ClockThreadAlive, Pending, LaunchSteps
  <2>. QED BY <2>3, <2>4, <2>5 DEF ThreadsCalm
<1>25. ~ReceiveFails
  BY DEF ReceiveFails, NumberTypes
<1>. QED
  BY <1>1, <1>2, <1>3, <1>4, <1>5, <1>6, <1>7, <1>8, <1>9, <1>10, <1>11, <1>12, <1>13,
     <1>14, <1>15, <1>16, <1>17, <1>18, <1>19, <1>20, <1>21, <1>22, <1>23, <1>24, <1>25
  DEF ReceiveStep, StopSimulation, LaunchSimulation

(* The sender and the clock.                                               *)
LEMMA OthersKeepCalm ==
  ASSUME ThreadTypes, NumberTypes, WaiterInv, ThreadsCalm, losses' = losses,
         SendStep \/ QueuePacket \/ ClockThreadEnds
  PROVE  ThreadsCalm'
<1>. USE ThreadNames
<1>1. CASE BeginSend
  <2>1. ReceiveAlone'
    BY <1>1 DEF BeginSend, Goto, callVars, linkVars, configVars, objectVars, senderVars,
       ThreadsCalm, ReceiveAlone, ObjectsInv, Pending, StopSteps, LaunchSteps, WaiterInv,
       ThreadTypes
  <2>2. SenderCalm'
    BY <1>1 DEF BeginSend, Goto, callVars, linkVars, configVars, objectVars, senderVars,
       ThreadsCalm, SenderCalm, ReceiveAlone, StopSteps, LaunchSteps, ThreadTypes
  <2>3. ObjectsInv'
    <3>1. /\ \A u \in Threads \ {"send"} : at'[u] = at[u]
          /\ UNCHANGED <<running, metrics, nodes, clock, broken>>
      BY <1>1 DEF BeginSend, Goto, objectVars, ThreadTypes
    <3>. QED BY <3>1 DEF ThreadsCalm, ObjectsInv, ClockThreadAlive
  <2>. QED BY <2>1, <2>2, <2>3 DEF ThreadsCalm
<1>2. CASE SendDone
  <2>1. ReceiveAlone'
    BY <1>2 DEF SendDone, Goto, callVars, linkVars, configVars, objectVars, senderVars,
       ThreadsCalm, ReceiveAlone, ObjectsInv, Pending, StopSteps, LaunchSteps, WaiterInv,
       ThreadTypes
  <2>2. SenderCalm'
    BY <1>2 DEF SendDone, Goto, callVars, linkVars, configVars, objectVars, senderVars,
       ThreadsCalm, SenderCalm, ReceiveAlone, StopSteps, LaunchSteps, ThreadTypes
  <2>3. ObjectsInv'
    <3>1. /\ \A u \in Threads \ {"send"} : at'[u] = at[u]
          /\ UNCHANGED <<running, metrics, nodes, clock, broken>>
      BY <1>2 DEF SendDone, Goto, objectVars, ThreadTypes
    <3>. QED BY <3>1 DEF ThreadsCalm, ObjectsInv, ClockThreadAlive
  <2>. QED BY <2>1, <2>2, <2>3 DEF ThreadsCalm
<1>3. CASE SenderEnds
  BY <1>3 DEF SenderEnds, Goto, callVars, linkVars, configVars, objectVars, senderVars,
              ThreadsCalm, ReceiveAlone, SenderCalm, ObjectsInv, Pending,
              StopSteps, LaunchSteps, ClockThreadAlive, WaiterInv, ThreadTypes
<1>4. CASE QueuePacket
  BY <1>4 DEF QueuePacket, Goto, callVars, linkVars, configVars, objectVars, senderVars,
              ThreadsCalm, ReceiveAlone, SenderCalm, ObjectsInv, Pending,
              StopSteps, LaunchSteps, ClockThreadAlive, WaiterInv, ThreadTypes
<1>5. CASE ClockThreadEnds
  BY <1>5 DEF ClockThreadEnds, Goto, callVars, linkVars, configVars, objectVars, senderVars,
              ThreadsCalm, ReceiveAlone, SenderCalm, ObjectsInv, Pending,
              StopSteps, LaunchSteps, ClockThreadAlive, WaiterInv, ThreadTypes
<1>6. ~SendFails
  <2>1. SendFails => connected BY DEF SendFails, ThreadsCalm, SenderCalm
  <2>. QED BY <2>1 DEF SendFails, NumberTypes
<1>7. ~StopSimulation("send")
  BY StopFrame DEF ThreadsCalm, SenderCalm, StopSteps
<1>. QED BY <1>1, <1>2, <1>3, <1>4, <1>5, <1>6, <1>7 DEF SendStep

(* Configurations: numbered from one, and the one to launch is later than  *)
(* the one stopped, because a stop happens with no launch pending and      *)
(* clears what was kept.                                                   *)
LEMMA ConfigStep ==
  ASSUME ThreadTypes, NumberTypes, WaiterInv, ThreadsCalm, ConfigInv, losses' = losses,
         Next, ~MainStep
  PROVE  ConfigInv'
<1>. USE ThreadNames
<1>a. ASSUME UNCHANGED <<config, configs, stoppedAt>>,
             \A w \in Waiters : /\ Pending(w)' => Pending(w)
                                /\ at'[w] \in LaunchSteps => at[w] \in LaunchSteps /\ job'[w] = job[w]
      PROVE  ConfigInv'
  BY <1>a DEF ConfigInv, Pending
<1>1. ASSUME NEW w \in Waiters, WaiterStep(w) PROVE ConfigInv'
  <2>1. CASE Wait(w) \/ AllowFutureCalls(w)
    <3>1. UNCHANGED <<config, configs, stoppedAt, job>>
      BY <2>1 DEF Wait, AllowFutureCalls, callVars
    <3>2. \A v \in Waiters : /\ Pending(v)' => Pending(v)
                             /\ at'[v] \in LaunchSteps => at[v] \in LaunchSteps
      BY <2>1 DEF ThreadTypes, Wait, AllowFutureCalls, Goto, Pending, LaunchSteps
    <3>. QED BY <1>a, <3>1, <3>2
  <2>2. CASE Poll(w)
    <3>1. /\ Pending(w) /\ config > stoppedAt
          /\ job' = [job EXCEPT ![w] = config]
          /\ UNCHANGED <<config, configs, stoppedAt>>
      BY <2>2 DEF Poll, CallLaunch, configVars, Pending, ConfigInv
    <3>2. \A v \in Waiters : Pending(v)' => Pending(v)
      BY <2>2, <3>1 DEF ThreadTypes, Poll, CallLaunch, Goto, Pending
    <3>3. \A v \in Waiters \ {w} : at'[v] = at[v]
      BY <2>2 DEF ThreadTypes, Poll, CallLaunch, Goto
    <3>. QED BY <3>1, <3>2, <3>3 DEF ConfigInv, NumberTypes
  <2>3. CASE LaunchSimulation(w)
    <3>1. UNCHANGED <<config, configs, stoppedAt>>
      BY <2>3, LaunchFrame DEF configVars
    <3>2. at'[w] \in LaunchSteps => job' = job
      BY <2>3 DEF ThreadTypes, WaiterInv, LaunchSimulation, BuildMetrics, BuildNodes,
         Deploy, BuildClock,
                  StartClock, SetRunning, Return, Goto, callVars, LaunchSteps
    <3>3. \A v \in Waiters : job'[v] = job[v] \/ (v = w /\ at'[w] \notin LaunchSteps)
      BY <2>3, <3>2 DEF LaunchSimulation, SetRunning, Return, BuildMetrics, BuildNodes,
         Deploy, BuildClock,
                  StartClock, callVars, NumberTypes
    <3>4. \A v \in Waiters : /\ Pending(v)' => Pending(v)
                             /\ at'[v] \in LaunchSteps => at[v] \in LaunchSteps
      BY <2>3, LaunchFrame DEF WaiterInv, Pending, LaunchSteps
    <3>. QED BY <1>a, <3>1, <3>3, <3>4
  <2>. QED BY <1>1, <2>1, <2>2, <2>3 DEF WaiterStep
<1>b. ASSUME UNCHANGED <<config, configs, stoppedAt>>,
             \A w \in Waiters : at'[w] = at[w] /\ job'[w] = job[w]
      PROVE  ConfigInv'
  BY <1>a, <1>b DEF Pending
<1>2. CASE ReceiveStep
  <2>1. CASE Connect \/ OnPauseOrResume \/ UseClock \/ OnPing \/ LeaveSession \/ ReceiveEnds
    <3>1. UNCHANGED <<config, configs, stoppedAt, job>>
      BY <2>1 DEF Connect, OnPauseOrResume, UseClock, OnPing, LeaveSession, ReceiveEnds,
         callVars, configVars
    <3>2. \A w \in Waiters : at'[w] = at[w]
      BY <2>1 DEF ThreadTypes, Connect, OnPauseOrResume, UseClock, OnPing, LeaveSession,
         ReceiveEnds, Goto
    <3>. QED BY <1>b, <3>1, <3>2
  <2>2. CASE OnLaunchConfig
    BY <2>2 DEF OnLaunchConfig, ConfigInv, NumberTypes, Pending, callVars
  <2>3. CASE OnStop
    <3>1. \A w \in Waiters : ~Pending(w) /\ at'[w] = at[w]
      BY <2>3 DEF OnStop, ThreadsCalm, ReceiveAlone, ThreadTypes, CallStop, Goto
    <3>2. stoppedAt' = configs /\ configs' = configs
      BY <2>3 DEF OnStop, configVars
    <3>. QED BY <3>1, <3>2 DEF ConfigInv, NumberTypes, Pending
  <2>4. CASE OnRestart \/ Relaunch \/ ReceiveFails
    <3>1. UNCHANGED <<config, configs, stoppedAt>>
      BY <2>4 DEF OnRestart, Relaunch, ReceiveFails, configVars
    <3>2. \A w \in Waiters : at'[w] = at[w]
      BY <2>4 DEF ThreadTypes, OnRestart, Relaunch, ReceiveFails, CallStop, CallLaunch, Goto
    <3>3. \A w \in Waiters : job'[w] = job[w]
      BY <2>4 DEF NumberTypes, OnRestart, Relaunch, ReceiveFails, CallStop, CallLaunch, callVars
    <3>. QED BY <1>b, <3>1, <3>2, <3>3
  <2>5. ASSUME NEW w \in Waiters, ConnectionUp(w) \/ Stopped(w) PROVE ConfigInv'
    <3>1. UNCHANGED <<configs, stoppedAt, job>> /\ config' = 0
      BY <2>5 DEF ConnectionUp, Stopped, SpawnWaiter, callVars
    <3>2. \A v \in Waiters : at'[v] \in LaunchSteps => at[v] \in LaunchSteps
      BY <2>5 DEF ThreadTypes, ConnectionUp, Stopped, SpawnWaiter, LaunchSteps
    <3>. QED BY <3>1, <3>2 DEF ConfigInv
  <2>6. CASE StopSimulation("receive")
    <3>1. \A w \in Waiters : job'[w] = job[w]
      BY <2>6 DEF NumberTypes, StopSimulation, ClearRunning, StopClock, JoinClock, Summary,
         DropNodes,
                  DropClock, DropMetrics, Return, callVars
    <3>. QED BY <1>b, <2>6, <3>1, StopFrame DEF configVars
  <2>7. CASE LaunchSimulation("receive")
    <3>1. \A w \in Waiters : job'[w] = job[w]
      BY <2>7 DEF NumberTypes, LaunchSimulation, BuildMetrics, BuildNodes, Deploy, BuildClock,
                  StartClock, SetRunning, Return, callVars
    <3>. QED BY <1>b, <2>7, <3>1, LaunchFrame DEF configVars
  <2>. QED BY <1>2, <2>1, <2>2, <2>3, <2>4, <2>5, <2>6, <2>7 DEF ReceiveStep
<1>3. CASE SendStep
  <2>1. ~SendFails
    <3>1. SendFails => connected BY DEF SendFails, ThreadsCalm, SenderCalm
    <3>. QED BY <3>1 DEF SendFails, NumberTypes
  <2>2. ~StopSimulation("send")
    BY StopFrame DEF ThreadsCalm, SenderCalm, StopSteps
  <2>3. UNCHANGED <<config, configs, stoppedAt, job>>
    BY <1>3, <2>1, <2>2 DEF SendStep, BeginSend, SendDone, SenderEnds, callVars, configVars
  <2>4. \A w \in Waiters : at'[w] = at[w]
    BY <1>3, <2>1, <2>2 DEF ThreadTypes, SendStep, BeginSend, SendDone, SenderEnds, Goto
  <2>. QED BY <1>b, <2>3, <2>4
<1>4. CASE QueuePacket \/ ClockThreadEnds
  <2>1. UNCHANGED <<at, config, configs, stoppedAt, job>>
    BY <1>4 DEF QueuePacket, ClockThreadEnds, callVars, configVars
  <2>. QED BY <1>b, <2>1
<1>. QED BY <1>1, <1>2, <1>3, <1>4 DEF Next

-------------------------------------------------------------------------------
(* IInv is inductive.                                                      *)
LEMMA InitEstablishes == Init => IInv
<1>. USE ThreadNames
<1>. SUFFICES ASSUME Init PROVE IInv OBVIOUS
<1>1. ManagerTypes
  <2>1. ThreadTypes BY StepNames DEF Init, ThreadTypes
  <2>2. NumberTypes BY DEF Init, NumberTypes
  <2>. QED BY <2>1, <2>2 DEF ManagerTypes
<1>2. WaiterInv BY DEF Init, WaiterInv, OneWaiter, LaunchSteps, StopSteps
<1>3. CalmInv
  <2>1. ReceiveAlone BY DEF Init, ReceiveAlone, Pending, StopSteps, LaunchSteps
  <2>2. SenderCalm BY DEF Init, SenderCalm
  <2>3. ObjectsInv BY DEF Init, ObjectsInv, ClockThreadAlive
  <2>4. ConfigInv
    <3>1. \A w \in Waiters : ~Pending(w) /\ at[w] \notin LaunchSteps
      BY DEF Init, Pending, LaunchSteps
    <3>2. stoppedAt = 0 /\ configs = 0 BY DEF Init
    <3>. QED BY <3>1, <3>2 DEF ConfigInv
  <2>. QED BY <2>1, <2>2, <2>3, <2>4 DEF CalmInv
<1>. QED BY <1>1, <1>2, <1>3 DEF IInv

(* Every step of every thread keeps the invariant; its calm part is        *)
(* claimed only while no connection has been lost.                         *)
LEMMA StepPreserves == IInv /\ [Next]_vars => IInv'
<1>. SUFFICES ASSUME IInv, [Next]_vars PROVE IInv' OBVIOUS
<1>1. CASE Next
  <2>1. ManagerTypes'
    BY <1>1, ThreadTypesStep, NumberTypesStep DEF IInv, ManagerTypes
  <2>2. WaiterInv'
    BY <1>1, WaiterStepKeepsOneWaiter, OthersKeepOneWaiter DEF IInv, ManagerTypes
  <2>3. ASSUME Undisturbed' PROVE CalmInv'
    <3>1. losses' = losses /\ ~MainStep /\ at["main"] = "running" /\ CalmInv
      BY <1>1, <2>3, DisturbedForGood DEF IInv, Undisturbed
    <3>2. ThreadTypes /\ NumberTypes /\ WaiterInv /\ ThreadsCalm /\ ConfigInv
      BY <3>1 DEF IInv, ManagerTypes, CalmInv, ThreadsCalm
    <3>3. ThreadsCalm'
      BY <1>1, <3>1, <3>2, WaiterKeepsCalm, ReceiveKeepsCalm, OthersKeepCalm DEF Next
    <3>4. ConfigInv'
      BY <1>1, <3>1, <3>2, ConfigStep
    <3>. QED BY <3>3, <3>4 DEF CalmInv, ThreadsCalm
  <2>. QED BY <2>1, <2>2, <2>3 DEF IInv
<1>2. CASE UNCHANGED vars
  <2>1. ThreadTypes'
    BY <1>2 DEF IInv, ManagerTypes, ThreadTypes, vars, callVars, linkVars, configVars,
       objectVars, senderVars
  <2>2. NumberTypes'
    BY <1>2 DEF IInv, ManagerTypes, NumberTypes, vars, callVars, linkVars, configVars
  <2>3. WaiterInv' BY <1>2, WaiterFrame DEF IInv, WaiterInv, vars, callVars, configVars
  <2>4. ASSUME Undisturbed' PROVE CalmInv'
    <3>1. CalmInv BY <1>2, <2>4 DEF IInv, Undisturbed, vars, linkVars
    <3>2. ReceiveAlone'
      BY <1>2, <3>1 DEF CalmInv, ReceiveAlone, Pending, vars, callVars, linkVars, objectVars
    <3>3. SenderCalm' BY <1>2, <3>1 DEF CalmInv, SenderCalm, vars, linkVars, senderVars
    <3>4. ObjectsInv' BY <1>2, <3>1 DEF CalmInv, ObjectsInv, ClockThreadAlive, vars, objectVars
    <3>5. ConfigInv' BY <1>2, <3>1 DEF CalmInv, ConfigInv, Pending, vars, callVars, configVars
    <3>. QED BY <3>2, <3>3, <3>4, <3>5 DEF CalmInv
  <2>. QED BY <2>1, <2>2, <2>3, <2>4 DEF IInv, ManagerTypes
<1>. QED BY <1>1, <1>2

(* The invariant holds whenever the process runs.                          *)
THEOREM ManagerInvariant == Spec => []IInv
BY InitEstablishes, StepPreserves, PTL DEF Spec

(* At most one thread waits for, or launches, a configuration received,    *)
(* whatever is lost in between (test_and_set in waitForLaunchConfig).      *)
THEOREM OneWaiterAlways == Spec => []OneWaiter
<1>1. IInv => OneWaiter BY DEF IInv, WaiterInv
<1>. QED BY <1>1, ManagerInvariant, PTL

(* Without a lost connection, launches, stops, restarts and pauses never   *)
(* overlap, and nothing is used after it is freed.                         *)
THEOREM OneAtATimeAlways == Spec => []OneAtATime
<1>1. ASSUME IInv, Undisturbed
      PROVE  /\ ~broken
             /\ \A s, t \in Threads :
                  s # t => ~((Launching(s) \/ Stopping(s) \/ at[s] = "use clock")
                               /\ (Launching(t) \/ Stopping(t)))
  <2>1. CalmInv BY <1>1 DEF IInv
  <2>2. \A w \in Waiters : Launching(w) => Pending(w) /\ at["receive"] = "session"
    BY <2>1 DEF CalmInv, ReceiveAlone, Launching, Pending
  <2>3. \A w \in Waiters : ~Stopping(w) /\ at[w] # "use clock"
    BY <1>1 DEF IInv, WaiterInv, Stopping, StopSteps, LaunchSteps
  <2>4. \A t \in {"send", "main"} : ~Launching(t) /\ ~Stopping(t) /\ at[t] # "use clock"
    BY <1>1, <2>1 DEF CalmInv, SenderCalm, Undisturbed, Launching, Stopping, StopSteps, LaunchSteps
  <2>5. at["receive"] = "session" => ~Launching("receive") /\ ~Stopping("receive")
    BY DEF Launching, Stopping, StopSteps, LaunchSteps
  <2>6. \A v, w \in Waiters : Launching(v) /\ Launching(w) => v = w
    BY <2>1, <2>2 DEF CalmInv, ReceiveAlone
  <2>. QED BY <2>1, <2>2, <2>3, <2>4, <2>5, <2>6 DEF CalmInv, ObjectsInv, Threads
<1>2. IInv => OneAtATime BY <1>1 DEF OneAtATime
<1>. QED BY <1>2, ManagerInvariant, PTL

(* A simulation that is said to run has its metrics, its nodes and a clock *)
(* that drives it.                                                         *)
THEOREM RunningIsCompleteAlways == Spec => []RunningIsComplete
<1>1. IInv => RunningIsComplete BY DEF IInv, CalmInv, ObjectsInv, RunningIsComplete
<1>. QED BY <1>1, ManagerInvariant, PTL

(* After a stop nothing is launched until the GUI sends a configuration.   *)
THEOREM NoRelaunchByItselfAlways == Spec => []NoRelaunchByItself
<1>1. IInv => NoRelaunchByItself
  BY DEF IInv, CalmInv, ConfigInv, NoRelaunchByItself, Launching
<1>. QED BY <1>1, ManagerInvariant, PTL
===============================================================================
