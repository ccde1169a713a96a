---------------------------- MODULE VisualiserProofs ----------------------------
(***************************************************************************)
(* The scene of the visualiser proved to be a graph, for any deployment    *)
(* and any number of sessions and commands: whatever the user interface,   *)
(* the monitor and the server thread do between two steps of each other,   *)
(* no arrow is left without its two devices.                               *)
(*                                                                         *)
(* It rests on the order of the two clears.  A handler that has cleared    *)
(* the devices still has the routes to clear (Legal), so an arrow looked   *)
(* up before and inserted after is cleared with the rest (InsertInv).      *)
(*                                                                         *)
(* Second, the controls are proved in step with the simulator as long as   *)
(* no command slips: what the window believes is what the simulator will   *)
(* have come to when the commands on their way have arrived (BeliefInv).   *)
(***************************************************************************)
EXTENDS Visualiser, SequenceTheorems, TLAPS

StepNames ==
  {"clear devices", "clear routes", "reset", "ready", "hidden", "seen", "started", "runs",
   "paused", "stopped", "restarted"} \cup CommandNames

(* b occurs in s; and every a in s has a b behind it.                      *)
Has(s, b) == \E i \in 1..Len(s) : s[i] = b
Followed(s, a, b) == \A i \in 1..Len(s) : s[i] = a => \E j \in (i + 1)..Len(s) : s[j] = b

ClearsRoutes(steps) == Has(steps, "clear routes")

Legal(steps) ==
  steps \in Seq(StepNames) /\ Followed(steps, "clear devices", "clear routes")

Clearing == \E t \in Handlers : ClearsRoutes(todo[t])

Packet ==
  {TelemetryType["position"], TelemetryType["routing"]}
    \X ({Order[i] : i \in 1..Len(Order)} \cup MeshNodes)

Ends == {Head(unsent)[2], Parent[Head(unsent)[2]]}

TodoInv == todo \in [Handlers -> Seq(StepNames)] /\ \A t \in Handlers : Legal(todo[t])
WireInv == unsent \in Seq(Packet)
InsertInv == net = "insert route" => unsent # <<>> /\ (Clearing \/ Ends \subseteq devices)
SceneInv == Clearing \/ \A r \in routes : {r[1], r[2]} \subseteq devices

IInv == TodoInv /\ WireInv /\ InsertInv /\ SceneInv
-------------------------------------------------------------------------------
(* A sequence without its head keeps what is behind.                       *)
LEMMA TailKeeps ==
  ASSUME NEW S, NEW s \in Seq(S), s # <<>>, NEW a, NEW b, Followed(s, a, b)
  PROVE  /\ Followed(Tail(s), a, b)
         /\ Has(s, b) /\ Head(s) # b => Has(Tail(s), b)
         /\ Head(s) = a => Has(Tail(s), b)
<1>1. Len(s) \in Nat /\ Len(s) > 0
  BY EmptySeq
<1>2. /\ Len(Tail(s)) = Len(s) - 1
      /\ \A i \in 1..Len(Tail(s)) : Tail(s)[i] = s[i + 1]
  BY HeadTailProperties
<1>3. Head(s) = s[1]
  OBVIOUS
<1>. DEFINE t == Tail(s)
<1>. HIDE DEF t
<1>4. Len(t) = Len(s) - 1 /\ \A i \in 1..Len(t) : t[i] = s[i + 1]
  BY <1>2 DEF t
<1>5. ASSUME NEW i \in 2..Len(s), s[i] = b PROVE i - 1 \in 1..Len(t) /\ t[i - 1] = b
  <2>1. i - 1 \in 1..Len(t) /\ (i - 1) + 1 = i
    BY <1>1, <1>4
  <2>. QED BY <1>4, <1>5, <2>1
<1>6. Followed(t, a, b)
  <2>. SUFFICES ASSUME NEW i \in 1..Len(t), t[i] = a
                PROVE  \E j \in (i + 1)..Len(t) : t[j] = b
    BY DEF Followed
  <2>1. i + 1 \in 1..Len(s) /\ s[i + 1] = a
    BY <1>1, <1>4
  <2>2. PICK j \in ((i + 1) + 1)..Len(s) : s[j] = b
    BY <2>1 DEF Followed
  <2>3. j \in 2..Len(s) /\ j - 1 \in (i + 1)..Len(t)
    BY <1>1, <1>4
  <2>. QED BY <1>5, <2>2, <2>3
<1>7. Has(s, b) /\ s[1] # b => Has(t, b)
  <2>. SUFFICES ASSUME NEW i \in 1..Len(s), s[i] = b, s[1] # b PROVE Has(t, b)
    BY DEF Has
  <2>1. i \in 2..Len(s)
    BY <1>1
  <2>. QED BY <1>5, <2>1 DEF Has
<1>8. s[1] = a => Has(t, b)
  <2>. SUFFICES ASSUME s[1] = a PROVE Has(t, b)
    OBVIOUS
  <2>1. 1 \in 1..Len(s)
    BY <1>1
  <2>2. PICK j \in (1 + 1)..Len(s) : s[j] = b
    BY <2>1 DEF Followed
  <2>3. j \in 2..Len(s)
    OBVIOUS
  <2>. QED BY <1>5, <2>2, <2>3 DEF Has
<1>. QED BY <1>3, <1>6, <1>7, <1>8 DEF t

(* So does one sequence behind another.                                    *)
LEMMA ConcatKeeps ==
  ASSUME NEW S, NEW s \in Seq(S), NEW t \in Seq(S), NEW a, NEW b,
         Followed(s, a, b), Followed(t, a, b)
  PROVE  Followed(s \o t, a, b)
<1>. DEFINE u == s \o t
<1>1. /\ Len(s) \in Nat /\ Len(t) \in Nat /\ Len(u) = Len(s) + Len(t)
      /\ \A i \in 1..Len(s) + Len(t) : u[i] = IF i <= Len(s) THEN s[i] ELSE t[i - Len(s)]
  BY ConcatProperties, LenProperties
<1>. HIDE DEF u
<1>2. SUFFICES ASSUME NEW i \in 1..Len(u), u[i] = a
               PROVE  \E j \in (i + 1)..Len(u) : u[j] = b
  BY DEF u, Followed
<1>3. CASE i <= Len(s)
  <2>1. i \in 1..Len(s) /\ s[i] = a
    BY <1>1, <1>2, <1>3
  <2>2. PICK j \in (i + 1)..Len(s) : s[j] = b
    BY <2>1 DEF Followed
  <2>3. j \in 1..Len(s) + Len(t) /\ j <= Len(s) /\ j \in (i + 1)..Len(u)
    BY <1>1, <1>2
  <2>. QED BY <1>1, <2>2, <2>3
<1>4. CASE i > Len(s)
  <2>. DEFINE k == i - Len(s)
  <2>1. k \in 1..Len(t) /\ t[k] = a
    BY <1>1, <1>2, <1>4
  <2>2. PICK j \in (k + 1)..Len(t) : t[j] = b
    BY <2>1 DEF Followed
  <2>. DEFINE l == Len(s) + j
  <2>3. l \in 1..Len(s) + Len(t) /\ ~(l <= Len(s)) /\ l - Len(s) = j /\ l \in (i + 1)..Len(u)
    BY <1>1, <1>2, <1>4
  <2>4. u[l] = b
    BY <1>1, <2>2, <2>3
  <2>. QED BY <2>3, <2>4
<1>. QED BY <1>1, <1>3, <1>4

(* One step, that needs none behind it.                                    *)
LEMMA OneStep ==
  ASSUME NEW S, NEW x \in S, NEW a, NEW b, x # a
  PROVE  <<x>> \in Seq(S) /\ Followed(<<x>>, a, b)
<1>. DEFINE one == <<x>>
<1>1. one \in Seq(S)
  OBVIOUS
<1>2. Len(one) = 1
  OBVIOUS
<1>3. one[1] = x
  OBVIOUS
<1>. HIDE DEF one
<1>4. Followed(one, a, b)
  BY <1>1, <1>2, <1>3 DEF Followed
<1>. QED BY <1>1, <1>4 DEF one

(* Two steps, neither of which needs another behind it.                    *)
LEMMA TwoSteps ==
  ASSUME NEW S, NEW x \in S, NEW y \in S, NEW a, NEW b, x # a, y # a
  PROVE  <<x, y>> \in Seq(S) /\ Followed(<<x, y>>, a, b)
<1>. DEFINE two == <<x, y>>
<1>1. two \in Seq(S)
  OBVIOUS
<1>2. Len(two) = 2
  OBVIOUS
<1>3. two[1] = x /\ two[2] = y
  OBVIOUS
<1>. HIDE DEF two
<1>4. Followed(two, a, b)
  BY <1>1, <1>2, <1>3 DEF Followed
<1>. QED BY <1>1, <1>4 DEF two

(* The lists of steps the handlers begin with.                             *)
LEMMA HandlersLegal ==
  /\ Legal(<<>>)
  /\ \A x \in StepNames : x # "clear devices" => Legal(<<x>>)
  /\ Legal(ClearScene)
  /\ \A x, y \in StepNames : x # "clear devices" /\ y # "clear devices" => Legal(<<x, y>>)
  /\ \A s, t : Legal(s) /\ Legal(t) => Legal(s \o t)
<1>1. Legal(<<>>)
  <2>1. <<>> \in Seq(StepNames) /\ Len(<<>>) = 0
    BY EmptySeq
  <2>. QED BY <2>1 DEF Legal, Followed
<1>2. ASSUME NEW x \in StepNames, x # "clear devices" PROVE Legal(<<x>>)
  BY <1>2, OneStep DEF Legal
<1>3. Legal(ClearScene)
  <2>. DEFINE d == "clear devices"
              r == "clear routes"
  <2>1. d \in StepNames /\ r \in StepNames
    BY DEF StepNames
  <2>2. ClearScene = <<d, r>> /\ d # r
    BY DEF ClearScene
  <2>. HIDE DEF d, r
  <2>3. <<d, r>> \in Seq(StepNames) /\ Len(<<d, r>>) = 2 /\ <<d, r>>[1] = d /\ <<d, r>>[2] = r
    BY <2>1
  <2>4. Followed(<<d, r>>, d, r)
    BY <2>2, <2>3 DEF Followed
  <2>. QED BY <2>2, <2>3, <2>4 DEF Legal, d, r
<1>4. ASSUME NEW s, NEW t, Legal(s), Legal(t) PROVE Legal(s \o t)
  <2>1. s \o t \in Seq(StepNames)
    BY <1>4, ConcatProperties DEF Legal
  <2>. QED BY <1>4, <2>1, ConcatKeeps DEF Legal
<1>5. ASSUME NEW x \in StepNames, NEW y \in StepNames,
             x # "clear devices", y # "clear devices"
      PROVE  Legal(<<x, y>>)
  BY <1>5, TwoSteps DEF Legal
<1>. QED BY <1>1, <1>2, <1>3, <1>4, <1>5

(* A step of a handler done: a clear of the devices leaves one of the      *)
(* routes to do, and only the clear of the routes itself may end them.     *)
LEMMA StepDone ==
  ASSUME TodoInv, NEW t \in Handlers, NEW step, Next1(t, step), Done(t)
  PROVE  /\ TodoInv'
         /\ step # "clear routes" => (Clearing => Clearing')
         /\ step = "clear devices" => Clearing'
<1>. DEFINE left == Tail(todo[t])
<1>1. todo[t] \in Seq(StepNames) /\ todo[t] # <<>> /\ Head(todo[t]) = step
      /\ Followed(todo[t], "clear devices", "clear routes")
  BY DEF TodoInv, Next1, Idle, Legal
<1>2. todo' = [todo EXCEPT ![t] = left] /\ todo \in [Handlers -> Seq(StepNames)]
  BY DEF Done, TodoInv
<1>3. /\ Followed(left, "clear devices", "clear routes")
      /\ Has(todo[t], "clear routes") /\ step # "clear routes" => Has(left, "clear routes")
      /\ step = "clear devices" => Has(left, "clear routes")
  BY <1>1, TailKeeps
<1>4. left \in Seq(StepNames)
  BY <1>1, HeadTailProperties
<1>. HIDE DEF left
<1>5. todo'[t] = left /\ \A u \in Handlers \ {t} : todo'[u] = todo[u]
  BY <1>2
<1>6. TodoInv'
  <2>1. todo' \in [Handlers -> Seq(StepNames)]
    BY <1>2, <1>4
  <2>2. \A u \in Handlers : Legal(todo'[u])
    BY <1>3, <1>4, <1>5 DEF TodoInv, Legal
  <2>. QED BY <2>1, <2>2 DEF TodoInv
<1>7. step # "clear routes" => (Clearing => Clearing')
  BY <1>3, <1>5 DEF Clearing, ClearsRoutes
<1>8. step = "clear devices" => Clearing'
  BY <1>3, <1>5 DEF Clearing, ClearsRoutes
<1>. QED BY <1>6, <1>7, <1>8

(* A handler begun by a thread that was idle.                              *)
LEMMA HandlerBegun ==
  ASSUME TodoInv, NEW t \in Handlers, NEW steps, Legal(steps), Idle(t),
         todo' = [todo EXCEPT ![t] = steps]
  PROVE  TodoInv' /\ (Clearing => Clearing')
<1>1. todo \in [Handlers -> Seq(StepNames)] /\ steps \in Seq(StepNames)
  BY DEF TodoInv, Legal
<1>2. todo'[t] = steps /\ \A u \in Handlers \ {t} : todo'[u] = todo[u]
  BY <1>1
<1>3. TodoInv'
  <2>1. todo' \in [Handlers -> Seq(StepNames)]
    BY <1>1
  <2>2. \A u \in Handlers : Legal(todo'[u])
    BY <1>2 DEF TodoInv
  <2>. QED BY <2>1, <2>2 DEF TodoInv
<1>4. ~ClearsRoutes(todo[t])
  <2>1. todo[t] = <<>> /\ Len(<<>>) = 0
    BY EmptySeq DEF Idle
  <2>2. ~Has(<<>>, "clear routes")
    BY <2>1 DEF Has
  <2>. QED BY <2>1, <2>2 DEF ClearsRoutes
<1>5. Clearing => Clearing'
  BY <1>2, <1>4 DEF Clearing
<1>. QED BY <1>3, <1>5
-------------------------------------------------------------------------------
(* Nothing is shown at first.                                              *)
LEMMA InitEstablishes == Init => IInv
<1>. SUFFICES ASSUME Init PROVE IInv
  OBVIOUS
<1>1. /\ todo = [t \in Handlers |-> <<>>] /\ unsent = <<>> /\ net = "loop"
      /\ routes = {}
  BY DEF Init
<1>2. TodoInv
  BY <1>1, HandlersLegal DEF TodoInv, Legal
<1>3. WireInv
  BY <1>1, EmptySeq DEF WireInv
<1>. QED BY <1>1, <1>2, <1>3 DEF IInv, InsertInv, SceneInv

(* What a step may leave alone: the scene, the insertion under way and the *)
(* packet it is about.                                                     *)
Aside ==
  /\ TodoInv' /\ (Clearing => Clearing')
  /\ WireInv'
  /\ UNCHANGED <<net, sceneVars>>
  /\ net = "insert route" => unsent' # <<>> /\ Head(unsent') = Head(unsent)

(* A step that leaves the scene and the insertion under way alone keeps    *)
(* the invariant.                                                          *)
LEMMA AsidePreserves == IInv /\ Aside => IInv'
<1>. SUFFICES ASSUME IInv, Aside PROVE IInv'
  OBVIOUS
<1>1. /\ TodoInv' /\ WireInv' /\ net' = net /\ devices' = devices /\ routes' = routes
      /\ Clearing => Clearing'
  BY DEF Aside, sceneVars
<1>2. net = "insert route" => Ends' = Ends
  BY DEF Aside, Ends
<1>3. InsertInv'
  BY <1>1, <1>2 DEF Aside, IInv, InsertInv
<1>4. SceneInv'
  BY <1>1 DEF IInv, SceneInv
<1>. QED BY <1>1, <1>3, <1>4 DEF IInv

(* A step that leaves scene, server thread and queue alone.                *)
LEMMA AsideByTodo ==
  ASSUME IInv, TodoInv', Clearing => Clearing', UNCHANGED <<net, sceneVars, unsent>>
  PROVE  IInv'
<1>1. Aside
  BY DEF Aside, IInv, InsertInv, WireInv
<1>. QED BY <1>1, AsidePreserves

(* A step that begins, goes on with and ends no handler.                   *)
LEMMA AsideWithTodo ==
  ASSUME IInv, todo' = todo, WireInv', UNCHANGED <<net, sceneVars>>,
         net = "insert route" => unsent' # <<>> /\ Head(unsent') = Head(unsent)
  PROVE  IInv'
<1>1. TodoInv' /\ (Clearing => Clearing')
  BY DEF IInv, TodoInv, Clearing
<1>2. Aside
  BY <1>1 DEF Aside
<1>. QED BY <1>2, AsidePreserves
-------------------------------------------------------------------------------
(* The steps of the handlers that do not clear the scene.                  *)
LEMMA WidgetSteps ==
  ASSUME IInv, NEW t \in Handlers, NEW step, step # "clear routes", Next1(t, step), Done(t),
         UNCHANGED <<net, sceneVars, unsent>>
  PROVE  IInv'
<1>1. TodoInv' /\ (Clearing => Clearing')
  BY StepDone DEF IInv
<1>. QED BY <1>1, AsideByTodo

(* The steps of the handlers that show and hide controls.                  *)
LEMMA HandlerStepsPreserve ==
  ASSUME IInv, NEW t \in Handlers,
         \/ ResetConfiguration(t) \/ ShowStarted(t) \/ ShowRunning(t) \/ ShowPaused(t)
         \/ ShowStopped(t) \/ ShowRestarted(t) \/ ShowReady(t) \/ HideAll(t)
  PROVE  IInv'
<1>1. /\ Done(t) /\ UNCHANGED <<net, sceneVars, unsent>>
      /\ \E step : step # "clear routes" /\ Next1(t, step)
  BY DEF ResetConfiguration, ShowStarted, ShowRunning, ShowPaused, ShowStopped, ShowRestarted,
         ShowReady, HideAll, Widgets, linkVars, sceneVars, wireVars
<1>. QED BY <1>1, WidgetSteps

(* The commands the buttons send.                                          *)
LEMMA CommandPreserves ==
  ASSUME IInv, NEW command \in CommandNames, Command(command)
  PROVE  IInv'
<1>1. "ui" \in Handlers /\ command # "clear routes"
  BY DEF Handlers, CommandNames
<1>2. Next1("ui", command) /\ Done("ui") /\ UNCHANGED <<net, sceneVars, unsent>>
  BY DEF Command, sceneVars
<1>. QED BY <1>1, <1>2, WidgetSteps

(* The monitor notes the connection it has reported.                       *)
LEMMA SeenPreserves == IInv /\ Seen => IInv'
<1>. SUFFICES ASSUME IInv, Seen PROVE IInv'
  OBVIOUS
<1>1. "monitor" \in Handlers /\ "seen" # "clear routes"
  BY DEF Handlers
<1>2. Next1("monitor", "seen") /\ Done("monitor") /\ UNCHANGED <<net, sceneVars, unsent>>
  BY DEF Seen, linkVars, sceneVars, wireVars
<1>. QED BY <1>1, <1>2, WidgetSteps

(* The two clears: between them the routes are still to be cleared, and an *)
(* insertion under way is waited for.                                      *)
LEMMA ClearDevicesPreserves ==
  ASSUME IInv, NEW t \in Handlers, ClearDevices(t)
  PROVE  IInv'
<1>1. /\ Next1(t, "clear devices") /\ Done(t)
      /\ UNCHANGED <<net, routes, unsent>>
  BY DEF ClearDevices, linkVars, wireVars
<1>2. TodoInv' /\ Clearing'
  BY <1>1, StepDone DEF IInv
<1>. QED BY <1>1, <1>2 DEF IInv, WireInv, InsertInv, SceneInv

(* Clearing the routes, under the lock that the insertion of a route       *)
(* holds.                                                                  *)
LEMMA ClearRoutesPreserves ==
  ASSUME IInv, NEW t \in Handlers, ClearRoutes(t)
  PROVE  IInv'
<1>1. /\ Next1(t, "clear routes") /\ Done(t)
      /\ net # "insert route" /\ routes' = {}
      /\ UNCHANGED <<net, unsent>>
  BY DEF ClearRoutes, linkVars, wireVars
<1>2. TodoInv'
  BY <1>1, StepDone DEF IInv
<1>. QED BY <1>1, <1>2 DEF IInv, WireInv, InsertInv, SceneInv

(* The handlers begun by buttons and by the monitor.                       *)
LEMMA BegunPreserves ==
  ASSUME IInv, NEW t \in Handlers, NEW steps, Legal(steps), Idle(t),
         todo' = [todo EXCEPT ![t] = steps], UNCHANGED <<net, sceneVars, unsent>>
  PROVE  IInv'
<1>1. TodoInv' /\ (Clearing => Clearing')
  BY HandlerBegun DEF IInv
<1>. QED BY <1>1, AsideByTodo

(* A button begins its handler, whatever the handler, if its steps are     *)
(* legal.                                                                  *)
LEMMA PressPreserves ==
  ASSUME IInv, NEW needed, NEW steps, Legal(steps), Press(needed, steps)
  PROVE  IInv'
<1>1. "ui" \in Handlers
  BY DEF Handlers
<1>2. /\ Idle("ui") /\ todo' = [todo EXCEPT !["ui"] = steps]
      /\ UNCHANGED <<net, sceneVars, unsent>>
  BY DEF Press, linkVars, sceneVars, wireVars
<1>. QED BY <1>1, <1>2, BegunPreserves

(* The five buttons, whose handlers are legal.                             *)
LEMMA ButtonsPreserve ==
  IInv /\ (PressStart \/ PressPause \/ PressResume \/ PressRestart \/ PressStop) => IInv'
<1>. SUFFICES ASSUME IInv PROVE PressStart \/ PressPause \/ PressResume \/ PressRestart
                                  \/ PressStop => IInv'
  OBVIOUS
<1>1. \A x \in {"launch", "started", "pause", "paused", "resume", "runs", "restart",
                "restarted", "stop", "reset", "stopped"} :
        x \in StepNames /\ x # "clear devices"
  BY DEF StepNames, CommandNames
<1>2. ASSUME PressStart PROVE IInv'
  <2>1. Legal(<<"launch", "started">>)
    BY <1>1, HandlersLegal
  <2>. QED BY <1>2, <2>1, PressPreserves DEF PressStart
<1>3. ASSUME PressPause PROVE IInv'
  <2>1. Legal(IF running THEN <<"pause", "paused">> ELSE <<"paused">>)
    BY <1>1, HandlersLegal
  <2>. QED BY <1>3, <2>1, PressPreserves DEF PressPause
<1>4. ASSUME PressResume PROVE IInv'
  <2>1. Legal(IF running THEN <<"runs">> ELSE <<"resume", "runs">>)
    BY <1>1, HandlersLegal
  <2>. QED BY <1>4, <2>1, PressPreserves DEF PressResume
<1>5. ASSUME PressRestart PROVE IInv'
  <2>1. Legal(<<"restart">>) /\ Legal(<<"restarted">>)
    BY <1>1, HandlersLegal
  <2>2. Legal(<<"restart">> \o ClearScene)
    BY <2>1, HandlersLegal
  <2>3. Legal(<<"restart">> \o ClearScene \o <<"restarted">>)
    BY <2>1, <2>2, HandlersLegal
  <2>. QED BY <1>5, <2>3, PressPreserves DEF PressRestart
<1>6. ASSUME PressStop PROVE IInv'
  <2>1. Legal(IF running THEN <<"stop">> ELSE <<>>) /\ Legal(<<"reset", "stopped">>)
    BY <1>1, HandlersLegal
  <2>2. Legal((IF running THEN <<"stop">> ELSE <<>>) \o ClearScene)
    BY <2>1, HandlersLegal
  <2>3. Legal((IF running THEN <<"stop">> ELSE <<>>) \o ClearScene \o <<"reset", "stopped">>)
    BY <2>1, <2>2, HandlersLegal
  <2>. QED BY <1>6, <2>3, PressPreserves DEF PressStop
<1>. QED BY <1>2, <1>3, <1>4, <1>5, <1>6

(* The poll of the monitor, which begins the callback for a connection     *)
(* found or lost.                                                          *)
LEMMA PollPreserves == IInv /\ Poll => IInv'
<1>. SUFFICES ASSUME IInv, Poll PROVE IInv'
  OBVIOUS
<1>. DEFINE steps == IF connected THEN <<"ready">> \o ClearScene \o <<"reset", "seen">>
                     ELSE <<"hidden", "seen">>
<1>1. \A x \in {"ready", "reset", "seen", "hidden"} : x \in StepNames /\ x # "clear devices"
  BY DEF StepNames
<1>2. Legal(<<"ready">>) /\ Legal(<<"reset", "seen">>) /\ Legal(<<"hidden", "seen">>)
  BY <1>1, HandlersLegal
<1>3. Legal(<<"ready">> \o ClearScene)
  BY <1>2, HandlersLegal
<1>4. Legal(<<"ready">> \o ClearScene \o <<"reset", "seen">>)
  BY <1>2, <1>3, HandlersLegal
<1>5. Legal(steps)
  BY <1>2, <1>4
<1>6. /\ "monitor" \in Handlers /\ Idle("monitor")
      /\ todo' = [todo EXCEPT !["monitor"] = steps]
      /\ UNCHANGED <<net, sceneVars, unsent>>
  BY DEF Poll, Handlers, linkVars, sceneVars, wireVars
<1>. HIDE DEF steps
<1>. QED BY <1>5, <1>6, BegunPreserves
-------------------------------------------------------------------------------
(* Steps that touch neither handlers, scene, server thread nor queue.      *)
LEMMA ElsewherePreserves ==
  ASSUME IInv,
         \/ OpenDialog \/ ChooseFile \/ Accept
         \/ TakeLaunch \/ TakePauseOrResume \/ TakeStop \/ IgnoreCommand
         \/ UNCHANGED vars
  PROVE  IInv'
<1>1. todo' = todo /\ UNCHANGED <<net, sceneVars, unsent>>
  BY DEF OpenDialog, ChooseFile, Accept, TakeLaunch, TakePauseOrResume, TakeStop, IgnoreCommand,
         Takes, vars, linkVars, sceneVars, wireVars
<1>2. TodoInv' /\ (Clearing => Clearing')
  BY <1>1 DEF IInv, TodoInv, Clearing
<1>. QED BY <1>1, <1>2, AsideByTodo

(* The queue of the simulator.                                             *)
LEMMA LaunchPreserves ==
  ASSUME IInv, NEW was, Launched(was), todo' = todo, UNCHANGED <<net, sceneVars>>
  PROVE  IInv'
<1>. DEFINE positions == [i \in 1..Len(Order) |-> <<TelemetryType["position"], Order[i]>>]
<1>1. unsent \in Seq(Packet) /\ unsent' = unsent \o positions
  BY DEF IInv, WireInv, Launched
<1>2. positions \in Seq(Packet)
  <2>1. \A i \in 1..Len(Order) : <<TelemetryType["position"], Order[i]>> \in Packet
    BY DEF Packet
  <2>2. Len(Order) \in Nat
    BY VisualiserAssumption
  <2>. QED BY <2>1, <2>2
<1>. HIDE DEF positions
<1>3. WireInv'
  BY <1>1, <1>2, ConcatProperties DEF WireInv
<1>4. unsent # <<>> => unsent' # <<>> /\ Head(unsent') = Head(unsent)
  <2>. SUFFICES ASSUME unsent # <<>> PROVE unsent' # <<>> /\ Head(unsent') = Head(unsent)
    OBVIOUS
  <2>1. Len(unsent) \in Nat \ {0} /\ Len(positions) \in Nat
    BY <1>1, <1>2, EmptySeq, LenProperties
  <2>2. unsent' \in Seq(Packet) /\ Len(unsent') = Len(unsent) + Len(positions)
        /\ \A i \in 1..Len(unsent) + Len(positions) :
             unsent'[i] = IF i <= Len(unsent) THEN unsent[i] ELSE positions[i - Len(unsent)]
    BY <1>1, <1>2, ConcatProperties
  <2>3. unsent'[1] = unsent[1]
    BY <2>1, <2>2
  <2>4. Len(unsent') # 0
    BY <2>1, <2>2
  <2>5. unsent' # <<>>
    BY <2>4, EmptySeq
  <2>. QED BY <2>3, <2>5
<1>5. net = "insert route" => unsent' # <<>> /\ Head(unsent') = Head(unsent)
  BY <1>4 DEF IInv, InsertInv
<1>. QED BY <1>3, <1>5, AsideWithTodo

(* The other end of the connection: the simulator connects, sends and      *)
(* leaves.                                                                 *)
LEMMA SimulatorPreserves ==
  ASSUME IInv, SimulatorStep
  PROVE  IInv'
<1>1. CASE SimulatorLeaves
  <2>1. todo' = todo /\ UNCHANGED <<net, sceneVars>>
    BY <1>1 DEF SimulatorLeaves, linkVars
  <2>2. \/ unsent' = unsent
        \/ unsent # <<>> /\ net # "insert route" /\ unsent' = Tail(unsent)
    BY <1>1 DEF SimulatorLeaves
  <2>3. WireInv'
    BY <2>2, HeadTailProperties DEF IInv, WireInv
  <2>4. net = "insert route" => unsent' # <<>> /\ Head(unsent') = Head(unsent)
    BY <2>2 DEF IInv, InsertInv
  <2>. QED BY <2>1, <2>3, <2>4, AsideWithTodo
<1>2. CASE SimulatorLaunches
  <2>1. Launched("launching") /\ todo' = todo /\ UNCHANGED <<net, sceneVars>>
    BY <1>2 DEF SimulatorLaunches, linkVars
  <2>. QED BY <2>1, LaunchPreserves
<1>3. CASE TakeRestart
  <2>1. Launched(sim) /\ todo' = todo /\ UNCHANGED <<net, sceneVars>>
    BY <1>3 DEF TakeRestart, Takes, linkVars
  <2>. QED BY <2>1, LaunchPreserves
<1>4. ASSUME NEW n \in MeshNodes, SimulatorShowsRoute(n) PROVE IInv'
  <2>1. todo' = todo /\ UNCHANGED <<net, sceneVars>> /\ unsent = <<>>
        /\ unsent' = <<<<TelemetryType["routing"], n>>>>
    BY <1>4 DEF SimulatorShowsRoute, linkVars
  <2>2. <<TelemetryType["routing"], n>> \in Packet
    BY DEF Packet
  <2>3. WireInv'
    BY <2>1, <2>2 DEF WireInv
  <2>4. net # "insert route"
    BY <2>1 DEF IInv, InsertInv
  <2>. QED BY <2>1, <2>3, <2>4, AsideWithTodo
<1>. QED BY <1>1, <1>2, <1>3, <1>4, ElsewherePreserves DEF SimulatorStep

(* The server thread, and the button that ends it.                         *)
LEMMA NetPreserves ==
  ASSUME IInv, NetStep \/ HeartbeatTimeout \/ Leave
  PROVE  IInv'
<1>1. CASE ReceivePosition \/ RefuseRoute
  <2>1. /\ todo' = todo /\ net' = net /\ routes' = routes /\ devices \subseteq devices'
        /\ net = "loop" /\ unsent # <<>> /\ unsent' = Tail(unsent)
    BY <1>1 DEF ReceivePosition, RefuseRoute, Receives, Waits, linkVars, sceneVars
  <2>2. TodoInv' /\ (Clearing => Clearing')
    BY <2>1 DEF IInv, TodoInv, Clearing
  <2>3. WireInv'
    BY <2>1, HeadTailProperties DEF IInv, WireInv
  <2>4. SceneInv'
    BY <2>1, <2>2 DEF IInv, SceneInv
  <2>. QED BY <2>1, <2>2, <2>3, <2>4 DEF IInv, InsertInv
<1>2. CASE LookUpRoute
  <2>1. /\ todo' = todo /\ UNCHANGED <<devices, routes, unsent>>
        /\ unsent # <<>> /\ Ends \subseteq devices
    BY <1>2 DEF LookUpRoute, Receives, Ends, sceneVars, wireVars
  <2>2. TodoInv' /\ (Clearing => Clearing') /\ WireInv' /\ Ends' = Ends
    BY <2>1 DEF IInv, TodoInv, Clearing, WireInv, Ends
  <2>3. InsertInv' /\ SceneInv'
    BY <2>1, <2>2 DEF IInv, InsertInv, SceneInv
  <2>. QED BY <2>2, <2>3 DEF IInv
<1>3. CASE InsertRoute
  <2>1. /\ todo' = todo /\ devices' = devices /\ net = "insert route" /\ net' = "loop"
        /\ routes' = routes \cup {<<Head(unsent)[2], Parent[Head(unsent)[2]]>>}
        /\ unsent' = Tail(unsent)
    BY <1>3 DEF InsertRoute
  <2>2. unsent # <<>> /\ (Clearing \/ Ends \subseteq devices)
    BY <2>1 DEF IInv, InsertInv
  <2>3. TodoInv' /\ (Clearing => Clearing')
    BY <2>1 DEF IInv, TodoInv, Clearing
  <2>4. WireInv'
    BY <2>1, <2>2, HeadTailProperties DEF IInv, WireInv
  <2>5. SceneInv'
    <3>. SUFFICES ASSUME ~Clearing, NEW r \in routes' PROVE {r[1], r[2]} \subseteq devices
      BY <2>1, <2>3 DEF SceneInv
    <3>1. CASE r \in routes
      BY <3>1 DEF IInv, SceneInv
    <3>2. CASE r = <<Head(unsent)[2], Parent[Head(unsent)[2]]>>
      <4>1. r[1] = Head(unsent)[2] /\ r[2] = Parent[Head(unsent)[2]]
        BY <3>2
      <4>. QED BY <2>2, <4>1 DEF Ends
    <3>. QED BY <2>1, <3>1, <3>2
  <2>. QED BY <2>1, <2>3, <2>4, <2>5 DEF IInv, InsertInv
<1>4. CASE ReceiveDisconnected \/ DropFlag \/ HeartbeatTimeout \/ Leave
  <2>1. /\ todo' = todo /\ UNCHANGED <<devices, routes, unsent>>
        /\ net' # "insert route"
    BY <1>4 DEF ReceiveDisconnected, DropFlag, HeartbeatTimeout, Leave, sceneVars, wireVars
  <2>2. TodoInv' /\ (Clearing => Clearing') /\ WireInv'
    BY <2>1 DEF IInv, TodoInv, Clearing, WireInv
  <2>. QED BY <2>1, <2>2 DEF IInv, InsertInv, SceneInv
<1>. QED BY <1>1, <1>2, <1>3, <1>4, ElsewherePreserves DEF NetStep

-------------------------------------------------------------------------------
(* IInv is inductive.                                                      *)
LEMMA StepPreserves == IInv /\ [Next]_vars => IInv'
<1>. SUFFICES ASSUME IInv, [Next]_vars PROVE IInv'
  OBVIOUS
<1>1. "ui" \in Handlers /\ "monitor" \in Handlers
  BY DEF Handlers
<1>2. CASE UiStep
  BY <1>1, <1>2, ClearDevicesPreserves, ClearRoutesPreserves, HandlerStepsPreserve,
     CommandPreserves DEF UiStep
<1>3. CASE Button
  BY <1>3, ButtonsPreserve, ElsewherePreserves, NetPreserves DEF Button
<1>4. CASE MonitorStep
  BY <1>1, <1>4, PollPreserves, SeenPreserves, ClearDevicesPreserves, ClearRoutesPreserves,
     HandlerStepsPreserve DEF MonitorStep
<1>5. CASE NetStep \/ HeartbeatTimeout
  BY <1>5, NetPreserves
<1>6. CASE SimulatorStep
  BY <1>6, SimulatorPreserves
<1>. QED BY <1>2, <1>3, <1>4, <1>5, <1>6, ElsewherePreserves DEF Next

(* Whatever the three threads do between two steps of each other, every    *)
(* arrow joins two devices of the scene (addRouting, RoutingManager.cpp).  *)
THEOREM RoutesJoinDevicesAlways == Spec => []RoutesJoinDevices
<1>1. IInv => RoutesJoinDevices
  BY DEF IInv, SceneInv, RoutesJoinDevices, Clearing, ClearsRoutes, Has
<1>. QED BY <1>1, InitEstablishes, StepPreserves, PTL DEF Spec
-------------------------------------------------------------------------------
(* The belief of the controller.                                           *)
(*                                                                         *)
(* Of the steps the user interface has left only the first can be a        *)
(* command, and the last one shows or hides the pause button as running    *)
(* will then be (Leads).  While nothing has slipped, the controller        *)
(* believes what the last command on its way will make of the simulator    *)
(* (BeliefInv), and the monitor has no loss to tell of (MonitorInv).       *)

Bringing == {"started", "runs", "restarted"}
Ending == Bringing \cup {"paused", "stopped"}
UiSteps == {"clear devices", "clear routes", "reset"} \cup Ending
MonitorSteps == {"ready", "clear devices", "clear routes", "reset", "seen"}

LastOf(s) == s[Len(s)]

\* running, once a step is done
Will(step, now) == IF step \in CommandNames THEN RunningAfter(step) ELSE now

Leads(s, now) ==
  /\ s # <<>> /\ Tail(s) \in Seq(UiSteps)
  /\ LastOf(s) \in Ending
  /\ Will(Head(s), now) <=> LastOf(s) \in Bringing

Live == ~slipped /\ net # "gone"

UiInv == ~Idle("ui") => Leads(todo["ui"], running)
ShownInv == Live /\ Idle("ui") => ("pause" \in shown <=> running)
LinkInv ==
  Live => (client <=> attached) /\ (connected <=> attached) /\ net # "drop flag"
MonitorInv ==
  Live => /\ todo["monitor"] \in Seq(MonitorSteps)
          /\ ~connected => Idle("monitor") /\ ~lastStatus
AttachInv == ~attached => sim = "idle" /\ commands = <<>>

Believed ==
  IF commands = <<>> THEN sim \in {"launching", "running"}
  ELSE RunningAfter(CommandHandler[LastOf(commands)])

BeliefInv == Live => (running <=> Believed)

CommandNumbers == {CommandType[command] : command \in CommandNames}
SimStates == {"idle", "launching", "running", "paused"}
BeliefTypes ==
  /\ {client, connected, lastStatus, running, attached, slipped} \subseteq BOOLEAN
  /\ sim \in SimStates /\ commands \in Seq(CommandNumbers)

StepInv ==
  BeliefTypes /\ UiInv /\ ShownInv /\ LinkInv /\ MonitorInv /\ AttachInv /\ BeliefInv
-------------------------------------------------------------------------------
(* The last element of a sequence without its head.                        *)
LEMMA LastOfTail ==
  ASSUME NEW S, NEW s \in Seq(S), s # <<>>
  PROVE  IF Tail(s) = <<>> THEN LastOf(s) = Head(s) ELSE LastOf(Tail(s)) = LastOf(s)
<1>1. Len(s) \in Nat \ {0} /\ Head(s) = s[1]
  BY EmptySeq
<1>2. /\ Tail(s) \in Seq(S) /\ Len(Tail(s)) = Len(s) - 1
      /\ \A i \in 1..Len(Tail(s)) : Tail(s)[i] = s[i + 1]
  BY HeadTailProperties
<1>. DEFINE t == Tail(s)
<1>3. t \in Seq(S) /\ Len(t) = Len(s) - 1 /\ \A i \in 1..Len(t) : t[i] = s[i + 1]
  BY <1>2
<1>. HIDE DEF t
<1>4. CASE t = <<>>
  <2>1. Len(t) = 0
    BY <1>4, EmptySeq
  <2>2. Len(s) = 1
    BY <1>1, <1>3, <2>1
  <2>. QED BY <1>1, <1>4, <2>2 DEF LastOf, t
<1>5. CASE t # <<>>
  <2>1. Len(t) \in Nat \ {0}
    BY <1>3, <1>5, EmptySeq
  <2>2. Len(t) \in 1..Len(t) /\ Len(t) + 1 = Len(s)
    BY <1>1, <1>3, <2>1
  <2>3. t[Len(t)] = s[Len(s)]
    BY <1>3, <2>2
  <2>. QED BY <1>5, <2>3 DEF LastOf, t
<1>. QED BY <1>4, <1>5

(* The last element of two sequences one behind the other.                 *)
LEMMA LastOfConcat ==
  ASSUME NEW S, NEW s \in Seq(S), NEW t \in Seq(S), t # <<>>
  PROVE  s \o t # <<>> /\ LastOf(s \o t) = LastOf(t)
<1>1. Len(t) \in Nat \ {0} /\ Len(s) \in Nat
  BY EmptySeq, LenProperties
<1>. DEFINE u == s \o t
<1>2. /\ u \in Seq(S) /\ Len(u) = Len(s) + Len(t)
      /\ \A i \in 1..Len(s) + Len(t) : u[i] = IF i <= Len(s) THEN s[i] ELSE t[i - Len(s)]
  BY ConcatProperties
<1>. HIDE DEF u
<1>3. Len(u) \in 1..Len(s) + Len(t) /\ ~(Len(u) <= Len(s)) /\ Len(u) - Len(s) = Len(t)
  BY <1>1, <1>2
<1>4. u[Len(u)] = t[Len(t)]
  BY <1>2, <1>3
<1>5. u # <<>>
  BY <1>1, <1>2, EmptySeq
<1>. QED BY <1>4, <1>5 DEF u, LastOf

(* One step before others.                                                 *)
LEMMA HeadOfConcat ==
  ASSUME NEW S, NEW x \in S, NEW t \in Seq(S)
  PROVE  Head(<<x>> \o t) = x /\ Tail(<<x>> \o t) = t
<1>. DEFINE one == <<x>>
            u == one \o t
<1>1. one \in Seq(S) /\ Len(one) = 1 /\ one[1] = x
  OBVIOUS
<1>2. Len(t) \in Nat
  BY LenProperties
<1>. HIDE DEF one
<1>3. /\ u \in Seq(S) /\ Len(u) = 1 + Len(t)
      /\ \A i \in 1..1 + Len(t) : u[i] = IF i <= 1 THEN one[i] ELSE t[i - 1]
  <2>1. /\ u \in Seq(S) /\ Len(u) = Len(one) + Len(t)
        /\ \A i \in 1..Len(one) + Len(t) :
             u[i] = IF i <= Len(one) THEN one[i] ELSE t[i - Len(one)]
    BY <1>1, ConcatProperties
  <2>. QED BY <1>1, <2>1
<1>. HIDE DEF u
<1>4. u # <<>>
  BY <1>2, <1>3, EmptySeq
<1>5. Head(u) = x
  BY <1>1, <1>2, <1>3, <1>4
<1>6. /\ Tail(u) \in Seq(S) /\ Len(Tail(u)) = Len(t)
      /\ \A i \in 1..Len(Tail(u)) : Tail(u)[i] = u[i + 1]
  BY <1>2, <1>3, <1>4, HeadTailProperties
<1>7. \A i \in 1..Len(t) : Tail(u)[i] = t[i]
  <2>. SUFFICES ASSUME NEW i \in 1..Len(t) PROVE Tail(u)[i] = t[i]
    OBVIOUS
  <2>1. i + 1 \in 1..1 + Len(t) /\ ~(i + 1 <= 1) /\ (i + 1) - 1 = i
    BY <1>2
  <2>2. u[i + 1] = t[i]
    BY <1>3, <2>1
  <2>. QED BY <1>6, <2>2
<1>8. Tail(u) = t
  BY <1>6, <1>7, SeqEqual
<1>. QED BY <1>5, <1>8 DEF u, one

(* No step of the user interface's but the first is a command.             *)
LEMMA StepKinds ==
  /\ UiSteps \subseteq StepNames /\ MonitorSteps \subseteq StepNames
  /\ Ending \subseteq UiSteps
  /\ \A x \in UiSteps : x \notin CommandNames
BY DEF UiSteps, MonitorSteps, StepNames, CommandNames, Ending, Bringing

(* What a handler leads to is kept by each of its steps.                   *)
LEMMA LeadsOn ==
  ASSUME NEW s \in Seq(StepNames), NEW now \in BOOLEAN, NEW later \in BOOLEAN,
         Leads(s, now), later <=> Will(Head(s), now), Tail(s) # <<>>
  PROVE  Leads(Tail(s), later)
<1>. DEFINE t == Tail(s)
<1>1. t \in Seq(UiSteps) /\ t # <<>>
  BY DEF Leads
<1>2. LastOf(t) = LastOf(s)
  BY LastOfTail DEF Leads
<1>3. LastOf(s) \in Ending /\ (Will(Head(s), now) <=> LastOf(s) \in Bringing)
  BY DEF Leads
<1>. HIDE DEF t
<1>4. Tail(t) \in Seq(UiSteps) /\ Head(t) \in UiSteps
  BY <1>1, HeadTailProperties
<1>5. Will(Head(t), later) = later
  BY <1>4, StepKinds DEF Will
<1>6. Leads(t, later)
  BY <1>1, <1>2, <1>3, <1>4, <1>5 DEF Leads
<1>. QED BY <1>6 DEF t

(* The last step of a handler shows the pause button as running is.        *)
LEMMA LeadsEnd ==
  ASSUME NEW s \in Seq(StepNames), NEW now \in BOOLEAN, Leads(s, now), Tail(s) = <<>>
  PROVE  Head(s) \in Ending /\ (Will(Head(s), now) <=> Head(s) \in Bringing)
<1>1. LastOf(s) = Head(s)
  BY LastOfTail DEF Leads
<1>. QED BY <1>1 DEF Leads

(* A handler that begins with no command.                                  *)
LEMMA LeadsWithout ==
  ASSUME NEW t \in Seq(UiSteps), t # <<>>, LastOf(t) \in Ending, NEW now \in BOOLEAN,
         now <=> LastOf(t) \in Bringing
  PROVE  Leads(t, now)
<1>1. Tail(t) \in Seq(UiSteps) /\ Head(t) \in UiSteps
  BY HeadTailProperties
<1>2. Will(Head(t), now) = now
  BY <1>1, StepKinds DEF Will
<1>. QED BY <1>1, <1>2 DEF Leads

(* A handler that begins with one.                                         *)
LEMMA LeadsWith ==
  ASSUME NEW t \in Seq(UiSteps), t # <<>>, LastOf(t) \in Ending, NEW now \in BOOLEAN,
         NEW command \in CommandNames, RunningAfter(command) <=> LastOf(t) \in Bringing
  PROVE  Leads(<<command>> \o t, now)
<1>1. command \in StepNames /\ t \in Seq(StepNames)
  BY StepKinds, SeqMonotonic DEF StepNames
<1>2. <<command>> \in Seq(StepNames)
  BY <1>1
<1>3. Head(<<command>> \o t) = command /\ Tail(<<command>> \o t) = t
  BY <1>1, HeadOfConcat
<1>4. <<command>> \o t # <<>> /\ LastOf(<<command>> \o t) = LastOf(t)
  BY <1>1, <1>2, LastOfConcat
<1>5. Will(command, now) = RunningAfter(command)
  BY DEF Will
<1>. QED BY <1>3, <1>4, <1>5 DEF Leads

(* A step behind others is the last.                                       *)
LEMMA LastSteps ==
  /\ \A x \in UiSteps : <<x>> \in Seq(UiSteps) /\ <<x>> # <<>> /\ LastOf(<<x>>) = x
  /\ \A x, y \in StepNames : <<x, y>> = <<x>> \o <<y>>
  /\ ClearScene \in Seq(UiSteps)
<1>1. ASSUME NEW x \in UiSteps PROVE <<x>> \in Seq(UiSteps) /\ <<x>> # <<>> /\ LastOf(<<x>>) = x
  <2>. DEFINE one == <<x>>
  <2>1. one \in Seq(UiSteps) /\ Len(one) = 1 /\ one[1] = x
    OBVIOUS
  <2>. HIDE DEF one
  <2>2. one # <<>>
    BY <2>1, EmptySeq
  <2>3. LastOf(one) = x
    BY <2>1 DEF LastOf
  <2>. QED BY <2>1, <2>2, <2>3 DEF one
<1>2. ASSUME NEW x \in StepNames, NEW y \in StepNames PROVE <<x, y>> = <<x>> \o <<y>>
  <2>. DEFINE s == <<x>>
              t == <<y>>
              u == <<x, y>>
  <2>1. s \in Seq(StepNames) /\ Len(s) = 1 /\ s[1] = x
    OBVIOUS
  <2>2. t \in Seq(StepNames) /\ Len(t) = 1 /\ t[1] = y
    OBVIOUS
  <2>3. u \in Seq(StepNames) /\ Len(u) = 2 /\ u[1] = x /\ u[2] = y
    OBVIOUS
  <2>. HIDE DEF s, t, u
  <2>4. /\ s \o t \in Seq(StepNames) /\ Len(s \o t) = Len(s) + Len(t)
        /\ \A i \in 1..Len(s) + Len(t) :
             (s \o t)[i] = IF i <= Len(s) THEN s[i] ELSE t[i - Len(s)]
    BY <2>1, <2>2, ConcatProperties
  <2>5. Len(s \o t) = 2 /\ (s \o t)[1] = x /\ (s \o t)[2] = y
    BY <2>1, <2>2, <2>4
  <2>6. \A i \in 1..Len(u) : u[i] = (s \o t)[i]
    BY <2>3, <2>5
  <2>7. u = s \o t
    BY <2>3, <2>4, <2>5, <2>6, SeqEqual
  <2>. QED BY <2>7 DEF s, t, u
<1>3. ClearScene \in Seq(UiSteps)
  <2>. DEFINE d == "clear devices"
              r == "clear routes"
  <2>1. d \in UiSteps /\ r \in UiSteps /\ ClearScene = <<d, r>>
    BY DEF UiSteps, ClearScene
  <2>. HIDE DEF d, r
  <2>2. <<d, r>> \in Seq(UiSteps)
    BY <2>1
  <2>. QED BY <2>1, <2>2
<1>. QED BY <1>1, <1>2, <1>3

(* What the five buttons begin leads to what they show.                    *)
LEMMA HandlersLead ==
  ASSUME NEW now \in BOOLEAN
  PROVE  /\ Leads(<<"launch", "started">>, now)
         /\ Leads(IF now THEN <<"pause", "paused">> ELSE <<"paused">>, now)
         /\ Leads(IF now THEN <<"runs">> ELSE <<"resume", "runs">>, now)
         /\ Leads(<<"restart">> \o ClearScene \o <<"restarted">>, now)
         /\ Leads((IF now THEN <<"stop">> ELSE <<>>) \o ClearScene \o <<"reset", "stopped">>, now)
<1>1. /\ \A x \in {"started", "paused", "runs", "restarted", "stopped"} : x \in Ending
      /\ \A x \in {"started", "runs", "restarted"} : x \in Bringing
      /\ \A x \in {"paused", "stopped"} : x \notin Bringing
  BY DEF Ending, Bringing
<1>2. /\ \A x \in {"launch", "pause", "resume", "restart", "stop"} :
           x \in CommandNames /\ x \in StepNames
      /\ RunningAfter("launch") /\ RunningAfter("resume") /\ RunningAfter("restart")
      /\ ~RunningAfter("pause") /\ ~RunningAfter("stop")
  BY DEF CommandNames, StepNames, RunningAfter
<1>3. \A x \in Ending : /\ x \in StepNames /\ <<x>> \in Seq(UiSteps) /\ <<x>> # <<>>
                        /\ LastOf(<<x>>) = x
  BY LastSteps, StepKinds
<1>4. ASSUME NEW c \in CommandNames, NEW x \in Ending, RunningAfter(c) <=> x \in Bringing
      PROVE  Leads(<<c, x>>, now)
  <2>1. Leads(<<c>> \o <<x>>, now)
    BY <1>3, <1>4, LeadsWith
  <2>2. c \in StepNames /\ x \in StepNames
    BY <1>3 DEF StepNames
  <2>3. <<c, x>> = <<c>> \o <<x>>
    BY <2>2, LastSteps
  <2>. QED BY <2>1, <2>3
<1>5. ASSUME NEW x \in Ending, now <=> x \in Bringing PROVE Leads(<<x>>, now)
  BY <1>3, <1>5, LeadsWithout
<1>6. Leads(<<"launch", "started">>, now)
  BY <1>1, <1>2, <1>4
<1>7. Leads(IF now THEN <<"pause", "paused">> ELSE <<"paused">>, now)
  <2>1. CASE now
    BY <2>1, <1>1, <1>2, <1>4
  <2>2. CASE ~now
    BY <2>2, <1>1, <1>5
  <2>. QED BY <2>1, <2>2
<1>8. Leads(IF now THEN <<"runs">> ELSE <<"resume", "runs">>, now)
  <2>1. CASE now
    BY <2>1, <1>1, <1>5
  <2>2. CASE ~now
    BY <2>2, <1>1, <1>2, <1>4
  <2>. QED BY <2>1, <2>2
<1>9. Leads(<<"restart">> \o ClearScene \o <<"restarted">>, now)
  <2>1. <<"restarted">> \in Seq(UiSteps) /\ <<"restarted">> # <<>>
        /\ LastOf(<<"restarted">>) = "restarted"
    BY <1>1, <1>3
  <2>2. ClearScene \in Seq(UiSteps)
    BY LastSteps
  <2>3. ClearScene \o <<"restarted">> \in Seq(UiSteps)
    BY <2>1, <2>2, ConcatProperties
  <2>4. ClearScene \o <<"restarted">> # <<>> /\ LastOf(ClearScene \o <<"restarted">>) = "restarted"
    BY <2>1, <2>2, LastOfConcat
  <2>5. Leads(<<"restart">> \o (ClearScene \o <<"restarted">>), now)
    BY <1>1, <1>2, <2>3, <2>4, LeadsWith
  <2>6. <<"restart">> \in Seq(StepNames) /\ ClearScene \in Seq(StepNames)
        /\ <<"restarted">> \in Seq(StepNames)
    BY <1>2, <2>1, <2>2, StepKinds, SeqMonotonic
  <2>7. (<<"restart">> \o ClearScene) \o <<"restarted">>
          = <<"restart">> \o (ClearScene \o <<"restarted">>)
    BY <2>6, ConcatAssociative
  <2>. QED BY <2>5, <2>7
<1>10. Leads((IF now THEN <<"stop">> ELSE <<>>) \o ClearScene \o <<"reset", "stopped">>, now)
  <2>. DEFINE end == <<"reset", "stopped">>
              rest == ClearScene \o end
  <2>1. "reset" \in UiSteps /\ "stopped" \in UiSteps /\ "reset" \in StepNames
        /\ "stopped" \in StepNames
    BY DEF UiSteps, Ending, StepNames
  <2>2. end = <<"reset">> \o <<"stopped">>
    BY <2>1, LastSteps
  <2>3. <<"reset">> \in Seq(UiSteps) /\ <<"stopped">> \in Seq(UiSteps) /\ <<"stopped">> # <<>>
        /\ LastOf(<<"stopped">>) = "stopped"
    BY <2>1, LastSteps
  <2>4. <<"reset">> \o <<"stopped">> \in Seq(UiSteps)
    BY <2>3, ConcatProperties
  <2>5. <<"reset">> \o <<"stopped">> # <<>> /\ LastOf(<<"reset">> \o <<"stopped">>) = "stopped"
    BY <2>3, LastOfConcat
  <2>6. end \in Seq(UiSteps) /\ end # <<>> /\ LastOf(end) = "stopped"
    BY <2>2, <2>4, <2>5
  <2>. HIDE DEF end
  <2>7. ClearScene \in Seq(UiSteps)
    BY LastSteps
  <2>8. rest \in Seq(UiSteps)
    BY <2>6, <2>7, ConcatProperties
  <2>9. rest # <<>> /\ LastOf(rest) = "stopped"
    BY <2>6, <2>7, LastOfConcat
  <2>. HIDE DEF rest
  <2>10. end \in Seq(StepNames) /\ ClearScene \in Seq(StepNames) /\ rest \in Seq(StepNames)
    BY <2>6, <2>7, <2>8, StepKinds, SeqMonotonic
  <2>11. CASE now
    <3>1. Leads(<<"stop">> \o rest, now)
      BY <1>1, <1>2, <2>8, <2>9, LeadsWith
    <3>2. <<"stop">> \in Seq(StepNames)
      BY <1>2
    <3>3. (<<"stop">> \o ClearScene) \o end = <<"stop">> \o (ClearScene \o end)
      BY <2>10, <3>2, ConcatAssociative
    <3>4. Leads((<<"stop">> \o ClearScene) \o end, now)
      BY <3>1, <3>3 DEF rest
    <3>. QED BY <3>4, <2>11 DEF end
  <2>12. CASE ~now
    <3>1. Leads(rest, now)
      BY <1>1, <2>8, <2>9, <2>12, LeadsWithout
    <3>2. <<>> \o ClearScene = ClearScene
      BY <2>10, ConcatEmptySeq
    <3>3. Leads((<<>> \o ClearScene) \o end, now)
      BY <3>1, <3>2 DEF rest
    <3>. QED BY <3>3, <2>12 DEF end
  <2>. QED BY <2>11, <2>12
<1>. QED BY <1>6, <1>7, <1>8, <1>9, <1>10
-------------------------------------------------------------------------------
(* What the two invariants say of the user interface, apart.               *)
Settled == Idle("ui") => ("pause" \in shown <=> running)

(* A step of the user interface: only a command changes what is believed,  *)
(* only an ending the pause button.                                        *)
LEMMA UiStepFacts ==
  ASSUME running \in BOOLEAN, UiStep
  PROVE  /\ running' \in BOOLEAN
         /\ \E step \in StepNames :
              /\ Next1("ui", step) /\ Done("ui")
              /\ running' <=> Will(step, running)
              /\ step \in Ending => ("pause" \in shown' <=> step \in Bringing)
<1>1. ASSUME NEW command \in CommandNames, Command(command)
      PROVE  /\ running' \in BOOLEAN
             /\ \E step \in StepNames :
                  /\ Next1("ui", step) /\ Done("ui")
                  /\ running' <=> Will(step, running)
                  /\ step \in Ending => ("pause" \in shown' <=> step \in Bringing)
  <2>1. Next1("ui", command) /\ Done("ui") /\ running' = RunningAfter(command)
    BY <1>1 DEF Command
  <2>2. running' = Will(command, running)
    BY <2>1 DEF Will
  <2>3. running' \in BOOLEAN
    BY <2>1 DEF RunningAfter
  <2>4. command \in StepNames /\ command \notin Ending
    BY StepKinds DEF StepNames
  <2>. QED BY <2>1, <2>2, <2>3, <2>4
<1>2. ASSUME NEW step \in UiSteps, Next1("ui", step), Done("ui"), running' = running,
             step \in Ending => ("pause" \in shown' <=> step \in Bringing)
      PROVE  /\ running' \in BOOLEAN
             /\ \E s \in StepNames :
                  /\ Next1("ui", s) /\ Done("ui")
                  /\ running' <=> Will(s, running)
                  /\ s \in Ending => ("pause" \in shown' <=> s \in Bringing)
  <2>1. running' = Will(step, running)
    BY <1>2, StepKinds DEF Will
  <2>2. step \in StepNames
    BY StepKinds
  <2>. QED BY <1>2, <2>1, <2>2
<1>3. CASE ClearDevices("ui") \/ ClearRoutes("ui") \/ ResetConfiguration("ui")
  <2>1. Done("ui") /\ running' = running
    BY <1>3 DEF ClearDevices, ClearRoutes, ResetConfiguration
  <2>2. PICK step \in {"clear devices", "clear routes", "reset"} : Next1("ui", step)
    BY <1>3 DEF ClearDevices, ClearRoutes, ResetConfiguration
  <2>3. step \in UiSteps /\ step \notin Ending
    BY DEF UiSteps, Ending, Bringing
  <2>. QED BY <1>2, <2>1, <2>2, <2>3
<1>4. CASE ShowStarted("ui")
  BY <1>2, <1>4 DEF ShowStarted, Widgets, UiSteps, Ending, Bringing
<1>5. CASE ShowRunning("ui")
  BY <1>2, <1>5 DEF ShowRunning, Widgets, UiSteps, Ending, Bringing
<1>6. CASE ShowPaused("ui")
  BY <1>2, <1>6 DEF ShowPaused, Widgets, UiSteps, Ending, Bringing
<1>7. CASE ShowStopped("ui")
  BY <1>2, <1>7 DEF ShowStopped, Widgets, UiSteps, Ending, Bringing
<1>8. CASE ShowRestarted("ui")
  BY <1>2, <1>8 DEF ShowRestarted, Widgets, UiSteps, Ending, Bringing
<1>. QED BY <1>1, <1>3, <1>4, <1>5, <1>6, <1>7, <1>8 DEF UiStep

(* A step of the user interface keeps to what its handler leads to, and    *)
(* the last one settles it.                                                *)
LEMMA UiStepSettles ==
  ASSUME TodoInv, UiInv, running \in BOOLEAN, UiStep
  PROVE  UiInv' /\ Settled'
<1>1. running' \in BOOLEAN
  BY UiStepFacts
<1>2. PICK step \in StepNames :
        /\ Next1("ui", step) /\ Done("ui")
        /\ running' <=> Will(step, running)
        /\ step \in Ending => ("pause" \in shown' <=> step \in Bringing)
  BY UiStepFacts
<1>. DEFINE s == todo["ui"]
<1>3. "ui" \in Handlers
  BY DEF Handlers
<1>4. s \in Seq(StepNames) /\ todo'["ui"] = Tail(s)
  BY <1>2, <1>3 DEF TodoInv, Done
<1>5. s # <<>> /\ Head(s) = step /\ Leads(s, running)
  BY <1>2 DEF Next1, Idle, UiInv
<1>. HIDE DEF s
<1>6. CASE Tail(s) # <<>>
  <2>1. running' <=> Will(Head(s), running)
    BY <1>2, <1>5
  <2>2. Leads(Tail(s), running')
    BY <1>1, <1>4, <1>5, <1>6, <2>1, LeadsOn
  <2>. QED BY <1>4, <1>6, <2>2 DEF UiInv, Settled, Idle
<1>7. CASE Tail(s) = <<>>
  <2>1. step \in Ending /\ (Will(step, running) <=> step \in Bringing)
    BY <1>4, <1>5, <1>7, LeadsEnd
  <2>2. "pause" \in shown' <=> running'
    BY <1>2, <2>1
  <2>. QED BY <1>4, <1>7, <2>2 DEF UiInv, Settled, Idle
<1>. QED BY <1>6, <1>7

(* A button begins a handler that leads to what it shows.                  *)
LEMMA ButtonLeads ==
  ASSUME TodoInv, running \in BOOLEAN,
         PressStart \/ PressPause \/ PressResume \/ PressRestart \/ PressStop
  PROVE  UiInv' /\ ~Idle("ui")'
<1>1. "ui" \in Handlers /\ todo \in [Handlers -> Seq(StepNames)]
  BY DEF Handlers, TodoInv
<1>2. ASSUME NEW needed, NEW steps, Press(needed, steps), Leads(steps, running)
      PROVE  UiInv' /\ ~Idle("ui")'
  <2>1. todo'["ui"] = steps /\ running' = running
    BY <1>1, <1>2 DEF Press
  <2>2. steps # <<>>
    BY <1>2 DEF Leads
  <2>. QED BY <1>2, <2>1, <2>2 DEF UiInv, Idle
<1>3. CASE PressStart
  BY <1>2, <1>3, HandlersLead DEF PressStart
<1>4. CASE PressPause
  BY <1>2, <1>4, HandlersLead DEF PressPause
<1>5. CASE PressResume
  BY <1>2, <1>5, HandlersLead DEF PressResume
<1>6. CASE PressRestart
  BY <1>2, <1>6, HandlersLead DEF PressRestart
<1>7. CASE PressStop
  BY <1>2, <1>7, HandlersLead DEF PressStop
<1>. QED BY <1>3, <1>4, <1>5, <1>6, <1>7

(* What has slipped is forgotten only when the next client is accepted,    *)
(* and what has gone is gone.                                              *)
LEMMA LiveBefore ==
  ASSUME [Next]_vars, Live'
  PROVE  Live \/ (Accept /\ AtRest)
<1>1. CASE UiStep \/ MonitorStep
  BY <1>1 DEF UiStep, MonitorStep, Live, ClearDevices, ClearRoutes, ResetConfiguration,
     ShowStarted, ShowRunning, ShowPaused, ShowStopped, ShowRestarted, ShowReady, HideAll,
     Widgets, Command, Transmit, Poll, Seen, linkVars
<1>2. CASE Button
  BY <1>2 DEF Button, Live, PressStart, PressPause, PressResume, PressRestart, PressStop, Press,
     OpenDialog, ChooseFile, Leave, linkVars
<1>3. CASE Accept
  <2>1. slipped' = ~AtRest
    BY <1>3 DEF Accept
  <2>. QED BY <1>3, <2>1 DEF Live
<1>4. CASE ReceivePosition \/ RefuseRoute \/ LookUpRoute \/ InsertRoute
           \/ ReceiveDisconnected \/ DropFlag \/ HeartbeatTimeout
  BY <1>4 DEF ReceivePosition, RefuseRoute, LookUpRoute, InsertRoute, ReceiveDisconnected,
     DropFlag, HeartbeatTimeout, Receives, Waits, Live, linkVars
<1>5. CASE SimulatorStep
  BY <1>5 DEF SimulatorStep, SimulatorLeaves, SimulatorLaunches, TakeLaunch, TakePauseOrResume,
     TakeStop, TakeRestart, IgnoreCommand, SimulatorShowsRoute, Takes, Live, linkVars
<1>6. CASE UNCHANGED vars
  BY <1>6 DEF vars, linkVars, Live
<1>. QED BY <1>1, <1>2, <1>3, <1>4, <1>5, <1>6 DEF Next, NetStep
-------------------------------------------------------------------------------
(* The other threads leave the handler of the user interface and what the  *)
(* controller believes alone; only the loss of a connection, told by the   *)
(* monitor, hides the pause button.                                        *)
LEMMA UiLeftAlone ==
  ASSUME TodoInv,
         \/ OpenDialog \/ ChooseFile \/ Leave
         \/ MonitorStep \/ NetStep \/ HeartbeatTimeout \/ SimulatorStep
         \/ UNCHANGED vars
  PROVE  /\ todo'["ui"] = todo["ui"] /\ running' = running
         /\ HideAll("monitor") \/ ("pause" \in shown' <=> "pause" \in shown)
<1>1. todo \in [Handlers -> Seq(StepNames)] /\ "ui" \in Handlers /\ "ui" # "monitor"
  BY DEF TodoInv, Handlers
<1>2. CASE OpenDialog \/ ChooseFile \/ Leave
  BY <1>2 DEF OpenDialog, ChooseFile, Leave, widgetVars
<1>3. CASE MonitorStep
  <2>1. \/ todo' = [todo EXCEPT !["monitor"] = Tail(todo["monitor"])]
        \/ \E steps : todo' = [todo EXCEPT !["monitor"] = steps]
    BY <1>3 DEF MonitorStep, Poll, ShowReady, HideAll, Seen, ClearDevices, ClearRoutes,
       ResetConfiguration, Widgets, Done
  <2>2. todo'["ui"] = todo["ui"]
    BY <1>1, <2>1
  <2>3. running' = running
    BY <1>3 DEF MonitorStep, Poll, ShowReady, HideAll, Seen, ClearDevices, ClearRoutes,
       ResetConfiguration, Widgets
  <2>4. HideAll("monitor") \/ ("pause" \in shown' <=> "pause" \in shown)
    <3>1. CASE ShowReady("monitor")
      BY <3>1 DEF ShowReady, Widgets
    <3>2. CASE ~ShowReady("monitor") /\ ~HideAll("monitor")
      BY <1>3, <3>2 DEF MonitorStep, Poll, Seen, ClearDevices, ClearRoutes,
         ResetConfiguration, widgetVars
    <3>. QED BY <3>1, <3>2
  <2>. QED BY <2>2, <2>3, <2>4
<1>4. CASE NetStep
  BY <1>4 DEF NetStep, Accept, ReceivePosition, RefuseRoute, LookUpRoute, InsertRoute,
     ReceiveDisconnected, DropFlag, widgetVars
<1>5. CASE HeartbeatTimeout
  BY <1>5 DEF HeartbeatTimeout, widgetVars
<1>6. CASE SimulatorStep
  BY <1>6 DEF SimulatorStep, SimulatorLeaves, SimulatorLaunches, TakeLaunch, TakePauseOrResume,
     TakeStop, TakeRestart, IgnoreCommand, SimulatorShowsRoute, Takes, widgetVars
<1>7. CASE UNCHANGED vars
  BY <1>7 DEF vars, widgetVars
<1>. QED BY <1>2, <1>3, <1>4, <1>5, <1>6, <1>7

(* A hiding is no step of the monitor's while nothing has slipped.         *)
LEMMA NothingHidden == MonitorInv /\ Live => ~HideAll("monitor")
<1>. SUFFICES ASSUME MonitorInv, Live, HideAll("monitor") PROVE FALSE
  OBVIOUS
<1>1. todo["monitor"] # <<>> /\ Head(todo["monitor"]) = "hidden"
  BY DEF HideAll, Widgets, Next1, Idle
<1>2. Head(todo["monitor"]) \in MonitorSteps
  BY <1>1, HeadTailProperties DEF MonitorInv
<1>. QED BY <1>1, <1>2 DEF MonitorSteps

(* The handler of the user interface, and the pause button between two.    *)
LEMMA UiPreserves ==
  ASSUME TodoInv, StepInv, [Next]_vars
  PROVE  UiInv' /\ ShownInv'
<1>1. running \in BOOLEAN /\ UiInv /\ ShownInv /\ MonitorInv
  BY DEF StepInv, BeliefTypes
<1>2. CASE UiStep
  BY <1>1, <1>2, UiStepSettles DEF Settled, ShownInv
<1>3. CASE PressStart \/ PressPause \/ PressResume \/ PressRestart \/ PressStop
  BY <1>1, <1>3, ButtonLeads DEF ShownInv
<1>4. CASE ~UiStep /\ ~(PressStart \/ PressPause \/ PressResume \/ PressRestart \/ PressStop)
  <2>1. /\ todo'["ui"] = todo["ui"] /\ running' = running
        /\ HideAll("monitor") \/ ("pause" \in shown' <=> "pause" \in shown)
    BY <1>4, UiLeftAlone DEF Next, Button
  <2>2. UiInv'
    BY <1>1, <2>1 DEF UiInv, Idle
  <2>3. ShownInv'
    <3>. SUFFICES ASSUME Live', Idle("ui")' PROVE "pause" \in shown' <=> running'
      BY DEF ShownInv
    <3>1. Idle("ui")
      BY <2>1 DEF Idle
    <3>2. CASE Live
      BY <1>1, <2>1, <3>1, <3>2, NothingHidden DEF ShownInv
    <3>3. CASE Accept /\ AtRest
      BY <2>1, <3>3 DEF Accept, AtRest, widgetVars
    <3>. QED BY <3>2, <3>3, LiveBefore
  <2>. QED BY <2>2, <2>3
<1>. QED BY <1>2, <1>3, <1>4

(* The two ends of a connection nobody has lost agree about it.            *)
LEMMA LinkPreserves ==
  ASSUME StepInv, [Next]_vars
  PROVE  LinkInv'
<1>. SUFFICES ASSUME Live'
              PROVE  (client' <=> attached') /\ (connected' <=> attached') /\ net' # "drop flag"
  BY DEF LinkInv
<1>1. CASE Accept
  BY <1>1 DEF Accept, Waits
<1>2. CASE ~Accept
  <2>1. Live /\ (client <=> attached) /\ (connected <=> attached) /\ net # "drop flag"
    BY <1>2, LiveBefore DEF StepInv, LinkInv
  <2>2. SUFFICES /\ client' = client /\ connected' = connected /\ attached' = attached
                 /\ net' # "drop flag"
    BY <2>1
  <2>3. ~(client /\ ~attached)
    BY <2>1
  <2>4. CASE UiStep \/ MonitorStep
    BY <2>1, <2>3, <2>4 DEF UiStep, MonitorStep, Live, ClearDevices, ClearRoutes,
       ResetConfiguration, ShowStarted, ShowRunning, ShowPaused, ShowStopped, ShowRestarted,
       ShowReady, HideAll, Widgets, Command, Transmit, Poll, Seen, linkVars, wireVars
  <2>5. CASE Button
    BY <2>1, <2>5 DEF Button, Live, PressStart, PressPause, PressResume, PressRestart, PressStop,
       Press, OpenDialog, ChooseFile, Leave, linkVars, wireVars
  <2>6. CASE \/ ReceivePosition \/ RefuseRoute \/ LookUpRoute \/ InsertRoute
             \/ ReceiveDisconnected \/ DropFlag \/ HeartbeatTimeout
    BY <2>1, <2>3, <2>6 DEF ReceivePosition, RefuseRoute, LookUpRoute, InsertRoute,
       ReceiveDisconnected, DropFlag, HeartbeatTimeout, Receives, Waits, Live, linkVars, wireVars
  <2>7. CASE SimulatorStep
    BY <2>1, <2>7 DEF SimulatorStep, SimulatorLeaves, SimulatorLaunches, TakeLaunch,
       TakePauseOrResume, TakeStop, TakeRestart, IgnoreCommand, SimulatorShowsRoute, Takes,
       Live, linkVars
  <2>8. CASE UNCHANGED vars
    BY <2>1, <2>8 DEF vars, linkVars, wireVars
  <2>. QED BY <1>2, <2>4, <2>5, <2>6, <2>7, <2>8 DEF Next, NetStep
<1>. QED BY <1>1, <1>2

(* A poll finds a connection or nothing new.                               *)
LEMMA PollFinds ==
  ASSUME BeliefTypes, MonitorInv, Live, Poll
  PROVE  connected /\ \E steps \in Seq(MonitorSteps) : todo' = [todo EXCEPT !["monitor"] = steps]
<1>. DEFINE steps == <<"ready">> \o ClearScene \o <<"reset", "seen">>
<1>1. connected
  <2>1. connected \in BOOLEAN /\ lastStatus \in BOOLEAN /\ connected # lastStatus
    BY DEF BeliefTypes, Poll
  <2>2. ~connected => ~lastStatus
    BY DEF MonitorInv
  <2>. QED BY <2>1, <2>2
<1>2. todo' = [todo EXCEPT !["monitor"] = steps]
  BY <1>1 DEF Poll
<1>3. <<"ready">> \in Seq(MonitorSteps) /\ <<"reset", "seen">> \in Seq(MonitorSteps)
  BY DEF MonitorSteps
<1>4. ClearScene \in Seq(MonitorSteps)
  BY DEF MonitorSteps, ClearScene
<1>5. <<"ready">> \o ClearScene \in Seq(MonitorSteps)
  BY <1>3, <1>4, ConcatProperties
<1>6. steps \in Seq(MonitorSteps)
  BY <1>3, <1>5, ConcatProperties
<1>. HIDE DEF steps
<1>. QED BY <1>1, <1>2, <1>6

(* The monitor has a loss to tell of only after something has slipped.     *)
LEMMA MonitorPreserves ==
  ASSUME TodoInv, StepInv, [Next]_vars
  PROVE  MonitorInv'
<1>. SUFFICES ASSUME Live'
              PROVE  /\ todo'["monitor"] \in Seq(MonitorSteps)
                     /\ ~connected' => Idle("monitor")' /\ ~lastStatus'
  BY DEF MonitorInv
<1>1. /\ todo \in [Handlers -> Seq(StepNames)]
      /\ "ui" \in Handlers /\ "monitor" \in Handlers /\ "ui" # "monitor"
  BY DEF TodoInv, Handlers
<1>2. CASE Accept
  <2>1. AtRest /\ connected' = TRUE /\ todo' = todo
    BY <1>2 DEF Accept, Live
  <2>2. todo'["monitor"] = <<>>
    BY <2>1 DEF AtRest, Idle
  <2>. QED BY <2>1, <2>2, EmptySeq
<1>3. CASE ~Accept
  <2>1. /\ Live /\ MonitorInv /\ todo["monitor"] \in Seq(MonitorSteps)
        /\ ~connected => Idle("monitor") /\ ~lastStatus
    BY <1>3, LiveBefore DEF StepInv, MonitorInv
  <2>2. (client <=> attached) /\ (connected <=> attached) /\ net # "drop flag"
    BY <2>1 DEF StepInv, LinkInv
  <2>3. ASSUME todo'["monitor"] = todo["monitor"], lastStatus' = lastStatus,
               connected' = connected
        PROVE  /\ todo'["monitor"] \in Seq(MonitorSteps)
               /\ ~connected' => Idle("monitor")' /\ ~lastStatus'
    BY <2>1, <2>3 DEF Idle
  <2>4. CASE UiStep
    <3>1. lastStatus' = lastStatus /\ connected' = connected /\ Done("ui")
      BY <2>4 DEF UiStep, ClearDevices, ClearRoutes, ResetConfiguration, ShowStarted,
         ShowRunning, ShowPaused, ShowStopped, ShowRestarted, Widgets, Command, linkVars
    <3>2. todo'["monitor"] = todo["monitor"]
      BY <1>1, <3>1 DEF Done
    <3>. QED BY <2>3, <3>1, <3>2
  <2>5. CASE Button
    <3>1. lastStatus' = lastStatus /\ connected' = connected
      BY <2>5 DEF Button, Live, PressStart, PressPause, PressResume, PressRestart, PressStop,
         Press, OpenDialog, ChooseFile, Leave, linkVars
    <3>2. todo' = todo \/ \E steps : todo' = [todo EXCEPT !["ui"] = steps]
      BY <2>5 DEF Button, PressStart, PressPause, PressResume, PressRestart, PressStop,
         Press, OpenDialog, ChooseFile, Leave
    <3>3. todo'["monitor"] = todo["monitor"]
      BY <1>1, <3>2
    <3>. QED BY <2>3, <3>1, <3>3
  <2>6. CASE Poll
    <3>1. connected /\ \E steps \in Seq(MonitorSteps) : todo' = [todo EXCEPT !["monitor"] = steps]
      BY <2>1, <2>6, PollFinds DEF StepInv
    <3>2. connected' = connected
      BY <2>6 DEF Poll, linkVars
    <3>. QED BY <1>1, <3>1, <3>2
  <2>7. CASE MonitorStep /\ ~Poll
    <3>1. /\ todo["monitor"] # <<>> /\ connected' = connected
          /\ todo' = [todo EXCEPT !["monitor"] = Tail(todo["monitor"])]
      BY <2>7 DEF MonitorStep, ShowReady, HideAll, Seen, ClearDevices, ClearRoutes,
         ResetConfiguration, Widgets, Next1, Idle, Done, linkVars
    <3>2. todo'["monitor"] = Tail(todo["monitor"])
      BY <1>1, <3>1
    <3>3. Tail(todo["monitor"]) \in Seq(MonitorSteps)
      BY <2>1, <3>1, HeadTailProperties
    <3>4. connected
      BY <2>1, <3>1 DEF Idle
    <3>. QED BY <3>1, <3>2, <3>3, <3>4
  <2>8. CASE \/ ReceivePosition \/ RefuseRoute \/ LookUpRoute \/ InsertRoute
             \/ ReceiveDisconnected \/ DropFlag \/ HeartbeatTimeout
    <3>1. lastStatus' = lastStatus /\ todo' = todo /\ connected' = connected
      BY <2>2, <2>8 DEF ReceivePosition, RefuseRoute, LookUpRoute, InsertRoute,
         ReceiveDisconnected, DropFlag, HeartbeatTimeout, Receives, Waits, Live, linkVars
    <3>. QED BY <2>3, <3>1
  <2>9. CASE SimulatorStep
    <3>1. lastStatus' = lastStatus /\ todo' = todo /\ connected' = connected
      BY <2>9 DEF SimulatorStep, SimulatorLeaves, SimulatorLaunches, TakeLaunch,
         TakePauseOrResume, TakeStop, TakeRestart, IgnoreCommand, SimulatorShowsRoute, Takes,
         linkVars
    <3>. QED BY <2>3, <3>1
  <2>10. CASE UNCHANGED vars
    <3>1. lastStatus' = lastStatus /\ todo' = todo /\ connected' = connected
      BY <2>10 DEF vars, linkVars
    <3>. QED BY <2>3, <3>1
  <2>. QED BY <1>3, <2>4, <2>5, <2>6, <2>7, <2>8, <2>9, <2>10 DEF Next, NetStep
<1>. QED BY <1>2, <1>3
-------------------------------------------------------------------------------
(* The simulator's dispatcher knows each command by the number the         *)
(* interface gave it.                                                      *)
LEMMA CommandsUnderstood ==
  \A command \in CommandNames : CommandHandler[CommandType[command]] = command
<1>1. CommandHandler[CommandType["launch"]] = "launch"
  BY DEF CommandHandler, CommandType
<1>2. CommandHandler[CommandType["pause"]] = "pause"
  BY DEF CommandHandler, CommandType
<1>3. CommandHandler[CommandType["resume"]] = "resume"
  BY DEF CommandHandler, CommandType
<1>4. CommandHandler[CommandType["restart"]] = "restart"
  BY DEF CommandHandler, CommandType
<1>5. CommandHandler[CommandType["stop"]] = "stop"
  BY DEF CommandHandler, CommandType
<1>. QED BY <1>1, <1>2, <1>3, <1>4, <1>5 DEF CommandNames

(* Commands are sent behind the others and taken from the front.           *)
LEMMA CommandsTyped ==
  ASSUME BeliefTypes, [Next]_vars
  PROVE  commands' \in Seq(CommandNumbers)
<1>1. commands \in Seq(CommandNumbers)
  BY DEF BeliefTypes
<1>2. CASE UiStep
  <2>1. commands' = commands \/ \E command \in CommandNames :
                                  commands' = Append(commands, CommandType[command])
    BY <1>2 DEF UiStep, ClearDevices, ClearRoutes, ResetConfiguration, ShowStarted, ShowRunning,
       ShowPaused, ShowStopped, ShowRestarted, Widgets, Command, Transmit, wireVars
  <2>. QED BY <1>1, <2>1, AppendProperties DEF CommandNumbers
<1>3. CASE Button
  BY <1>1, <1>3, EmptySeq DEF Button, PressStart, PressPause, PressResume, PressRestart, PressStop,
     Press, OpenDialog, ChooseFile, Leave, wireVars
<1>4. CASE MonitorStep
  BY <1>1, <1>4 DEF MonitorStep, Poll, ShowReady, HideAll, Seen, ClearDevices, ClearRoutes,
     ResetConfiguration, Widgets, wireVars
<1>5. CASE NetStep \/ HeartbeatTimeout
  BY <1>1, <1>5, EmptySeq DEF NetStep, Accept, ReceivePosition, RefuseRoute, LookUpRoute,
     InsertRoute, ReceiveDisconnected, DropFlag, HeartbeatTimeout, wireVars
<1>6. CASE SimulatorStep
  <2>1. commands' \in {commands, <<>>} \/ (commands # <<>> /\ commands' = Tail(commands))
    BY <1>6 DEF SimulatorStep, SimulatorLeaves, SimulatorLaunches, TakeLaunch,
       TakePauseOrResume, TakeStop, TakeRestart, IgnoreCommand, SimulatorShowsRoute, Takes
  <2>. QED BY <1>1, <2>1, EmptySeq, HeadTailProperties
<1>7. CASE UNCHANGED vars
  BY <1>1, <1>7 DEF vars, wireVars
<1>. QED BY <1>2, <1>3, <1>4, <1>5, <1>6, <1>7 DEF Next

(* The flags are Boolean and the simulator in one of its states.           *)
LEMMA TypesPreserved ==
  ASSUME BeliefTypes, [Next]_vars
  PROVE  BeliefTypes'
<1>1. /\ client \in BOOLEAN /\ connected \in BOOLEAN /\ lastStatus \in BOOLEAN
      /\ running \in BOOLEAN /\ attached \in BOOLEAN /\ slipped \in BOOLEAN
      /\ sim \in SimStates
  BY DEF BeliefTypes
<1>. DEFINE Typed == /\ client \in BOOLEAN /\ connected \in BOOLEAN /\ lastStatus \in BOOLEAN
                     /\ running \in BOOLEAN /\ attached \in BOOLEAN /\ slipped \in BOOLEAN
                     /\ sim \in SimStates
<1>2. CASE UiStep
  <2>1. running' \in BOOLEAN
    BY <1>1, <1>2, UiStepFacts
  <2>. QED BY <1>1, <1>2, <2>1, CommandsTyped DEF BeliefTypes, UiStep, ClearDevices, ClearRoutes,
           ResetConfiguration, ShowStarted, ShowRunning, ShowPaused, ShowStopped, ShowRestarted,
           Widgets, Command, Transmit, linkVars, wireVars
<1>3. CASE Button
  BY <1>1, <1>3, CommandsTyped DEF BeliefTypes, Button, PressStart, PressPause, PressResume,
     PressRestart, PressStop, Press, OpenDialog, ChooseFile, Leave, linkVars, wireVars, SimStates
<1>4. CASE MonitorStep
  BY <1>1, <1>4, CommandsTyped DEF BeliefTypes, MonitorStep, Poll, ShowReady, HideAll, Seen,
     ClearDevices, ClearRoutes, ResetConfiguration, Widgets, linkVars, wireVars
<1>5. CASE NetStep \/ HeartbeatTimeout
  <2>1. AtRest \in BOOLEAN
    BY DEF AtRest, Idle
  <2>. QED BY <1>1, <1>5, <2>1, CommandsTyped DEF BeliefTypes, NetStep, Accept, ReceivePosition,
           RefuseRoute, LookUpRoute, InsertRoute, ReceiveDisconnected, DropFlag,
           HeartbeatTimeout, linkVars, wireVars, SimStates
<1>6. CASE SimulatorStep
  BY <1>1, <1>6, CommandsTyped DEF BeliefTypes, SimulatorStep, SimulatorLeaves,
     SimulatorLaunches, Launched, TakeLaunch, TakePauseOrResume, TakeStop, TakeRestart,
     IgnoreCommand, SimulatorShowsRoute, Takes, linkVars, SimStates
<1>7. CASE UNCHANGED vars
  BY <1>1, <1>7, CommandsTyped DEF BeliefTypes, vars, linkVars, wireVars
<1>. QED BY <1>2, <1>3, <1>4, <1>5, <1>6, <1>7 DEF Next

(* A simulator without a connection does nothing.                          *)
LEMMA AttachPreserves ==
  ASSUME StepInv, [Next]_vars
  PROVE  AttachInv'
<1>. SUFFICES ASSUME ~attached' PROVE sim' = "idle" /\ commands' = <<>>
  BY DEF AttachInv
<1>1. ~attached => sim = "idle" /\ commands = <<>>
  BY DEF StepInv, AttachInv
<1>2. CASE UiStep
  <2>1. attached' = attached /\ sim' = sim
    BY <1>2 DEF UiStep, ClearDevices, ClearRoutes, ResetConfiguration, ShowStarted,
       ShowRunning, ShowPaused, ShowStopped, ShowRestarted, Widgets, Command, wireVars
  <2>2. ~attached => commands' = commands
    BY <1>2 DEF UiStep, ClearDevices, ClearRoutes, ResetConfiguration, ShowStarted, ShowRunning,
       ShowPaused, ShowStopped, ShowRestarted, Widgets, Command, Transmit, wireVars
  <2>. QED BY <1>1, <2>1, <2>2
<1>3. CASE Button
  BY <1>1, <1>3 DEF Button, PressStart, PressPause, PressResume, PressRestart, PressStop, Press,
     OpenDialog, ChooseFile, Leave, wireVars
<1>4. CASE MonitorStep
  BY <1>1, <1>4 DEF MonitorStep, Poll, ShowReady, HideAll, Seen, ClearDevices, ClearRoutes,
     ResetConfiguration, Widgets, wireVars
<1>5. CASE NetStep \/ HeartbeatTimeout
  BY <1>1, <1>5 DEF NetStep, Accept, ReceivePosition, RefuseRoute, LookUpRoute, InsertRoute,
     ReceiveDisconnected, DropFlag, HeartbeatTimeout, wireVars
<1>6. CASE SimulatorStep
  BY <1>1, <1>6 DEF SimulatorStep, SimulatorLeaves, SimulatorLaunches, Launched, TakeLaunch,
     TakePauseOrResume, TakeStop, TakeRestart, IgnoreCommand, SimulatorShowsRoute, Takes
<1>7. CASE UNCHANGED vars
  BY <1>1, <1>7 DEF vars, wireVars
<1>. QED BY <1>2, <1>3, <1>4, <1>5, <1>6, <1>7 DEF Next

(* A command taken makes of the simulator what was believed since it was   *)
(* sent, or another one behind it will.                                    *)
LEMMA TakenAsBelieved ==
  ASSUME BeliefTypes, running <=> Believed, NEW command \in CommandNames, Takes(command),
         RunningAfter(command) <=> sim' \in {"launching", "running"}
  PROVE  running' <=> Believed'
<1>1. /\ commands \in Seq(CommandNumbers) /\ commands # <<>> /\ commands' = Tail(commands)
      /\ CommandHandler[Head(commands)] = command /\ running' = running
  BY DEF BeliefTypes, Takes
<1>2. running <=> RunningAfter(CommandHandler[LastOf(commands)])
  BY <1>1 DEF Believed
<1>3. CASE Tail(commands) = <<>>
  <2>1. LastOf(commands) = Head(commands)
    BY <1>1, <1>3, LastOfTail
  <2>2. running <=> RunningAfter(command)
    BY <1>1, <1>2, <2>1
  <2>. QED BY <1>1, <1>3, <2>2 DEF Believed
<1>4. CASE Tail(commands) # <<>>
  <2>1. LastOf(Tail(commands)) = LastOf(commands)
    BY <1>1, <1>4, LastOfTail
  <2>. QED BY <1>1, <1>2, <1>4, <2>1 DEF Believed
<1>. QED BY <1>3, <1>4

(* The controller believes what the last command will make of the          *)
(* simulator.                                                              *)
LEMMA BeliefPreserves ==
  ASSUME StepInv, [Next]_vars
  PROVE  BeliefInv'
<1>. SUFFICES ASSUME Live' PROVE running' <=> Believed'
  BY DEF BeliefInv
<1>1. BeliefTypes /\ (~attached => sim = "idle" /\ commands = <<>>)
  BY DEF StepInv, AttachInv
<1>2. CASE Accept /\ AtRest
  <2>1. /\ ~attached /\ running' = running /\ sim' = sim /\ commands' = commands /\ ~running
    BY <1>2 DEF Accept, AtRest
  <2>. QED BY <1>1, <2>1 DEF Believed
<1>3. CASE Live
  <2>1. /\ running <=> Believed
        /\ client <=> attached
    BY <1>3 DEF StepInv, BeliefInv, LinkInv
  <2>2. ASSUME running' = running, commands' = commands, sim' = sim
        PROVE  running' <=> Believed'
    BY <2>1, <2>2 DEF Believed
  <2>3. ASSUME NEW command \in CommandNames, Command(command) PROVE running' <=> Believed'
    <3>1. commands' = Append(commands, CommandType[command])
      BY <2>3 DEF Command, Transmit, Live
    <3>2. commands \in Seq(CommandNumbers) /\ CommandType[command] \in CommandNumbers
      BY <1>1 DEF BeliefTypes, CommandNumbers
    <3>3. /\ commands' # <<>> /\ Len(commands') = Len(commands) + 1
          /\ commands'[Len(commands) + 1] = CommandType[command]
      BY <3>1, <3>2, AppendProperties
    <3>4. LastOf(commands') = CommandType[command]
      BY <3>3 DEF LastOf
    <3>5. CommandHandler[LastOf(commands')] = command
      BY <3>4, CommandsUnderstood
    <3>6. running' = RunningAfter(command)
      BY <2>3 DEF Command
    <3>. QED BY <3>3, <3>5, <3>6 DEF Believed
  <2>4. CASE UiStep /\ ~(\E command \in CommandNames : Command(command))
    BY <2>2, <2>4 DEF UiStep, ClearDevices, ClearRoutes, ResetConfiguration, ShowStarted,
       ShowRunning, ShowPaused, ShowStopped, ShowRestarted, Widgets, wireVars
  <2>5. CASE Button
    BY <2>2, <2>5 DEF Button, Live, PressStart, PressPause, PressResume, PressRestart, PressStop,
       Press, OpenDialog, ChooseFile, Leave, wireVars
  <2>6. CASE MonitorStep
    BY <2>2, <2>6 DEF MonitorStep, Poll, ShowReady, HideAll, Seen, ClearDevices, ClearRoutes,
       ResetConfiguration, Widgets, wireVars
  <2>7. CASE NetStep \/ HeartbeatTimeout
    <3>1. ~(client /\ ~attached)
      BY <2>1
    <3>. QED BY <2>2, <2>7, <3>1 DEF NetStep, Live, Accept, ReceivePosition, RefuseRoute,
             LookUpRoute, InsertRoute, ReceiveDisconnected, DropFlag, HeartbeatTimeout, wireVars
  <2>8. CASE SimulatorStep
    <3>1. CASE SimulatorLeaves \/ IgnoreCommand
      BY <3>1 DEF SimulatorLeaves, IgnoreCommand, Live
    <3>2. CASE SimulatorLaunches
      BY <2>1, <3>2 DEF SimulatorLaunches, Launched, Believed
    <3>3. CASE \E n \in MeshNodes : SimulatorShowsRoute(n)
      BY <2>2, <3>3 DEF SimulatorShowsRoute
    <3>4. CASE TakeLaunch
      <4>1. Takes("launch") /\ sim' = "launching"
        BY <3>4 DEF TakeLaunch, Live
      <4>2. "launch" \in CommandNames /\ RunningAfter("launch")
        BY DEF CommandNames, RunningAfter
      <4>. QED BY <1>1, <2>1, <4>1, <4>2, TakenAsBelieved
    <3>5. CASE TakePauseOrResume
      <4>1. \/ Takes("pause") /\ sim' = "paused"
            \/ Takes("resume") /\ sim' = "running"
        BY <3>5 DEF TakePauseOrResume
      <4>2. /\ "pause" \in CommandNames /\ ~RunningAfter("pause")
            /\ "resume" \in CommandNames /\ RunningAfter("resume")
        BY DEF CommandNames, RunningAfter
      <4>. QED BY <1>1, <2>1, <4>1, <4>2, TakenAsBelieved
    <3>6. CASE TakeStop
      <4>1. Takes("stop") /\ sim' = "idle"
        BY <3>6 DEF TakeStop
      <4>2. "stop" \in CommandNames /\ ~RunningAfter("stop")
        BY DEF CommandNames, RunningAfter
      <4>. QED BY <1>1, <2>1, <4>1, <4>2, TakenAsBelieved
    <3>7. CASE TakeRestart
      <4>1. Takes("restart") /\ sim' = "running"
        BY <3>7 DEF TakeRestart, Launched
      <4>2. "restart" \in CommandNames /\ RunningAfter("restart")
        BY DEF CommandNames, RunningAfter
      <4>. QED BY <1>1, <2>1, <4>1, <4>2, TakenAsBelieved
    <3>. QED BY <2>8, <3>1, <3>2, <3>3, <3>4, <3>5, <3>6, <3>7 DEF SimulatorStep
  <2>9. CASE UNCHANGED vars
    BY <2>2, <2>9 DEF vars, wireVars
  <2>. QED BY <2>3, <2>4, <2>5, <2>6, <2>7, <2>8, <2>9 DEF Next
<1>. QED BY <1>2, <1>3, LiveBefore
-------------------------------------------------------------------------------
(* Nothing runs at first, and nothing has slipped.                         *)
LEMMA StepInitEstablishes == Init => StepInv
<1>. SUFFICES ASSUME Init PROVE StepInv
  OBVIOUS
<1>1. todo["ui"] = <<>> /\ todo["monitor"] = <<>>
  BY DEF Init, Handlers
<1>2. BeliefTypes
  BY EmptySeq DEF Init, BeliefTypes, SimStates
<1>3. UiInv /\ MonitorInv
  BY <1>1, EmptySeq DEF Init, UiInv, MonitorInv, Idle
<1>. QED BY <1>2, <1>3 DEF Init, StepInv, ShownInv, LinkInv, AttachInv, BeliefInv, Believed

(* StepInv is inductive, beside IInv.                                      *)
LEMMA StepInvPreserved == IInv /\ StepInv /\ [Next]_vars => StepInv'
<1>. SUFFICES ASSUME IInv, StepInv, [Next]_vars PROVE StepInv'
  OBVIOUS
<1>1. TodoInv /\ BeliefTypes
  BY DEF IInv, StepInv
<1>. QED BY <1>1, UiPreserves, LinkPreserves, MonitorPreserves, AttachPreserves, BeliefPreserves,
         TypesPreserved DEF StepInv

(* When no command is on its way and none was lost or ignored, the running *)
(* flag and the pause button show what the simulator does                  *)
(* (SimulationController::running).                                        *)
THEOREM InStepAlways == Spec => []InStep
<1>1. StepInv => InStep
  <2>. SUFFICES ASSUME StepInv, Idle("ui"), commands = <<>>, sim # "launching",
                       net # "gone", ~slipped
                PROVE  (running <=> sim = "running") /\ ("pause" \in shown <=> running)
    BY DEF InStep
  <2>1. Live
    BY DEF Live
  <2>2. running <=> sim \in {"launching", "running"}
    BY <2>1 DEF StepInv, BeliefInv, Believed
  <2>3. "pause" \in shown <=> running
    BY <2>1 DEF StepInv, ShownInv
  <2>. QED BY <2>2, <2>3
<1>. QED BY <1>1, InitEstablishes, StepPreserves, StepInitEstablishes, StepInvPreserved,
         PTL DEF Spec
===============================================================================
