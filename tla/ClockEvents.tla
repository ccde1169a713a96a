----------------------------- MODULE ClockEvents -----------------------------
(***************************************************************************)
(* The clock thread: it advances logical time tick by tick, walks the four *)
(* event maps in a fixed order, and is paused, resumed and stopped from    *)
(* other threads.  The callbacks it runs schedule further events into the  *)
(* maps it is walking.                                                     *)
(***************************************************************************)
EXTENDS Integers, Sequences, FiniteSets

CONSTANTS
  Tick,           \* tickPeriod, in ms
  Steps,          \* how far ahead a node's next transition may lie
  Airtimes,       \* how long a transmission may last
  NodeCount,      \* nodes that register a first event before the start
  MaxEvents,      \* bound: events ever scheduled
  MaxTime,        \* bound: logical time
  MaxPauses       \* bound: pauses

ASSUME ClockAssumption ==
  /\ Tick \in Nat \ {0} /\ Steps \subseteq Nat \ {0} /\ Airtimes \subseteq Nat \ {0}
  /\ NodeCount \in Nat

(* The maps in the order in which run() walks them.                        *)
Maps == <<"stateTransitions", "communicationSteps",
          "transmissionStarts", "transmissionEnds">>
End == [id |-> 0, map |-> "end", time |-> 0]   \* map.end()

VARIABLES
  lateReplies,    \* handlers also schedule into a map already walked: none of
                  \* the present handlers does, the clock is written for it
  events,         \* what the four maps hold: [id, map, time]
  lastId,         \* insertions so far: equal times keep insertion order
  tNow, tLast,    \* tNowMs, tLastMs
  running, paused, stopRequested,
  pc,             \* where run() is: "none", "gate", "walk", "settle",
                  \* "throttle", "ended", or "undefined"
  walk,           \* index in Maps of the map being walked
  it,             \* the iterator: an event of that map, or End
  ran,            \* history: the events run in this tick, in order
  done,           \* history: ids run, with the time they ran at
  pauses          \* pauses so far

mapVars == <<lateReplies, events, lastId, done>>
flagVars == <<running, paused, stopRequested, pauses>>
vars == <<lateReplies, events, lastId, tNow, tLast, running, paused, stopRequested,
          pc, walk, it, ran, done, pauses>>

Before(e, f) == e.time < f.time \/ (e.time = f.time /\ e.id < f.id)
InMap(k, es) == {e \in es : e.map = Maps[k]}
First(es) ==
  IF es = {} THEN End ELSE CHOOSE e \in es : \A f \in es \ {e} : Before(e, f)
After(e, es) == First({f \in es : f.map = e.map /\ Before(e, f)})

(* start of run()'s locals: the range of a tick is (tNow - Tick, tNow].    *)
RangeStart == tNow - Tick

-------------------------------------------------------------------------------
(* What a callback schedules, as sets of <<map, time>>.                    *)

(* onTimeChange: scheduleNextTransition, or nothing after a refusal.       *)
TransitionSchedules ==
  {{}} \cup {{<<"stateTransitions", tNow + d>>, <<"communicationSteps", tNow + d>>} : d \in Steps}

\* slip: a transmission also ends the node's window at once
CommunicationEndsWindow ==
  {{}} \cup {{<<"transmissionStarts", tNow>>, <<"stateTransitions", tNow>>}}

(* handleCommunication: processTransmission, or silence.                   *)
CommunicationSchedules ==
  {{}} \cup {{<<"transmissionStarts", tNow>>, <<"transmissionEnds", tNow + a>>} : a \in Airtimes}

Schedules(map) ==
  CASE map = "stateTransitions" -> TransitionSchedules
    [] map = "communicationSteps" -> CommunicationSchedules
    [] map = "transmissionEnds" /\ lateReplies ->
         CommunicationSchedules \cup {{<<"communicationSteps", tNow>>}}
    [] OTHER -> {{}}

(* The schedule functions: insertion in the order of Maps.                 *)
Rank(m) == CHOOSE k \in DOMAIN Maps : Maps[k] = m
Inserted(wanted) ==
  {[id |-> lastId + Cardinality({v \in wanted : Rank(v[1]) <= Rank(w[1])}),
    map |-> w[1], time |-> w[2]] : w \in wanted}

\* slip: the event is not erased
RunWithoutErase(e) ==
  /\ ran' = Append(ran, e)
  /\ Len(ran) < MaxEvents
  /\ UNCHANGED <<lateReplies, events, lastId, it, done>>

(* Run e: its insertions, then its removal; the iterator goes to what then *)
(* follows.                                                                *)
Run(e) ==
  \E wanted \in Schedules(e.map) :
    LET all == (events \cup Inserted(wanted)) \ {e}
    IN  /\ lastId + Cardinality(wanted) <= MaxEvents
        /\ events' = all
        /\ lastId' = lastId + Cardinality(wanted)
        /\ it' = After(e, all)
        /\ ran' = Append(ran, e)
        /\ done' = done \cup {<<e.id, tNow>>}

-------------------------------------------------------------------------------
(* Clock::start, with the first events of the nodes already registered.    *)
Start ==
  /\ pc = "none" /\ ~running
  /\ running' = TRUE /\ paused' = FALSE
  /\ tNow' = 0 /\ tLast' = -1
  /\ pc' = "gate"
  /\ UNCHANGED <<lateReplies, events, lastId, stopRequested, walk, it, ran, done, pauses>>

\* slip: the wait at the gate does not look at the stop token
GateOpenToResume == ~paused
GateOpen == ~paused \/ stopRequested

(* The pause gate; time advances by one tick under the lock.               *)
LeaveAtGate ==
  /\ pc = "gate" /\ GateOpen
  /\ stopRequested \/ ~running
  /\ pc' = "ended"
  /\ UNCHANGED <<mapVars, flagVars, tNow, tLast, walk, it, ran>>

Advance ==
  /\ pc = "gate" /\ GateOpen
  /\ ~stopRequested /\ running
  /\ tNow + Tick <= MaxTime
  /\ tNow' = tNow + Tick
  /\ pc' = "walk" /\ walk' = 1
  /\ it' = First(InMap(1, events))
  /\ ran' = << >>
  /\ UNCHANGED <<mapVars, flagVars, tLast>>

\* slips: the range ends before its upper bound, only one event of a tick
WithinHalfOpen == it # End /\ it.time < tNow
WithinFirst == it # End /\ it.time <= tNow /\ ran = << >>

Within == it # End /\ it.time <= tNow

(* An event of the range is run.                                           *)
RunDue ==
  /\ pc = "walk" /\ Within /\ it.time > RangeStart
  /\ Run(it)
  /\ UNCHANGED <<lateReplies, flagVars, tNow, tLast, pc, walk>>

(* executeCommunicationInRange leaves a past event where it is.            *)
PassPastCommunication ==
  /\ pc = "walk" /\ Within /\ it.time <= RangeStart
  /\ it.map = "communicationSteps"
  /\ it' = After(it, events)
  /\ UNCHANGED <<mapVars, flagVars, tNow, tLast, pc, walk, ran>>

(* executeCallbacksInRange erases a past event and goes on, in the same    *)
(* pass of the loop, with the event behind it: with none there is nothing  *)
(* to look at, a second past one is stepped over, and any other is run     *)
(* without a look at the end of the range.                                 *)
ErasePast ==
  /\ pc = "walk" /\ Within /\ it.time <= RangeStart
  /\ it.map # "communicationSteps"
  /\ LET next == After(it, events)
         left == events \ {it}
     IN  \/ /\ next = End
            /\ pc' = "undefined"
            /\ events' = left
            /\ UNCHANGED <<lastId, it, ran, done>>
         \/ /\ next # End /\ next.time <= RangeStart
            /\ events' = left
            /\ it' = After(next, left)
            /\ UNCHANGED <<lastId, ran, done, pc>>
         \/ /\ next # End /\ next.time > RangeStart
            /\ events' = left \ {next}
            /\ it' = After(next, left)
            /\ ran' = Append(ran, next)
            /\ done' = done \cup {<<next.id, tNow>>}
            /\ UNCHANGED <<lastId, pc>>
  /\ UNCHANGED <<lateReplies, flagVars, tNow, tLast, walk>>

\* slip: the communications are walked last
NextWalkSwapped ==
  /\ pc = "walk" /\ ~Within
  /\ IF walk # 2
     THEN LET next == <<3, 2, 4, 2>>[walk]
          IN  walk' = next /\ it' = First(InMap(next, events)) /\ pc' = pc
     ELSE pc' = "settle" /\ UNCHANGED <<walk, it>>
  /\ UNCHANGED <<mapVars, flagVars, tNow, tLast, ran>>

NextWalk ==
  /\ pc = "walk" /\ ~Within
  /\ IF walk < Len(Maps)
     THEN walk' = walk + 1 /\ it' = First(InMap(walk + 1, events)) /\ pc' = pc
     ELSE pc' = "settle" /\ UNCHANGED <<walk, it>>
  /\ UNCHANGED <<mapVars, flagVars, tNow, tLast, ran>>

(* The end of the tick, under the lock; metrics are sampled and exported   *)
(* before it (module Metrics).                                             *)
Settle ==
  /\ pc = "settle"
  /\ tLast' = tNow
  /\ pc' = "throttle"
  /\ UNCHANGED <<mapVars, flagVars, tNow, walk, it, ran>>

(* The throttle waits one period, less when paused or stopped.             *)
Throttle ==
  /\ pc = "throttle"
  /\ pc' = IF stopRequested THEN "ended" ELSE "gate"
  /\ UNCHANGED <<mapVars, flagVars, tNow, tLast, walk, it, ran>>

-------------------------------------------------------------------------------
(* The other threads.                                                      *)

Pause ==
  /\ running /\ ~paused /\ pauses < MaxPauses
  /\ paused' = TRUE /\ pauses' = pauses + 1
  /\ UNCHANGED <<mapVars, running, stopRequested, tNow, tLast, pc, walk, it, ran>>

Resume ==
  /\ running /\ paused
  /\ paused' = FALSE
  /\ UNCHANGED <<mapVars, running, stopRequested, pauses, tNow, tLast, pc, walk, it, ran>>

(* stop: the flag under the lock, then the stop token and the join.        *)
ClearRunning ==
  /\ running /\ running' = FALSE
  /\ UNCHANGED <<mapVars, paused, stopRequested, pauses, tNow, tLast, pc, walk, it, ran>>

RequestStop ==
  /\ ~running /\ pc # "none" /\ ~stopRequested
  /\ stopRequested' = TRUE
  /\ UNCHANGED <<mapVars, running, paused, pauses, tNow, tLast, pc, walk, it, ran>>

-------------------------------------------------------------------------------
(* The nodes' first events, at the times the blueprint gives them.         *)
Init ==
  /\ lateReplies \in BOOLEAN
  /\ \E d \in [1..NodeCount -> Steps] :
       events = {[id |-> 2 * n - 1, map |-> "stateTransitions", time |-> d[n]] : n \in 1..NodeCount}
           \cup {[id |-> 2 * n, map |-> "communicationSteps", time |-> d[n]] : n \in 1..NodeCount}
  /\ lastId = 2 * NodeCount
  /\ tNow = 0 /\ tLast = 0
  /\ running = FALSE /\ paused = FALSE /\ stopRequested = FALSE
  /\ pc = "none" /\ walk = 1 /\ it = End
  /\ ran = << >> /\ done = {} /\ pauses = 0

ClockThread ==
  LeaveAtGate \/ Advance \/ RunDue \/ PassPastCommunication \/ ErasePast
    \/ NextWalk \/ Settle \/ Throttle

Next == Start \/ ClockThread \/ Pause \/ Resume \/ ClearRunning \/ RequestStop

Spec == Init /\ [][Next]_vars

(* The clock thread runs; a stop, once begun, goes on to the join.         *)
FairSpec == Spec /\ WF_vars(ClockThread) /\ WF_vars(RequestStop)

-------------------------------------------------------------------------------
(* What the simulator counts on holds with its own handlers, that is with  *)
(* lateReplies FALSE; RunsOnce holds with any.                             *)

(* At the end of a tick no map holds an event of that tick or an earlier   *)
(* one, those scheduled during the tick included: the range moves on and   *)
(* would never reach them (run, Clock.cpp:73-84).                          *)
NoneLeftBehind ==
  ~lateReplies /\ pc \in {"settle", "throttle"} => \A e \in events : e.time > tNow

(* Within a tick nodes change state, then communicate, then start to be    *)
(* heard, then are received, each map in the order of time.                *)
PhasesInOrder ==
  lateReplies \/ \A i, j \in DOMAIN ran :
    i < j => \/ Rank(ran[i].map) < Rank(ran[j].map)
             \/ ran[i].map = ran[j].map /\ Before(ran[i], ran[j])

(* An event is run in the tick its time lies in: never early, never a tick *)
(* late (the comment "exclusive of start, inclusive of end").              *)
RunsInItsTick ==
  lateReplies \/ \A i \in DOMAIN ran : ran[i].time > RangeStart /\ ran[i].time <= tNow

(* No event is run twice, whatever callbacks insert while the map is       *)
(* walked.                                                                 *)
RunsOnce ==
  /\ \A x, y \in done : x[1] = y[1] => x = y
  /\ \A i, j \in DOMAIN ran : ran[i].id = ran[j].id => i = j

(* A stop returns whatever the thread is doing: paused, throttled or in    *)
(* the middle of a tick (join in Clock::stop).                             *)
StopReturns == (~lateReplies /\ ~running /\ pc # "none") ~> (pc = "ended")

(* Every event scheduled within the bound is run, unless the clock is      *)
(* paused or stopped.                                                      *)
EventsRun ==
  \A i \in 1..MaxEvents :
    (\E e \in events : e.id = i /\ e.time <= MaxTime)
      ~> (lateReplies \/ paused \/ ~running \/ \E x \in done : x[1] = i)
===============================================================================
