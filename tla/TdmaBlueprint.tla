---------------------------- MODULE TdmaBlueprint ----------------------------
(***************************************************************************)
(* The TDMA schedule: a master cycle cut into mode segments, and in each   *)
(* mode a pattern of window states per node class.  A node follows it by a *)
(* chain: an accepted transition queues the next one, and only that.  The  *)
(* module configures a blueprint the way a factory does, starts the chain  *)
(* of one node of each class and follows it over the cycle's wrap.         *)
(***************************************************************************)
EXTENDS Integers, Sequences, SequencesExt

CONSTANTS
  Modes,            \* TdmaMode
  HandledModes,     \* the modes a handler is registered for
  CycleMs,          \* masterCycleDurationMs
  SegmentChoices,   \* what defineMasterCycle may be called with
  PatternChoices,   \* [Modes \X Classes -> set of patterns], for setPatternForMode
  Horizon           \* bound: the chain is followed up to this time

Classes == {"C2", "C3"}
WindowState == {"CanTransmit", "CanListen", "CanSleep", "CanCommunicate"}
NodeState == {"Transmitting", "Listening", "Sleeping", "Communicating"}
Aborted == "aborted"   \* an exception leaves the launch or the clock thread,
Inconsistent == "inconsistent"  \* and this one says the blueprint is at fault
NoTime == -1
NoState == "none"

ASSUME CycleAssumption ==
  /\ CycleMs \in Nat \ {0}
  /\ HandledModes \subseteq Modes
  /\ SegmentChoices \subseteq Seq([mode : Modes, durationMs : Int])
  /\ PatternChoices \in
       [Modes \X Classes -> SUBSET Seq([state : WindowState, durationMs : Int])]
  /\ Horizon \in Nat

VARIABLES
  phase,            \* "configuring", "running", Aborted or Inconsistent
  timeline,         \* masterCycleTimeline: <<[mode, start, end], ...>>
  modePatterns,     \* a function of the <<mode, class>> that have a pattern
  now,              \* the clock
  currentState,     \* per class, the state of its node
  queued            \* per class, the transition in the clock: [time, state]

vars == <<phase, timeline, modePatterns, now, currentState, queued>>

(* The accumulated time: where the k-th step ends when the first begins at *)
(* 0; the whole of it is the duration.                                     *)
Elapsed(steps) ==
  LET upTo[k \in 0..Len(steps)] ==
        IF k = 0 THEN 0 ELSE upTo[k - 1] + steps[k].durationMs
  IN  upTo

Duration(steps) == Elapsed(steps)[Len(steps)]

-------------------------------------------------------------------------------
(* The blueprint's queries.                                                *)

TimeInCycle(t) == t % CycleMs
CycleStart(t) == (t \div CycleMs) * CycleMs

SegmentAt(t) ==
  timeline[CHOOSE i \in DOMAIN timeline :
             /\ TimeInCycle(t) >= timeline[i].start
             /\ TimeInCycle(t) < timeline[i].end]

HasPattern(t, c) == <<SegmentAt(t).mode, c>> \in DOMAIN modePatterns
PatternAt(t, c) == modePatterns[<<SegmentAt(t).mode, c>>]
TimeInSegment(t) == TimeInCycle(t) - SegmentAt(t).start
TimeInPattern(t, c) == TimeInSegment(t) % Duration(PatternAt(t, c))

(* getNextModeTransitionTime: the end of the segment, or the cycle's wrap. *)
NextModeTransition(t) == CycleStart(t) + SegmentAt(t).end

(* The step that time is in: the first whose end lies behind it.           *)
StepAt(t, c) ==
  CHOOSE k \in DOMAIN PatternAt(t, c) :
    /\ TimeInPattern(t, c) < Elapsed(PatternAt(t, c))[k]
    /\ TimeInPattern(t, c) >= Elapsed(PatternAt(t, c))[k - 1]

\* slip: the position in the pattern is counted from the start of the cycle
StateFromCycleStart(t, c) ==
  IF ~HasPattern(t, c) THEN NoState
  ELSE LET p == PatternAt(t, c)
           k == CHOOSE k \in DOMAIN p :
                  /\ TimeInCycle(t) % Duration(p) < Elapsed(p)[k]
                  /\ TimeInCycle(t) % Duration(p) >= Elapsed(p)[k - 1]
       IN  p[k].state

StateAt(t, c) ==
  IF HasPattern(t, c) THEN PatternAt(t, c)[StepAt(t, c)].state ELSE NoState

(* The end of the current step, counted from the start of the segment.     *)
StepEnd(t, c) ==
  TimeInSegment(t) - TimeInPattern(t, c) + Elapsed(PatternAt(t, c))[StepAt(t, c)]

\* slip: a step runs on past the end of its segment
NextTransitionPastSegment(t, c) ==
  IF HasPattern(t, c)
  THEN CycleStart(t) + SegmentAt(t).start + StepEnd(t, c)
  ELSE NoTime

(* tryGetNextTransitionTime: the end of the pattern step or, when the      *)
(* segment ends first, the mode transition.                                *)
NextTransition(t, c) ==
  CASE ~HasPattern(t, c) -> NoTime
    [] HasPattern(t, c) /\ StepEnd(t, c) >= SegmentAt(t).end - SegmentAt(t).start
         -> NextModeTransition(t)
    [] OTHER -> CycleStart(t) + SegmentAt(t).start + StepEnd(t, c)

-------------------------------------------------------------------------------
(* Configuration.                                                          *)

(* The segments must fill the cycle exactly.                               *)
Fills(segments) ==
  /\ \A i \in DOMAIN segments : segments[i].durationMs > 0
  /\ Duration(segments) = CycleMs

Laid(segments) ==
  [i \in DOMAIN segments |->
     [mode |-> segments[i].mode,
      start |-> Elapsed(segments)[i - 1],
      end |-> Elapsed(segments)[i]]]

DefineMasterCycle(segments) ==
  /\ phase = "configuring" /\ timeline = << >>
  /\ IF Fills(segments)
     THEN timeline' = Laid(segments) /\ UNCHANGED phase
     ELSE phase' = Aborted /\ UNCHANGED timeline
  /\ UNCHANGED <<modePatterns, now, currentState, queued>>

ValidPattern(pattern) ==
  /\ pattern # << >>
  /\ \A k \in DOMAIN pattern : pattern[k].durationMs > 0

SetPatternForMode(mode, c, pattern) ==
  /\ phase = "configuring" /\ timeline # << >>
  /\ <<mode, c>> \notin DOMAIN modePatterns
  /\ IF ValidPattern(pattern)
     THEN /\ modePatterns' = [k \in DOMAIN modePatterns \cup {<<mode, c>>} |->
                                IF k = <<mode, c>> THEN pattern
                                                   ELSE modePatterns[k]]
          /\ UNCHANGED phase
     ELSE phase' = Aborted /\ UNCHANGED modePatterns
  /\ UNCHANGED <<timeline, now, currentState, queued>>

-------------------------------------------------------------------------------
(* The chain of transitions.                                               *)

(* scheduleNextTransition at time t: nothing is queued in a mode without a *)
(* pattern; a transition into such a mode has no state and throws.         *)
Throws(t, c) ==
  /\ NextTransition(t, c) # NoTime
  /\ StateAt(NextTransition(t, c), c) = NoState

\* slip: the state of the current step is queued, not that of the next
ScheduledWithCurrentState(t, c) ==
  IF NextTransition(t, c) = NoTime THEN {}
  ELSE {[time |-> NextTransition(t, c), state |-> StateAt(t, c)]}

Scheduled(t, c) ==
  IF NextTransition(t, c) = NoTime THEN {}
  ELSE {[time |-> NextTransition(t, c),
         state |-> StateAt(NextTransition(t, c), c)]}

(* registerAllNodeFirstEvent: every node queues its first transition.      *)
RegisterAllNodeFirstEvent ==
  /\ phase = "configuring" /\ timeline # << >>
  /\ IF \E c \in Classes : Throws(0, c)
     THEN phase' = Inconsistent /\ UNCHANGED queued
     ELSE phase' = "running" /\ queued' = [c \in Classes |-> Scheduled(0, c)]
  /\ UNCHANGED <<timeline, modePatterns, now, currentState>>

\* slip: a C3 node told to sleep stays in the window's state
OutcomesStayingAwake(c, proposed, from) ==
  IF proposed = "CanSleep" THEN {from}
  ELSE IF proposed = "CanListen" THEN {"Listening"} ELSE {"Communicating"}

(* The transition functions of the RRC uplink handlers, as the states a    *)
(* proposal may leave the node in; an empty set is a refusal.  A C2 node   *)
(* decides by itself whether to wake up in a window.                       *)
Outcomes(c, proposed, from) ==
  CASE c = "C2" /\ proposed = "CanSleep" /\ from \in {"Sleeping", "Communicating"}
         -> {"Sleeping"}
    [] c = "C2" /\ proposed = "CanCommunicate" /\ from = "Sleeping"
         -> {"Sleeping", "Communicating"}
    [] c = "C3" /\ proposed = "CanSleep" /\ from \in {"Listening", "Transmitting"}
         -> {"Sleeping"}
    [] c = "C3" /\ proposed = "CanListen" /\ from = "Sleeping" -> {"Listening"}
    [] c = "C3" /\ proposed = "CanTransmit" /\ from = "Sleeping" -> {"Transmitting"}
    [] OTHER -> {}

Due(c) ==
  /\ phase = "running"
  /\ \E e \in queued[c] :
       \A d \in Classes : \A f \in queued[d] : e.time <= f.time

(* onTimeChange, by outcome.  getCurrentHandler throws in a mode that has  *)
(* no handler.                                                             *)
NoHandler(c) ==
  /\ Due(c)
  /\ \E e \in queued[c] :
       /\ e.time <= Horizon
       /\ SegmentAt(e.time).mode \notin HandledModes
       /\ now' = e.time
  /\ phase' = Aborted
  /\ UNCHANGED <<timeline, modePatterns, currentState, queued>>

Refuse(c) ==
  /\ Due(c)
  /\ \E e \in queued[c] :
       /\ e.time <= Horizon
       /\ SegmentAt(e.time).mode \in HandledModes
       /\ Outcomes(c, e.state, currentState[c]) = {}
       /\ now' = e.time
  /\ queued' = [queued EXCEPT ![c] = {}]
  /\ UNCHANGED <<phase, timeline, modePatterns, currentState>>

Accept(c) ==
  /\ Due(c)
  /\ \E e \in queued[c] :
       /\ e.time <= Horizon
       /\ SegmentAt(e.time).mode \in HandledModes
       /\ \E s \in Outcomes(c, e.state, currentState[c]) :
            currentState' = [currentState EXCEPT ![c] = s]
       /\ now' = e.time
       /\ IF Throws(e.time, c)
          THEN phase' = Inconsistent /\ queued' = [queued EXCEPT ![c] = {}]
          ELSE UNCHANGED phase
               /\ queued' = [queued EXCEPT ![c] = Scheduled(e.time, c)]
  /\ UNCHANGED <<timeline, modePatterns>>

-------------------------------------------------------------------------------
Init ==
  /\ phase = "configuring"
  /\ timeline = << >>
  /\ modePatterns = << >>
  /\ now = 0
  /\ currentState = [c \in Classes |-> "Sleeping"]
  /\ queued = [c \in Classes |-> {}]

Next ==
  \/ \E segments \in SegmentChoices : DefineMasterCycle(segments)
  \/ \E m \in Modes, c \in Classes : \E p \in PatternChoices[m, c] :
       SetPatternForMode(m, c, p)
  \/ RegisterAllNodeFirstEvent
  \/ \E c \in Classes : NoHandler(c) \/ Refuse(c) \/ Accept(c)

Spec == Init /\ [][Next]_vars

-------------------------------------------------------------------------------
(* Reference: the cycle unrolled, one label per millisecond, built by      *)
(* repeating the pattern from the start of each segment and cutting it     *)
(* where the segment ends.  Two milliseconds with one label belong to one  *)
(* run of one step.                                                        *)
Steps(pattern) ==
  FlattenSeq([k \in DOMAIN pattern |->
                [j \in 1..pattern[k].durationMs |->
                   [step |-> k, state |-> pattern[k].state]]])

Unrolled(segment, i, c) ==
  [j \in 1..(segment.end - segment.start) |->
     IF <<segment.mode, c>> \in DOMAIN modePatterns
     THEN LET ms == Steps(modePatterns[segment.mode, c])
              at == ms[((j - 1) % Len(ms)) + 1]
          IN  [segment |-> i, run |-> (j - 1) \div Len(ms), step |-> at.step,
               state |-> at.state]
     ELSE [segment |-> i, run |-> 0, step |-> 0, state |-> NoState]]

Layout(c) ==
  FlattenSeq([i \in DOMAIN timeline |-> Unrolled(timeline[i], i, c)])

LabelAt(t, c) == <<t \div CycleMs, Layout(c)[(t % CycleMs) + 1]>>

Started == phase = "running" /\ now = 0

(* The state a node is told for any time is the one the unrolled cycle     *)
(* holds there, whatever the segments and patterns (tryGetStateAt).        *)
StateMatchesLayout ==
  Started =>
    \A c \in Classes, t \in 0..(2 * CycleMs) : StateAt(t, c) = LabelAt(t, c)[2].state

(* The next transition is the first time at which the unrolled cycle       *)
(* changes label: no boundary of a step, a segment or the cycle is jumped  *)
(* over or invented (tryGetNextTransitionTime).                            *)
NextMatchesLayout ==
  Started =>
    \A c \in Classes, t \in 0..(2 * CycleMs) :
      HasPattern(t, c) =>
        /\ NextTransition(t, c) > t
        /\ LabelAt(NextTransition(t, c), c) # LabelAt(t, c)
        /\ \A u \in t..(NextTransition(t, c) - 1) : LabelAt(u, c) = LabelAt(t, c)

Wakeful(proposed) ==
  CASE proposed = "CanListen" -> "Listening"
    [] proposed = "CanTransmit" -> "Transmitting"
    [] proposed = "CanCommunicate" -> "Communicating"
    [] OTHER -> "Sleeping"

(* A node whose chain goes on is never awake in a window the schedule does *)
(* not give it: its state is the window's, or it sleeps.                   *)
AwakeInOwnWindowOnly ==
  \A c \in Classes :
    (phase = "running" /\ queued[c] # {} /\ ~Due(c)) =>
      currentState[c] \in {"Sleeping", Wakeful(StateAt(now, c))}

(* The segment that ends at t is not a whole number of patterns, or had    *)
(* none.                                                                   *)
CutAt(t, c) ==
  LET before == SegmentAt(t - 1)
  IN  /\ t > 0
      /\ TimeInCycle(t) = SegmentAt(t).start
      /\ \/ <<before.mode, c>> \notin DOMAIN modePatterns
         \/ (before.end - before.start)
              % Duration(modePatterns[before.mode, c]) # 0

(* The windows the handlers of a class know.                               *)
Windows(c) == IF c = "C2" THEN {"CanCommunicate"} ELSE {"CanListen", "CanTransmit"}

(* A pattern as SimonV1Factory writes them: sleep, a window, sleep, ...    *)
Alternates(pattern, c) ==
  /\ Len(pattern) % 2 = 0
  /\ \A k \in DOMAIN pattern :
       pattern[k].state \in IF k % 2 = 1 THEN {"CanSleep"} ELSE Windows(c)

WellFormed(c) ==
  \A m \in Modes :
    <<m, c>> \in DOMAIN modePatterns => Alternates(modePatterns[m, c], c)

(* With patterns that alternate sleep and window, the chain of a node ends *)
(* only where a segment cuts a pattern short: a schedule whose segments    *)
(* are whole numbers of patterns never freezes a node (onTimeChange queues *)
(* nothing after a refusal).                                               *)
RefusedOnlyAtCut ==
  \A c \in Classes :
    (phase = "running" /\ WellFormed(c) /\ HasPattern(0, c) /\ queued[c] = {})
      => \E t \in 1..now : CutAt(t, c)
===============================================================================
