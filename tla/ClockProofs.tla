--------------------------------- MODULE ClockProofs ----------------------------------
(***************************************************************************)
(* The two kinds of clock of the repository, each proved about on its own: *)
(* the clock thread of the simulator and the clocks of the synchronisation *)
(* firmware.  Neither part uses a variable, a constant or a lemma of the   *)
(* other.                                                                  *)
(***************************************************************************)
EXTENDS ClockEvents, ClockSync, FiniteSetTheorems, WellFoundedInduction, TLAPS

(***************************************************************************)
(* The clock thread, module ClockEvents.                                   *)
(*                                                                         *)
(* What a tick guarantees, for every tick period, every set of steps and   *)
(* airtimes and any number of nodes and events.  Two things make the walk  *)
(* of a map sound while callbacks insert into the four maps.  An insertion *)
(* has an id of its own, so that an event is its id (Identity); and the    *)
(* iterator is always at the first event left in the map under the walk,   *)
(* everything before it having been erased, as no handler schedules behind *)
(* the walk (WalkInv).                                                     *)
(***************************************************************************)
MapNames ==
  {"stateTransitions", "communicationSteps", "transmissionStarts", "transmissionEnds"}
Event == [id : Nat, map : MapNames, time : Nat]

ClockTypes ==
  /\ events \subseteq Event
  /\ lastId \in Nat /\ tNow \in Nat /\ walk \in 1..4
  /\ ran \in Seq(Event)
  /\ done \subseteq Nat \X Nat
  /\ pc = "none" => ran = <<>>

Identity ==
  /\ \A e, f \in events : e.id = f.id => e = f
  /\ \A e \in events : e.id <= lastId
  /\ \A x \in done : x[1] <= lastId
  /\ \A x \in done : \A e \in events : x[1] # e.id
  /\ \A i \in DOMAIN ran : <<ran[i].id, tNow>> \in done
  /\ pc = "walk" => it = End \/ (it \in events /\ it.map = Maps[walk])

AheadInv ==
  /\ pc # "walk" => \A e \in events : e.time > tNow
  /\ pc = "walk" =>
       /\ \A e \in events : e.time > RangeStart
       /\ \A e \in events : Rank(e.map) < walk => e.time > tNow
       /\ it = First(InMap(walk, events))

RanInv ==
  /\ pc = "walk" => \A i \in DOMAIN ran :
       /\ Rank(ran[i].map) <= walk
       /\ ran[i].map = Maps[walk] /\ it # End => Before(ran[i], it)
  /\ \A i \in DOMAIN ran : ran[i].time > RangeStart /\ ran[i].time <= tNow
  /\ \A i, j \in DOMAIN ran :
       i < j => \/ Rank(ran[i].map) < Rank(ran[j].map)
                \/ ran[i].map = ran[j].map /\ Before(ran[i], ran[j])

WalkInv == lateReplies \/ (AheadInv /\ RanInv)

IInv == ClockTypes /\ Identity /\ RunsOnce /\ WalkInv
-------------------------------------------------------------------------------
(* The maps and their ranks name each other.                               *)
LEMMA RankFacts ==
  /\ \A m \in MapNames : Rank(m) \in 1..4 /\ Maps[Rank(m)] = m
  /\ \A k \in 1..4 : Maps[k] \in MapNames /\ Rank(Maps[k]) = k
  /\ Rank("stateTransitions") = 1 /\ Rank("communicationSteps") = 2
  /\ Rank("transmissionStarts") = 3 /\ Rank("transmissionEnds") = 4
<1>1. /\ DOMAIN Maps = 1..4
      /\ Maps[1] = "stateTransitions" /\ Maps[2] = "communicationSteps"
      /\ Maps[3] = "transmissionStarts" /\ Maps[4] = "transmissionEnds"
  BY DEF Maps
<1>2. \A k \in 1..4 : Maps[k] \in MapNames
  BY <1>1 DEF MapNames
<1>3. \A j, k \in 1..4 : Maps[j] = Maps[k] => j = k
  BY <1>1
<1>4. ASSUME NEW k \in 1..4 PROVE Rank(Maps[k]) = k
  <2>1. \E j \in DOMAIN Maps : Maps[j] = Maps[k]
    BY <1>1
  <2>2. Rank(Maps[k]) \in 1..4 /\ Maps[Rank(Maps[k])] = Maps[k]
    BY <1>1, <2>1 DEF Rank
  <2>. QED BY <1>3, <2>2
<1>5. \A m \in MapNames : \E k \in 1..4 : m = Maps[k]
  BY <1>1 DEF MapNames
<1>6. \A m \in MapNames : Rank(m) \in 1..4 /\ Maps[Rank(m)] = m
  BY <1>4, <1>5
<1>7. Rank(Maps[1]) = 1 /\ Rank(Maps[2]) = 2 /\ Rank(Maps[3]) = 3 /\ Rank(Maps[4]) = 4
  BY <1>4
<1>. QED BY <1>1, <1>2, <1>4, <1>6, <1>7

(* A set of numbers that is not empty has a smallest element.              *)
LEMMA SmallestExists ==
  ASSUME NEW S, S \subseteq Nat, S # {}
  PROVE  \E n \in S : \A m \in S : n <= m
<1>1. PICK s \in S : TRUE
  OBVIOUS
<1>. DEFINE L == {m \in S : m <= s}
<1>. DEFINE Below(n) == {m \in L : m < n}
<1>. DEFINE B == {Below(n) : n \in L}
<1>2. IsFiniteSet(L)
  <2>1. L \in SUBSET Nat /\ s \in Nat /\ \A m \in L : m <= s
    BY <1>1
  <2>. QED BY <2>1, FS_BoundedSetOfNaturals
<1>3. B \subseteq FiniteSubsetsOf(L) /\ B # {}
  <2>1. \A n \in L : Below(n) \in SUBSET L
    OBVIOUS
  <2>2. B \subseteq SUBSET L
    BY <2>1
  <2>3. s \in L
    BY <1>1
  <2>4. Below(s) \in B
    BY <2>3
  <2>5. FiniteSubsetsOf(L) = SUBSET L
    BY <1>2, FS_FiniteSubsetsOfFinite
  <2>. QED BY <2>2, <2>4, <2>5
<1>4. PICK b \in B : \A c \in B : ~(<<c, b>> \in StrictSubsetOrdering(L))
  BY <1>3, WFMin, FS_StrictSubsetOrderingWellFounded
<1>5. PICK n \in L : b = Below(n)
  OBVIOUS
<1>6. ASSUME NEW m \in L, m < n PROVE FALSE
  <2>1. m \in Nat /\ n \in Nat /\ \A k \in Nat : k < m => k < n
    BY <1>6
  <2>2. Below(m) \subseteq Below(n) /\ m \in Below(n) /\ m \notin Below(m)
    <3>1. \A k \in L : k \in Nat
      OBVIOUS
    <3>2. ~(m < m)
      BY <2>1
    <3>. QED BY <1>6, <2>1, <3>1, <3>2
  <2>3. <<Below(m), Below(n)>> \in StrictSubsetOrdering(L)
    BY <2>2 DEF StrictSubsetOrdering
  <2>. QED BY <1>4, <1>5, <2>3
<1>7. \A m \in S : n <= m
  <2>. SUFFICES ASSUME NEW m \in S, m < n PROVE FALSE
    OBVIOUS
  <2>1. m \in L
    BY <1>1
  <2>. QED BY <1>6, <2>1
<1>. QED BY <1>7

(* The first event of a set that holds every id once comes before all      *)
(* others.                                                                 *)
LEMMA FirstIs ==
  ASSUME NEW es, es \subseteq Event, \A e, f \in es : e.id = f.id => e = f
  PROVE  /\ es = {} => First(es) = End
         /\ es # {} => /\ First(es) \in es
                       /\ \A f \in es : f # First(es) => Before(First(es), f)
<1>1. CASE es = {}
  BY <1>1 DEF First
<1>2. CASE es # {}
  <2>. DEFINE T == {e.time : e \in es}
  <2>1. PICK t \in T : \A u \in T : t <= u
    <3>1. T \subseteq Nat /\ T # {}
      BY <1>2 DEF Event
    <3>. HIDE DEF T
    <3>. QED BY <3>1, SmallestExists
  <2>. DEFINE I == {e.id : e \in {f \in es : f.time = t}}
  <2>2. PICK i \in I : \A j \in I : i <= j
    <3>1. I \subseteq Nat
      BY DEF Event
    <3>2. I # {}
      BY <2>1
    <3>. HIDE DEF I
    <3>. QED BY <3>1, <3>2, SmallestExists
  <2>3. PICK e \in es : e.time = t /\ e.id = i
    BY <2>2
  <2>4. ASSUME NEW f \in es \ {e} PROVE Before(e, f)
    <3>1. f.time \in Nat /\ f.id \in Nat /\ e.time \in Nat /\ e.id \in Nat /\ f.id # e.id
      BY DEF Event
    <3>2. t <= f.time
      BY <2>1
    <3>3. f.time = t => i <= f.id
      BY <2>2
    <3>. QED BY <2>3, <3>1, <3>2, <3>3 DEF Before
  <2>5. First(es) = CHOOSE g \in es : \A f \in es \ {g} : Before(g, f)
    BY <1>2 DEF First
  <2>6. First(es) \in es /\ \A f \in es \ {First(es)} : Before(First(es), f)
    BY <2>3, <2>4, <2>5
  <2>. QED BY <1>2, <2>6
<1>. QED BY <1>1, <1>2
(* What a callback schedules: nothing, one event, or one in each of two    *)
(* maps; and, the replies at the end of a reception apart, always in a map *)
(* walked later in this tick, or in a later tick.                          *)
LEMMA SchedulesShape ==
  ASSUME NEW m \in MapNames, NEW w \in Schedules(m), tNow \in Nat
  PROVE  /\ w \subseteq MapNames \X Nat
         /\ \/ w = {}
            \/ \E v \in w : w = {v}
            \/ \E u, v \in w : Rank(u[1]) < Rank(v[1]) /\ w = {u, v}
         /\ lateReplies \/ \A v \in w : /\ Rank(v[1]) > Rank(m) \/ v[2] > tNow
                                        /\ v[2] >= tNow
<1>. DEFINE Shape ==
       /\ w \subseteq MapNames \X Nat
       /\ \/ w = {}
          \/ \E v \in w : w = {v}
          \/ \E u, v \in w : Rank(u[1]) < Rank(v[1]) /\ w = {u, v}
     Ahead == \A v \in w : (Rank(v[1]) > Rank(m) \/ v[2] > tNow) /\ v[2] >= tNow
<1>1. ASSUME w \in TransitionSchedules PROVE Shape /\ Ahead
  <2>1. CASE w = {}
    BY <2>1
  <2>2. CASE \E d \in Steps :
               w = {<<"stateTransitions", tNow + d>>, <<"communicationSteps", tNow + d>>}
    <3>1. PICK d \in Steps :
            w = {<<"stateTransitions", tNow + d>>, <<"communicationSteps", tNow + d>>}
      BY <2>2
    <3>. DEFINE u == <<"stateTransitions", tNow + d>>
                v == <<"communicationSteps", tNow + d>>
    <3>2. tNow + d \in Nat /\ tNow + d > tNow
      BY ClockAssumption
    <3>3. u \in MapNames \X Nat /\ v \in MapNames \X Nat
      BY <3>2 DEF MapNames
    <3>4. Rank(u[1]) < Rank(v[1]) /\ u[2] > tNow /\ v[2] > tNow
      BY <3>2, RankFacts
    <3>5. Ahead
      BY <3>1, <3>2
    <3>. HIDE DEF u, v
    <3>6. w = {u, v}
      BY <3>1 DEF u, v
    <3>. QED BY <3>3, <3>4, <3>5, <3>6
  <2>. QED BY <1>1, <2>1, <2>2 DEF TransitionSchedules
<1>2. ASSUME w \in CommunicationSchedules PROVE Shape /\ (m = "communicationSteps" => Ahead)
  <2>1. CASE w = {}
    BY <2>1
  <2>2. CASE \E a \in Airtimes :
               w = {<<"transmissionStarts", tNow>>, <<"transmissionEnds", tNow + a>>}
    <3>1. PICK a \in Airtimes :
            w = {<<"transmissionStarts", tNow>>, <<"transmissionEnds", tNow + a>>}
      BY <2>2
    <3>. DEFINE u == <<"transmissionStarts", tNow>>
                v == <<"transmissionEnds", tNow + a>>
    <3>2. tNow + a \in Nat /\ tNow + a > tNow
      BY ClockAssumption
    <3>3. u \in MapNames \X Nat /\ v \in MapNames \X Nat
      BY <3>2 DEF MapNames
    <3>4. Rank(u[1]) = 3 /\ Rank(v[1]) = 4 /\ u[2] = tNow /\ v[2] > tNow
      BY <3>2, RankFacts
    <3>5. m = "communicationSteps" => Rank(m) = 2
      BY RankFacts
    <3>. HIDE DEF u, v
    <3>6. w = {u, v}
      BY <3>1 DEF u, v
    <3>7. m = "communicationSteps" => Ahead
      BY <3>2, <3>3, <3>4, <3>5, <3>6
    <3>. QED BY <3>3, <3>4, <3>6, <3>7
  <2>. QED BY <1>2, <2>1, <2>2 DEF CommunicationSchedules
<1>3. ASSUME w = {<<"communicationSteps", tNow>>} PROVE Shape
  <2>. DEFINE v == <<"communicationSteps", tNow>>
  <2>1. v \in MapNames \X Nat
    BY DEF MapNames
  <2>. HIDE DEF v
  <2>2. w = {v}
    BY <1>3 DEF v
  <2>. QED BY <2>1, <2>2
<1>4. CASE m = "stateTransitions"
  BY <1>1, <1>4 DEF Schedules
<1>5. CASE m = "communicationSteps"
  BY <1>2, <1>5 DEF Schedules
<1>6. CASE m = "transmissionStarts"
  <2>1. w = {}
    BY <1>6 DEF Schedules
  <2>. QED BY <2>1
<1>7. CASE m = "transmissionEnds"
  <2>1. CASE lateReplies
    <3>1. w \in CommunicationSchedules \/ w = {<<"communicationSteps", tNow>>}
      BY <1>7, <2>1 DEF Schedules
    <3>. QED BY <1>2, <1>3, <2>1, <3>1
  <2>2. CASE ~lateReplies
    <3>1. w = {}
      BY <1>7, <2>2 DEF Schedules
    <3>. QED BY <3>1
  <2>. QED BY <2>1, <2>2
<1>. QED BY <1>4, <1>5, <1>6, <1>7 DEF MapNames

(* Insertions have ids of their own, above all those given before.         *)
LEMMA InsertedFacts ==
  ASSUME NEW m \in MapNames, NEW w \in Schedules(m), tNow \in Nat, lastId \in Nat
  PROVE  /\ Cardinality(w) \in Nat
         /\ \A r \in Inserted(w) : /\ r \in Event
                                   /\ <<r.map, r.time>> \in w
                                   /\ r.id > lastId /\ r.id <= lastId + Cardinality(w)
         /\ \A r, s \in Inserted(w) : r.id = s.id => r = s
<1>. DEFINE UpTo(v) == {x \in w : Rank(x[1]) <= Rank(v[1])}
            New(v) == [id |-> lastId + Cardinality(UpTo(v)), map |-> v[1], time |-> v[2]]
<1>1. Inserted(w) = {New(v) : v \in w}
  BY DEF Inserted
<1>2. w \subseteq MapNames \X Nat
  BY SchedulesShape
<1>3. \A v \in w : Rank(v[1]) \in 1..4
  BY <1>2, RankFacts
<1>4. CASE w = {}
  <2>1. Cardinality(w) = 0
    BY <1>4, FS_EmptySet
  <2>. QED BY <1>1, <1>4, <2>1
<1>5. CASE \E v \in w : w = {v}
  <2>1. PICK v \in w : w = {v}
    BY <1>5
  <2>2. Cardinality(w) = 1
    BY <2>1, FS_Singleton
  <2>3. UpTo(v) = w
    BY <1>3, <2>1
  <2>. HIDE DEF UpTo
  <2>4. Inserted(w) = {[id |-> lastId + 1, map |-> v[1], time |-> v[2]]}
    BY <1>1, <2>1, <2>2, <2>3
  <2>5. v[1] \in MapNames /\ v[2] \in Nat /\ v = <<v[1], v[2]>>
    BY <1>2
  <2>. QED BY <2>2, <2>4, <2>5 DEF Event
<1>6. CASE \E u, v \in w : Rank(u[1]) < Rank(v[1]) /\ w = {u, v}
  <2>1. PICK u \in w, v \in w : Rank(u[1]) < Rank(v[1]) /\ w = {u, v}
    BY <1>6
  <2>2. u # v
    BY <1>3, <2>1
  <2>3. Cardinality({u}) = 1 /\ IsFiniteSet({u})
    BY FS_Singleton
  <2>4. Cardinality(w) = 2
    <3>1. w = {u} \cup {v} /\ v \notin {u}
      BY <2>1, <2>2
    <3>2. Cardinality({u} \cup {v}) = Cardinality({u}) + 1
      BY <2>3, <3>1, FS_AddElement
    <3>. QED BY <2>3, <3>1, <3>2
  <2>5. UpTo(u) = {u} /\ UpTo(v) = w
    BY <1>3, <2>1
  <2>. HIDE DEF UpTo
  <2>6. Inserted(w) = {[id |-> lastId + 1, map |-> u[1], time |-> u[2]],
                       [id |-> lastId + 2, map |-> v[1], time |-> v[2]]}
    BY <1>1, <2>1, <2>3, <2>4, <2>5
  <2>7. /\ u[1] \in MapNames /\ u[2] \in Nat /\ u = <<u[1], u[2]>>
        /\ v[1] \in MapNames /\ v[2] \in Nat /\ v = <<v[1], v[2]>>
    BY <1>2
  <2>. QED BY <2>4, <2>6, <2>7 DEF Event
<1>. QED BY <1>4, <1>5, <1>6, SchedulesShape
(* The iterator after an event: the first of those behind it in its map.   *)
LEMMA AfterIs ==
  ASSUME NEW es, es \subseteq Event, \A e, f \in es : e.id = f.id => e = f,
         NEW e \in Event
  PROVE  LET behind == {f \in es : f.map = e.map /\ Before(e, f)}
         IN  /\ behind = {} => After(e, es) = End
             /\ behind # {} => /\ After(e, es) \in behind
                               /\ \A f \in behind : f # After(e, es) => Before(After(e, es), f)
<1>. DEFINE behind == {f \in es : f.map = e.map /\ Before(e, f)}
<1>1. behind \subseteq es
  OBVIOUS
<1>2. behind \subseteq Event /\ \A f, g \in behind : f.id = g.id => f = g
  BY <1>1
<1>3. After(e, es) = First(behind)
  BY DEF After
<1>. HIDE DEF behind
<1>4. /\ behind = {} => First(behind) = End
      /\ behind # {} => /\ First(behind) \in behind
                        /\ \A f \in behind : f # First(behind) => Before(First(behind), f)
  BY <1>2, FirstIs
<1>. QED BY <1>3, <1>4 DEF behind

(* Before orders the events, and no event is map.end().                    *)
LEMMA BeforeOrders ==
  /\ \A e \in Event : ~Before(e, e) /\ e # End
  /\ \A e, f \in Event : Before(e, f) => e.time <= f.time /\ ~Before(f, e)
  /\ \A e, f, g \in Event : Before(e, f) /\ Before(f, g) => Before(e, g)
<1>1. \A e \in Event : e # End
  BY DEF Event, End, MapNames
<1>2. \A e \in Event : e.id \in Nat /\ e.time \in Nat
  BY DEF Event
<1>. QED BY <1>1, <1>2 DEF Before

-------------------------------------------------------------------------------
(* IInv is inductive: it holds at first, the nodes' first events having    *)
(* ids of their own and times after the start.                             *)
LEMMA InitEstablishes == Init => IInv
<1>. SUFFICES ASSUME Init PROVE IInv
  OBVIOUS
<1>1. PICK d \in [1..NodeCount -> Steps] :
        events = {[id |-> 2 * n - 1, map |-> "stateTransitions", time |-> d[n]] : n \in 1..NodeCount}
           \cup {[id |-> 2 * n, map |-> "communicationSteps", time |-> d[n]] : n \in 1..NodeCount}
  BY DEF Init
<1>2. \A n \in 1..NodeCount : d[n] \in Nat /\ d[n] > 0
  <2>1. \A n \in 1..NodeCount : d[n] \in Steps
    BY <1>1
  <2>2. \A x \in Steps : x \in Nat /\ x > 0
    BY ClockAssumption
  <2>. QED BY <2>1, <2>2
<1>3. \A e \in events : \E n \in 1..NodeCount :
        \/ e = [id |-> 2 * n - 1, map |-> "stateTransitions", time |-> d[n]]
        \/ e = [id |-> 2 * n, map |-> "communicationSteps", time |-> d[n]]
  BY <1>1
<1>4. \A n \in 1..NodeCount : n \in Nat /\ n >= 1 /\ n <= NodeCount
  BY ClockAssumption
<1>5. \A n, k \in Nat : 2 * n # 2 * k - 1 /\ (2 * n = 2 * k => n = k)
                        /\ (2 * n - 1 = 2 * k - 1 => n = k)
  OBVIOUS
<1>6. \A e \in events : e \in Event /\ e.id <= lastId /\ e.time > tNow
  <2>. TAKE e \in events
  <2>1. PICK n \in 1..NodeCount :
          \/ e = [id |-> 2 * n - 1, map |-> "stateTransitions", time |-> d[n]]
          \/ e = [id |-> 2 * n, map |-> "communicationSteps", time |-> d[n]]
    BY <1>3
  <2>2. lastId = 2 * NodeCount /\ tNow = 0
    BY DEF Init
  <2>3. 2 * n - 1 \in Nat /\ 2 * n \in Nat /\ 2 * n <= 2 * NodeCount /\ 2 * n - 1 <= 2 * NodeCount
    BY <1>4, ClockAssumption
  <2>4. e.map \in MapNames /\ e.time = d[n] /\ e.id \in {2 * n - 1, 2 * n}
        /\ e = [id |-> e.id, map |-> e.map, time |-> e.time]
    BY <2>1 DEF MapNames
  <2>. QED BY <1>2, <2>2, <2>3, <2>4 DEF Event
<1>7. \A e, f \in events : e.id = f.id => e = f
  <2>. SUFFICES ASSUME NEW e \in events, NEW f \in events, e.id = f.id PROVE e = f
    OBVIOUS
  <2>1. PICK n \in 1..NodeCount :
          \/ e = [id |-> 2 * n - 1, map |-> "stateTransitions", time |-> d[n]]
          \/ e = [id |-> 2 * n, map |-> "communicationSteps", time |-> d[n]]
    BY <1>3
  <2>2. PICK k \in 1..NodeCount :
          \/ f = [id |-> 2 * k - 1, map |-> "stateTransitions", time |-> d[k]]
          \/ f = [id |-> 2 * k, map |-> "communicationSteps", time |-> d[k]]
    BY <1>3
  <2>3. n \in Nat /\ k \in Nat
    BY <1>4
  <2>4. n = k
    BY <1>5, <2>1, <2>2, <2>3
  <2>5. 2 * n # 2 * n - 1
    BY <1>5, <2>3
  <2>. QED BY <2>1, <2>2, <2>4, <2>5
<1>8. ran = <<>> /\ done = {} /\ pc = "none" /\ walk = 1 /\ tNow = 0 /\ lastId = 2 * NodeCount
  BY DEF Init
<1>9. lastId \in Nat /\ DOMAIN ran = {} /\ ran \in Seq(Event)
  BY <1>8, ClockAssumption
<1>10. ClockTypes
  BY <1>6, <1>8, <1>9 DEF ClockTypes
<1>11. Identity /\ RunsOnce
  BY <1>6, <1>7, <1>8, <1>9 DEF Identity, RunsOnce
<1>12. AheadInv /\ RanInv
  BY <1>6, <1>8, <1>9 DEF AheadInv, RanInv
<1>. QED BY <1>10, <1>11, <1>12 DEF IInv, WalkInv
-------------------------------------------------------------------------------
(* Steps that touch neither the maps nor the walk.                         *)
Quiet ==
  /\ UNCHANGED <<lateReplies, events, lastId, tNow, walk, it, ran, done>>
  /\ pc' = pc \/ (pc # "walk" /\ pc' # "walk" /\ pc' # "none")

(* The steps that neither walk a map nor move the time: the gate, the      *)
(* pause flag, the end of a tick and the stop.                             *)
LEMMA QuietSteps ==
  LeaveAtGate \/ Settle \/ Throttle \/ Pause \/ Resume \/ ClearRunning \/ RequestStop
    \/ UNCHANGED vars
  => Quiet
BY DEF LeaveAtGate, Settle, Throttle, Pause, Resume, ClearRunning, RequestStop, vars, Quiet,
       mapVars, flagVars

(* They keep the invariant.                                                *)
LEMMA QuietPreserves == IInv /\ Quiet => IInv'
<1>. SUFFICES ASSUME IInv, Quiet PROVE IInv'
  OBVIOUS
<1>1. /\ lateReplies' = lateReplies /\ events' = events /\ lastId' = lastId /\ tNow' = tNow
      /\ walk' = walk /\ it' = it /\ ran' = ran /\ done' = done
  BY DEF Quiet
<1>2. pc' = pc \/ (pc # "walk" /\ pc' # "walk" /\ pc' # "none")
  BY DEF Quiet
<1>3. ClockTypes'
  BY <1>1, <1>2 DEF IInv, ClockTypes
<1>4. Identity' /\ RunsOnce'
  BY <1>1, <1>2 DEF IInv, Identity, RunsOnce
<1>5. CASE lateReplies
  BY <1>1, <1>3, <1>4, <1>5 DEF IInv, WalkInv
<1>6. CASE ~lateReplies
  <2>1. AheadInv /\ RanInv
    BY <1>6 DEF IInv, WalkInv
  <2>2. RangeStart' = RangeStart
    BY <1>1 DEF RangeStart
  <2>3. AheadInv'
    <3>1. CASE pc' = pc
      BY <1>1, <2>1, <2>2, <3>1 DEF AheadInv, InMap
    <3>2. CASE pc # "walk" /\ pc' # "walk"
      BY <1>1, <2>1, <3>2 DEF AheadInv
    <3>. QED BY <1>2, <3>1, <3>2
  <2>4. RanInv'
    BY <1>1, <1>2, <2>1, <2>2 DEF RanInv
  <2>. QED BY <1>3, <1>4, <2>3, <2>4 DEF IInv, WalkInv
<1>. QED BY <1>5, <1>6

(* The start: nothing has run, and no first event is at time zero.         *)
LEMMA StartPreserves == IInv /\ Start => IInv'
<1>. SUFFICES ASSUME IInv, Start PROVE IInv'
  OBVIOUS
<1>1. /\ lateReplies' = lateReplies /\ events' = events /\ lastId' = lastId /\ tNow' = 0
      /\ walk' = walk /\ ran' = ran /\ done' = done /\ pc = "none" /\ pc' = "gate"
  BY DEF Start
<1>2. ran = <<>> /\ tNow \in Nat /\ events \subseteq Event
  BY <1>1 DEF IInv, ClockTypes
<1>3. ClockTypes'
  BY <1>1, <1>2 DEF IInv, ClockTypes
<1>4. Identity' /\ RunsOnce'
  BY <1>1, <1>2 DEF IInv, Identity, RunsOnce
<1>5. CASE lateReplies
  BY <1>1, <1>3, <1>4, <1>5 DEF IInv, WalkInv
<1>6. CASE ~lateReplies
  <2>1. AheadInv
    BY <1>6 DEF IInv, WalkInv
  <2>2. \A e \in events : e.time \in Nat /\ e.time > tNow
    BY <1>1, <1>2, <2>1 DEF AheadInv, Event
  <2>3. AheadInv'
    BY <1>1, <1>2, <2>2 DEF AheadInv
  <2>4. RanInv'
    BY <1>1, <1>2 DEF RanInv
  <2>. QED BY <1>3, <1>4, <2>3, <2>4 DEF IInv, WalkInv
<1>. QED BY <1>5, <1>6

(* The iterator at the head of a map.                                      *)
LEMMA FirstInMap ==
  ASSUME ClockTypes, Identity, NEW k \in 1..4
  PROVE  LET f == First(InMap(k, events))
         IN  /\ f = End => InMap(k, events) = {}
             /\ f # End => /\ f \in events /\ f.map = Maps[k]
                           /\ \A e \in InMap(k, events) : e # f => Before(f, e)
<1>1. InMap(k, events) \subseteq events /\ events \subseteq Event
  BY DEF InMap, ClockTypes
<1>2. \A e, f \in InMap(k, events) : e.id = f.id => e = f
  BY <1>1 DEF Identity
<1>3. InMap(k, events) \subseteq Event
  BY <1>1
<1>4. /\ InMap(k, events) = {} => First(InMap(k, events)) = End
      /\ InMap(k, events) # {} =>
           /\ First(InMap(k, events)) \in InMap(k, events)
           /\ \A f \in InMap(k, events) :
                f # First(InMap(k, events)) => Before(First(InMap(k, events)), f)
  BY <1>2, <1>3, FirstIs
<1>5. \A e \in InMap(k, events) : e # End /\ e.map = Maps[k]
  BY <1>3, BeforeOrders DEF InMap
<1>. QED BY <1>1, <1>4, <1>5

(* A tick begins with nothing run, every event later than the tick before. *)
LEMMA AdvancePreserves == IInv /\ Advance => IInv'
<1>. SUFFICES ASSUME IInv, Advance PROVE IInv'
  OBVIOUS
<1>1. /\ lateReplies' = lateReplies /\ events' = events /\ lastId' = lastId
      /\ tNow' = tNow + Tick /\ pc = "gate" /\ pc' = "walk" /\ walk' = 1
      /\ it' = First(InMap(1, events)) /\ ran' = <<>> /\ done' = done
  BY DEF Advance, mapVars
<1>2. tNow \in Nat /\ Tick \in Nat /\ Tick > 0 /\ events \subseteq Event
  BY ClockAssumption DEF IInv, ClockTypes
<1>3. DOMAIN ran' = {} /\ ran' \in Seq(Event)
  BY <1>1
<1>4. ClockTypes'
  BY <1>1, <1>2, <1>3 DEF IInv, ClockTypes
<1>5. it' # End => it' \in events /\ it'.map = Maps[1]
  BY <1>1, FirstInMap DEF IInv
<1>6. Identity' /\ RunsOnce'
  BY <1>1, <1>3, <1>5 DEF IInv, Identity, RunsOnce
<1>7. CASE lateReplies
  BY <1>1, <1>4, <1>6, <1>7 DEF IInv, WalkInv
<1>8. CASE ~lateReplies
  <2>1. AheadInv
    BY <1>8 DEF IInv, WalkInv
  <2>2. \A e \in events : e.time > tNow
    BY <1>1, <2>1 DEF AheadInv
  <2>3. RangeStart' = tNow
    BY <1>1, <1>2 DEF RangeStart
  <2>4. \A e \in events : Rank(e.map) \in 1..4
    BY <1>2, RankFacts DEF Event
  <2>5. AheadInv'
    BY <1>1, <2>2, <2>3, <2>4 DEF AheadInv, InMap
  <2>6. RanInv'
    BY <1>3 DEF RanInv
  <2>. QED BY <1>4, <1>6, <2>5, <2>6 DEF IInv, WalkInv
<1>. QED BY <1>7, <1>8
(* The walk of a map ends when what is left in it lies after the tick.     *)
LEMMA NextWalkPreserves == IInv /\ NextWalk => IInv'
<1>. SUFFICES ASSUME IInv, NextWalk PROVE IInv'
  OBVIOUS
<1>1. /\ lateReplies' = lateReplies /\ events' = events /\ lastId' = lastId
      /\ tNow' = tNow /\ ran' = ran /\ done' = done /\ pc = "walk" /\ ~Within
  BY DEF NextWalk, mapVars
<1>2. \/ walk < 4 /\ walk' = walk + 1 /\ it' = First(InMap(walk + 1, events)) /\ pc' = pc
      \/ walk = 4 /\ walk' = walk /\ it' = it /\ pc' = "settle"
  <2>1. Len(Maps) = 4
    BY DEF Maps
  <2>2. walk \in 1..4
    BY DEF IInv, ClockTypes
  <2>. QED BY <2>1, <2>2 DEF NextWalk
<1>3. walk \in 1..4 /\ walk' \in 1..4 /\ tNow \in Nat /\ events \subseteq Event
  BY <1>2 DEF IInv, ClockTypes
<1>4. ClockTypes'
  BY <1>1, <1>2, <1>3 DEF IInv, ClockTypes
<1>5. pc' = "walk" => it' = End \/ (it' \in events /\ it'.map = Maps[walk'])
  <2>1. CASE pc' = "walk"
    <3>1. walk' = walk + 1 /\ it' = First(InMap(walk', events))
      BY <1>2, <2>1
    <3>. QED BY <1>3, <3>1, FirstInMap DEF IInv
  <2>. QED BY <2>1
<1>6. Identity' /\ RunsOnce'
  BY <1>1, <1>5 DEF IInv, Identity, RunsOnce
<1>7. CASE lateReplies
  BY <1>1, <1>4, <1>6, <1>7 DEF IInv, WalkInv
<1>8. CASE ~lateReplies
  <2>1. AheadInv /\ RanInv
    BY <1>8 DEF IInv, WalkInv
  <2>2. RangeStart' = RangeStart
    BY <1>1 DEF RangeStart
  <2>3. \A e \in events : /\ Rank(e.map) \in 1..4 /\ e.time \in Nat
                          /\ Rank(e.map) = walk => e.map = Maps[walk]
    BY <1>3, RankFacts DEF Event
  <2>4. \A e \in events : Rank(e.map) <= walk => e.time > tNow
    <3>. SUFFICES ASSUME NEW e \in events, Rank(e.map) <= walk PROVE e.time > tNow
      OBVIOUS
    <3>1. CASE Rank(e.map) < walk
      BY <1>1, <2>1, <3>1 DEF AheadInv
    <3>2. CASE Rank(e.map) = walk
      <4>1. e \in InMap(walk, events)
        BY <2>3, <3>2 DEF InMap
      <4>2. it = First(InMap(walk, events))
        BY <1>1, <2>1 DEF AheadInv
      <4>3. it # End /\ it \in events /\ (e # it => Before(it, e))
        BY <1>3, <4>1, <4>2, FirstInMap DEF IInv
      <4>4. it.time <= e.time
        BY <1>3, <2>3, <4>3, BeforeOrders
      <4>5. ~(it.time <= tNow)
        BY <1>1, <4>3 DEF Within
      <4>. QED BY <1>3, <2>3, <4>3, <4>4, <4>5
    <3>. QED BY <1>3, <2>3, <3>1, <3>2
  <2>5. AheadInv'
    <3>1. CASE pc' = "walk"
      <4>1. walk' = walk + 1 /\ it' = First(InMap(walk', events))
        BY <1>2, <3>1
      <4>2. \A e \in events : Rank(e.map) < walk' => Rank(e.map) <= walk
        BY <1>3, <2>3, <4>1
      <4>. QED BY <1>1, <2>1, <2>2, <2>4, <3>1, <4>1, <4>2 DEF AheadInv, InMap
    <3>2. CASE pc' # "walk"
      <4>1. walk = 4
        BY <1>1, <1>2, <3>2
      <4>. QED BY <1>1, <2>3, <2>4, <3>2, <4>1 DEF AheadInv
    <3>. QED BY <3>1, <3>2
  <2>6. RanInv'
    <3>1. \A i \in DOMAIN ran : ran[i] \in Event
      BY DEF IInv, ClockTypes
    <3>2. \A i \in DOMAIN ran : Rank(ran[i].map) \in 1..4 /\ Rank(ran[i].map) <= walk
      BY <1>1, <2>1, <3>1, RankFacts DEF RanInv, Event
    <3>3. pc' = "walk" => \A i \in DOMAIN ran :
            Rank(ran[i].map) <= walk' /\ ran[i].map # Maps[walk']
      <4>. SUFFICES ASSUME pc' = "walk", NEW i \in DOMAIN ran
                    PROVE  Rank(ran[i].map) <= walk' /\ ran[i].map # Maps[walk']
        OBVIOUS
      <4>1. walk' = walk + 1
        BY <1>2
      <4>2. Rank(Maps[walk']) = walk'
        BY <1>3, RankFacts
      <4>3. Rank(ran[i].map) < walk'
        BY <1>3, <3>2, <4>1
      <4>. QED BY <1>3, <3>2, <4>2, <4>3
    <3>. QED BY <1>1, <2>1, <2>2, <3>3 DEF RanInv
  <2>. QED BY <1>4, <1>6, <2>5, <2>6 DEF IInv, WalkInv
<1>. QED BY <1>7, <1>8

(* A past event met in the walk, which only late replies leave, is passed  *)
(* over.                                                                   *)
LEMMA PassPastPreserves == IInv /\ PassPastCommunication => IInv'
<1>. SUFFICES ASSUME IInv, PassPastCommunication PROVE IInv'
  OBVIOUS
<1>1. /\ lateReplies' = lateReplies /\ events' = events /\ lastId' = lastId
      /\ tNow' = tNow /\ walk' = walk /\ ran' = ran /\ done' = done
      /\ pc = "walk" /\ pc' = "walk"
      /\ Within /\ it.time <= RangeStart /\ it' = After(it, events)
  BY DEF PassPastCommunication, mapVars
<1>2. it \in events /\ it.map = Maps[walk] /\ events \subseteq Event
  BY <1>1 DEF IInv, Identity, ClockTypes, Within
<1>3. it' = End \/ (it' \in events /\ it'.map = Maps[walk])
  BY <1>1, <1>2, AfterIs DEF IInv, Identity
<1>4. ClockTypes'
  BY <1>1 DEF IInv, ClockTypes
<1>5. Identity' /\ RunsOnce'
  BY <1>1, <1>3 DEF IInv, Identity, RunsOnce
<1>6. lateReplies
  <2>. SUFFICES ASSUME ~lateReplies PROVE FALSE
    OBVIOUS
  <2>1. it.time > RangeStart
    BY <1>1, <1>2 DEF IInv, WalkInv, AheadInv
  <2>2. it.time \in Nat /\ RangeStart \in Int
    BY <1>2, ClockAssumption DEF IInv, ClockTypes, Event, RangeStart
  <2>. QED BY <1>1, <2>1, <2>2
<1>. QED BY <1>1, <1>4, <1>5, <1>6 DEF IInv, WalkInv

(* One more event at the end of what has run.                              *)
LEMMA AppendFacts ==
  ASSUME NEW r \in Seq(Event), NEW e \in Event
  PROVE  /\ Append(r, e) \in Seq(Event)
         /\ DOMAIN Append(r, e) = DOMAIN r \cup {Len(r) + 1}
         /\ Len(r) + 1 \notin DOMAIN r
         /\ Append(r, e)[Len(r) + 1] = e
         /\ \A i \in DOMAIN r : Append(r, e)[i] = r[i] /\ i < Len(r) + 1 /\ i \in Nat
OBVIOUS

(* An event that leaves the maps as it runs has not run before.            *)
LEMMA RanOnce ==
  ASSUME IInv, NEW e \in events,
         ran' = Append(ran, e), done' = done \cup {<<e.id, tNow>>}, tNow' = tNow,
         \A f \in events' : f.id # e.id /\ (f \in events \/ f.id > lastId)
  PROVE  /\ done' \subseteq Nat \X Nat /\ ran' \in Seq(Event)
         /\ \A x \in done' : x[1] <= lastId /\ \A f \in events' : x[1] # f.id
         /\ \A i \in DOMAIN ran' : <<ran'[i].id, tNow'>> \in done'
         /\ RunsOnce'
<1>1. e \in Event /\ e.id \in Nat /\ tNow \in Nat /\ lastId \in Nat /\ e.id <= lastId
  BY DEF IInv, ClockTypes, Identity, Event
<1>2. /\ ran' \in Seq(Event) /\ DOMAIN ran' = DOMAIN ran \cup {Len(ran) + 1}
      /\ Len(ran) + 1 \notin DOMAIN ran /\ ran'[Len(ran) + 1] = e
      /\ \A i \in DOMAIN ran : ran'[i] = ran[i]
  BY <1>1, AppendFacts DEF IInv, ClockTypes
<1>3. \A x \in done : x[1] \in Nat /\ x[1] <= lastId /\ x[1] # e.id
  BY DEF IInv, ClockTypes, Identity
<1>4. done' \subseteq Nat \X Nat
  BY <1>1 DEF IInv, ClockTypes
<1>5. \A x \in done' : x[1] <= lastId /\ \A f \in events' : x[1] # f.id
  <2>. SUFFICES ASSUME NEW x \in done' PROVE x[1] <= lastId /\ \A f \in events' : x[1] # f.id
    OBVIOUS
  <2>1. CASE x \in done
    <3>1. \A f \in events : x[1] # f.id
      BY <2>1 DEF IInv, Identity
    <3>2. \A f \in events' : f.id > lastId => x[1] # f.id
      BY <1>1, <1>3, <2>1
    <3>. QED BY <1>3, <2>1, <3>1, <3>2
  <2>2. CASE x = <<e.id, tNow>>
    BY <1>1, <2>2
  <2>. QED BY <2>1, <2>2
<1>6. \A i \in DOMAIN ran' : <<ran'[i].id, tNow'>> \in done'
  BY <1>2 DEF IInv, Identity
<1>7. RunsOnce'
  <2>1. \A x, y \in done' : x[1] = y[1] => x = y
    BY <1>3 DEF IInv, RunsOnce
  <2>2. \A i \in DOMAIN ran : ran[i].id # e.id
    BY <1>3 DEF IInv, Identity
  <2>3. \A i, j \in DOMAIN ran' : ran'[i].id = ran'[j].id => i = j
    BY <1>2, <2>2 DEF IInv, RunsOnce
  <2>. QED BY <2>1, <2>3 DEF RunsOnce
<1>. QED BY <1>2, <1>4, <1>5, <1>6, <1>7
(* So is one in the three other maps, with the one behind it, which may be *)
(* run.                                                                    *)
LEMMA ErasePastPreserves == IInv /\ ErasePast => IInv'
<1>. SUFFICES ASSUME IInv, ErasePast PROVE IInv'
  OBVIOUS
<1>. DEFINE next == After(it, events)
            left == events \ {it}
<1>1. /\ lateReplies' = lateReplies /\ tNow' = tNow /\ walk' = walk /\ lastId' = lastId
      /\ pc = "walk" /\ Within /\ it.time <= RangeStart
  BY DEF ErasePast
<1>2. \/ /\ events' = left /\ ran' = ran /\ done' = done /\ pc' = "undefined"
      \/ /\ next # End /\ events' = left /\ it' = After(next, left)
         /\ ran' = ran /\ done' = done /\ pc' = pc
      \/ /\ next # End /\ events' = left \ {next} /\ it' = After(next, left)
         /\ ran' = Append(ran, next) /\ done' = done \cup {<<next.id, tNow>>} /\ pc' = pc
  BY DEF ErasePast
<1>3. it \in events /\ it.map = Maps[walk] /\ events \subseteq Event
  BY <1>1 DEF IInv, Identity, ClockTypes, Within
<1>4. \A e, f \in events : e.id = f.id => e = f
  BY DEF IInv, Identity
<1>5. next # End => next \in left /\ next.map = Maps[walk]
  <2>1. next # End => next \in events /\ next.map = it.map /\ Before(it, next)
    BY <1>3, <1>4, AfterIs
  <2>. QED BY <1>3, <2>1, BeforeOrders
<1>6. next # End =>
        After(next, left) = End
        \/ (After(next, left) \in left \ {next} /\ After(next, left).map = Maps[walk])
  <2>. SUFFICES ASSUME next # End
                PROVE  After(next, left) = End
                       \/ (After(next, left) \in left \ {next}
                           /\ After(next, left).map = Maps[walk])
    OBVIOUS
  <2>. HIDE DEF next
  <2>1. left \subseteq Event /\ (\A e, f \in left : e.id = f.id => e = f) /\ next \in Event
    BY <1>3, <1>4, <1>5
  <2>2. After(next, left) = End
        \/ (After(next, left) \in left /\ After(next, left).map = next.map
            /\ Before(next, After(next, left)))
    BY <2>1, AfterIs
  <2>. QED BY <1>5, <2>1, <2>2, BeforeOrders
<1>7. events' \subseteq events
  BY <1>2
<1>8. pc' = "walk" => it' = End \/ (it' \in events' /\ it'.map = Maps[walk'])
  BY <1>1, <1>2, <1>6
<1>. HIDE DEF next
<1>9. ClockTypes' /\ Identity' /\ RunsOnce'
  <2>1. CASE ran' = ran /\ done' = done
    <3>1. ClockTypes'
      BY <1>1, <1>2, <1>7, <2>1 DEF IInv, ClockTypes
    <3>2. Identity' /\ RunsOnce'
      BY <1>1, <1>7, <1>8, <2>1 DEF IInv, Identity, RunsOnce
    <3>. QED BY <3>1, <3>2
  <2>2. CASE /\ next # End /\ events' = left \ {next} /\ pc' = pc
             /\ ran' = Append(ran, next) /\ done' = done \cup {<<next.id, tNow>>}
    <3>1. \A f \in events' : f.id # next.id /\ f \in events
      BY <1>4, <1>5, <2>2
    <3>2. /\ done' \subseteq Nat \X Nat /\ ran' \in Seq(Event)
          /\ \A x \in done' : x[1] <= lastId /\ \A f \in events' : x[1] # f.id
          /\ \A i \in DOMAIN ran' : <<ran'[i].id, tNow'>> \in done'
          /\ RunsOnce'
      BY <1>1, <1>5, <2>2, <3>1, RanOnce
    <3>3. ClockTypes'
      BY <1>1, <1>7, <2>2, <3>2 DEF IInv, ClockTypes
    <3>4. Identity'
      BY <1>1, <1>7, <1>8, <3>2 DEF IInv, Identity
    <3>. QED BY <3>2, <3>3, <3>4
  <2>. QED BY <1>2, <2>1, <2>2
<1>10. lateReplies
  <2>. SUFFICES ASSUME ~lateReplies PROVE FALSE
    OBVIOUS
  <2>1. it.time > RangeStart
    BY <1>1, <1>3 DEF IInv, WalkInv, AheadInv
  <2>2. it.time \in Nat /\ RangeStart \in Int
    BY <1>3, ClockAssumption DEF IInv, ClockTypes, Event, RangeStart
  <2>. QED BY <1>1, <2>1, <2>2
<1>. QED BY <1>1, <1>9, <1>10 DEF IInv, WalkInv

(* An event that is due: it runs, its callback inserts, it is erased.      *)
LEMMA RunDuePreserves == IInv /\ RunDue => IInv'
<1>. SUFFICES ASSUME IInv, RunDue PROVE IInv'
  OBVIOUS
<1>1. /\ lateReplies' = lateReplies /\ tNow' = tNow /\ walk' = walk
      /\ pc = "walk" /\ pc' = "walk" /\ Within /\ it.time > RangeStart /\ Run(it)
  BY DEF RunDue
<1>2. it \in events /\ it.map = Maps[walk] /\ it # End /\ events \subseteq Event
  BY <1>1 DEF IInv, Identity, ClockTypes, Within
<1>3. PICK w \in Schedules(it.map) :
        /\ events' = (events \cup Inserted(w)) \ {it}
        /\ lastId' = lastId + Cardinality(w)
        /\ it' = After(it, events')
        /\ ran' = Append(ran, it)
        /\ done' = done \cup {<<it.id, tNow>>}
  BY <1>1 DEF Run
<1>4. /\ it.map \in MapNames /\ it \in Event /\ it.time \in Nat
      /\ tNow \in Nat /\ lastId \in Nat /\ walk \in 1..4
  BY <1>2 DEF IInv, ClockTypes, Event
<1>. DEFINE new == Inserted(w)
            count == Cardinality(w)
<1>5. /\ count \in Nat
      /\ \A r \in new : /\ r \in Event
                        /\ <<r.map, r.time>> \in w
                        /\ r.id > lastId /\ r.id <= lastId + count
      /\ \A r, s \in new : r.id = s.id => r = s
  BY <1>4, InsertedFacts
<1>5a. events' = (events \cup new) \ {it} /\ lastId' = lastId + count
  BY <1>3
<1>. HIDE DEF new, count
<1>6. \A e \in events : e.id \in Nat /\ e.id <= lastId
  BY <1>2 DEF IInv, Identity, Event
<1>7. \A e \in new : e.id \in Nat
  BY <1>5 DEF Event
<1>8. events' \subseteq Event /\ lastId' \in Nat /\ lastId <= lastId'
  <2>1. lastId' \in Nat /\ lastId <= lastId'
    BY <1>4, <1>5, <1>5a
  <2>. QED BY <1>2, <1>5, <1>5a, <2>1
<1>9. \A e \in events' : e.id <= lastId' /\ e # it /\ (e \in events \/ e \in new)
  <2>1. \A e \in new : e.id <= lastId'
    BY <1>5, <1>5a
  <2>2. \A e \in events : e.id <= lastId'
    BY <1>4, <1>6, <1>8
  <2>. QED BY <1>5a, <2>1, <2>2
<1>10. \A e, f \in events' : e.id = f.id => e = f
  <2>. SUFFICES ASSUME NEW e \in events', NEW f \in events', e.id = f.id PROVE e = f
    OBVIOUS
  <2>1. CASE e \in events /\ f \in events
    BY <2>1 DEF IInv, Identity
  <2>2. CASE e \in new /\ f \in new
    BY <1>5, <2>2
  <2>3. ~(e \in events /\ f \in new) /\ ~(f \in events /\ e \in new)
    <3>1. ASSUME NEW x \in events, NEW y \in new PROVE x.id # y.id
      <4>1. x.id \in Nat /\ x.id <= lastId /\ y.id \in Nat /\ y.id > lastId
        BY <1>5, <1>6, <1>7
      <4>. QED BY <1>4, <4>1
    <3>. QED BY <3>1
  <2>. QED BY <1>9, <2>1, <2>2, <2>3
<1>11. \A f \in events' : f.id # it.id /\ (f \in events \/ f.id > lastId)
  <2>. SUFFICES ASSUME NEW f \in events' PROVE f.id # it.id /\ (f \in events \/ f.id > lastId)
    OBVIOUS
  <2>1. CASE f \in events
    BY <1>2, <1>9, <2>1 DEF IInv, Identity
  <2>2. CASE f \in new
    <3>1. it.id <= lastId /\ it.id \in Nat /\ f.id > lastId /\ f.id \in Nat
      BY <1>2, <1>5, <1>6, <1>7, <2>2
    <3>. QED BY <1>4, <3>1
  <2>. QED BY <1>9, <2>1, <2>2
<1>12. /\ done' \subseteq Nat \X Nat /\ ran' \in Seq(Event)
       /\ \A x \in done' : x[1] <= lastId /\ \A f \in events' : x[1] # f.id
       /\ \A i \in DOMAIN ran' : <<ran'[i].id, tNow'>> \in done'
       /\ RunsOnce'
  BY <1>1, <1>2, <1>3, <1>11, RanOnce
<1>13. ClockTypes'
  BY <1>1, <1>8, <1>12 DEF IInv, ClockTypes
<1>14. \A x \in done' : x[1] <= lastId'
  <2>1. \A x \in done' : x[1] \in Nat /\ x[1] <= lastId
    BY <1>12
  <2>. QED BY <1>4, <1>8, <2>1
<1>15. it' = End \/ (it' \in events' /\ it'.map = Maps[walk] /\ Before(it, it'))
  BY <1>2, <1>3, <1>4, <1>8, <1>10, AfterIs
<1>16. Identity'
  BY <1>1, <1>9, <1>10, <1>12, <1>14, <1>15 DEF Identity
<1>17. CASE lateReplies
  BY <1>1, <1>12, <1>13, <1>16, <1>17 DEF IInv, WalkInv
<1>18. CASE ~lateReplies
  <2>1. AheadInv /\ RanInv
    BY <1>18 DEF IInv, WalkInv
  <2>2. RangeStart' = RangeStart /\ RangeStart \in Int /\ RangeStart < tNow /\ it.time <= tNow
    BY <1>1, <1>4, ClockAssumption DEF RangeStart, Within
  <2>3. Rank(it.map) = walk
    BY <1>2, <1>4, RankFacts
  <2>4. \A r \in new : /\ (Rank(r.map) > walk \/ r.time > tNow)
                         /\ r.time >= tNow /\ r.time \in Nat
                         /\ Rank(r.map) \in 1..4
    <3>1. \A v \in w : (Rank(v[1]) > Rank(it.map) \/ v[2] > tNow) /\ v[2] >= tNow
      BY <1>4, <1>18, SchedulesShape
    <3>. SUFFICES ASSUME NEW r \in new
                  PROVE  /\ Rank(r.map) > walk \/ r.time > tNow
                         /\ r.time >= tNow /\ r.time \in Nat
                         /\ Rank(r.map) \in 1..4
      OBVIOUS
    <3>2. r.map \in MapNames /\ r.time \in Nat /\ <<r.map, r.time>> \in w
      BY <1>5 DEF Event
    <3>. QED BY <2>3, <3>1, <3>2, RankFacts
  <2>5. InMap(walk, events') = {f \in events' : f.map = it.map /\ Before(it, f)}
    <3>. SUFFICES ASSUME NEW f \in events', f.map = Maps[walk] PROVE Before(it, f)
      BY <1>2 DEF InMap
    <3>1. CASE f \in events
      <4>1. f \in InMap(walk, events) /\ it = First(InMap(walk, events))
        BY <1>1, <2>1, <3>1 DEF InMap, AheadInv
      <4>2. f # it
        BY <1>9
      <4>. QED BY <1>2, <1>4, <4>1, <4>2, FirstInMap DEF IInv
    <3>2. CASE f \in new
      <4>1. Rank(f.map) = walk
        BY <1>4, RankFacts
      <4>2. f.time > tNow
        BY <1>4, <2>4, <3>2, <4>1
      <4>. QED BY <1>4, <2>2, <2>4, <3>2, <4>2 DEF Before
    <3>. QED BY <1>9, <3>1, <3>2
  <2>6. it' = First(InMap(walk, events'))
    BY <1>3, <2>5 DEF After
  <2>7. \A e \in events' : e.time > RangeStart
    <3>1. \A e \in new : e.time > RangeStart
      BY <1>4, <2>2, <2>4
    <3>. QED BY <1>1, <1>9, <2>1, <3>1 DEF AheadInv
  <2>8. \A e \in events' : Rank(e.map) < walk => e.time > tNow
    <3>1. \A e \in new : Rank(e.map) < walk => e.time > tNow
      BY <1>4, <2>4
    <3>. QED BY <1>1, <1>9, <2>1, <3>1 DEF AheadInv
  <2>9. AheadInv'
    BY <1>1, <2>2, <2>6, <2>7, <2>8 DEF AheadInv, InMap
  <2>10. /\ DOMAIN ran' = DOMAIN ran \cup {Len(ran) + 1}
         /\ Len(ran) + 1 \notin DOMAIN ran /\ ran'[Len(ran) + 1] = it
         /\ \A i \in DOMAIN ran : ran'[i] = ran[i] /\ i < Len(ran) + 1 /\ i \in Nat
         /\ Len(ran) + 1 \in Nat
    BY <1>3, <1>4, AppendFacts DEF IInv, ClockTypes
  <2>11. \A i \in DOMAIN ran : /\ ran[i] \in Event /\ Rank(ran[i].map) \in 1..4
                               /\ Rank(ran[i].map) <= walk
                               /\ ran[i].map = Maps[walk] => Before(ran[i], it)
                               /\ Rank(ran[i].map) = walk => ran[i].map = Maps[walk]
    <3>. SUFFICES ASSUME NEW i \in DOMAIN ran
                  PROVE  /\ ran[i] \in Event /\ Rank(ran[i].map) \in 1..4
                         /\ Rank(ran[i].map) <= walk
                         /\ ran[i].map = Maps[walk] => Before(ran[i], it)
                         /\ Rank(ran[i].map) = walk => ran[i].map = Maps[walk]
      OBVIOUS
    <3>1. ran[i] \in Event
      BY DEF IInv, ClockTypes
    <3>2. ran[i].map \in MapNames
      BY <3>1 DEF Event
    <3>. QED BY <1>1, <1>2, <2>1, <3>1, <3>2, RankFacts DEF RanInv
  <2>12. \A i \in DOMAIN ran' :
           /\ Rank(ran'[i].map) <= walk
           /\ ran'[i].map = Maps[walk] /\ it' # End => Before(ran'[i], it')
    <3>1. it' # End => it' \in Event /\ Before(it, it')
      BY <1>8, <1>15
    <3>2. \A i \in DOMAIN ran :
            ran[i].map = Maps[walk] /\ it' # End => Before(ran[i], it')
      BY <1>4, <2>11, <3>1, BeforeOrders
    <3>3. Rank(it.map) <= walk
      BY <1>4, <2>3
    <3>. QED BY <2>10, <2>11, <3>1, <3>2, <3>3
  <2>13. \A i \in DOMAIN ran' : ran'[i].time > RangeStart /\ ran'[i].time <= tNow
    BY <1>1, <2>1, <2>2, <2>10 DEF RanInv
  <2>14. \A i, j \in DOMAIN ran' :
           i < j => \/ Rank(ran'[i].map) < Rank(ran'[j].map)
                    \/ ran'[i].map = ran'[j].map /\ Before(ran'[i], ran'[j])
    <3>. SUFFICES ASSUME NEW i \in DOMAIN ran', NEW j \in DOMAIN ran', i < j
                  PROVE  \/ Rank(ran'[i].map) < Rank(ran'[j].map)
                         \/ ran'[i].map = ran'[j].map /\ Before(ran'[i], ran'[j])
      OBVIOUS
    <3>1. i \in DOMAIN ran
      <4>1. DOMAIN ran = 1..Len(ran) /\ Len(ran) \in Nat
        BY DEF IInv, ClockTypes
      <4>. QED BY <2>10, <4>1
    <3>2. CASE j \in DOMAIN ran
      BY <2>1, <2>10, <3>1, <3>2 DEF RanInv
    <3>3. CASE j = Len(ran) + 1
      <4>1. ran'[i] = ran[i] /\ ran'[j] = it
        BY <2>10, <3>1, <3>3
      <4>2. CASE Rank(ran[i].map) = walk
        BY <1>2, <2>11, <3>1, <4>1, <4>2
      <4>3. CASE Rank(ran[i].map) < walk
        BY <2>3, <4>1, <4>3
      <4>. QED BY <1>4, <2>11, <3>1, <4>2, <4>3
    <3>. QED BY <2>10, <3>2, <3>3
  <2>15. RanInv'
    BY <1>1, <2>2, <2>12, <2>13, <2>14 DEF RanInv
  <2>. QED BY <1>12, <1>13, <1>16, <2>9, <2>15 DEF IInv, WalkInv
<1>. QED BY <1>17, <1>18

(* Every step keeps it.                                                    *)
LEMMA StepPreserves == IInv /\ [Next]_vars => IInv'
BY QuietSteps, QuietPreserves, StartPreserves, AdvancePreserves, RunDuePreserves,
   PassPastPreserves, ErasePastPreserves, NextWalkPreserves
   DEF Next, ClockThread

-------------------------------------------------------------------------------
(* The invariant above holds of every clock.                               *)
THEOREM ClockInvariant == Spec => []IInv
BY InitEstablishes, StepPreserves, PTL DEF Spec

(* Whatever the handlers schedule, nothing is left behind a tick: at its   *)
(* end every event of a map lies later (Clock.cpp:73-84).                  *)
THEOREM NoneLeftBehindAlways == Spec => []NoneLeftBehind
<1>1. IInv => NoneLeftBehind
  BY DEF IInv, WalkInv, AheadInv, NoneLeftBehind
<1>. QED BY <1>1, ClockInvariant, PTL

(* Within a tick the maps run in their order, each in the order of time.   *)
THEOREM PhasesInOrderAlways == Spec => []PhasesInOrder
<1>1. IInv => PhasesInOrder
  BY DEF IInv, WalkInv, RanInv, PhasesInOrder
<1>. QED BY <1>1, ClockInvariant, PTL

(* Every event that runs, runs in the tick its time lies in.               *)
THEOREM RunsInItsTickAlways == Spec => []RunsInItsTick
<1>1. IInv => RunsInItsTick
  BY DEF IInv, WalkInv, RanInv, RunsInItsTick
<1>. QED BY <1>1, ClockInvariant, PTL

(* No event runs twice, also when callbacks insert behind the walk.        *)
THEOREM RunsOnceAlways == Spec => []RunsOnce
<1>1. IInv => RunsOnce
  BY DEF IInv
<1>. QED BY <1>1, ClockInvariant, PTL

(***************************************************************************)
(* The clocks of the firmware, module ClockSync.                           *)
(*                                                                         *)
(* The lag of the clock synchronisation, for a chain of any length, any    *)
(* time on air and any width of the counter: a slave whose times all came  *)
(* from the master is behind it by one time on air for each relay between, *)
(* across every wrap of every counter, lost packet and reboot.             *)
(*                                                                         *)
(* All is said modulo Wrap.  What a packet on air says of the master's     *)
(* clock (PacketInv) becomes what the slave that takes it knows of it      *)
(* (SyncInv), and that what its own packets say.                           *)
(***************************************************************************)
\* the same reading of a counter that wraps
Congruent(x, y) == x % Wrap = y % Wrap

\* what the master's clock is ahead of device d + 1, and of the packets of d
Delay(d) == d * AirTime

Packets == [left : 0..AirTime, time : Times, ears : SUBSET Chain, foreign : BOOLEAN]

SyncTypeInv ==
  /\ millis \in [Devices -> Times]
  /\ lastSyncTime \in [Chain -> Times] /\ lastMasterTime \in [Chain -> Times]
  /\ drift \in [Chain -> {"one", "off"}]
  /\ foreign \in [Chain -> BOOLEAN] /\ synced \in [Chain -> BOOLEAN]
  /\ \A d \in Devices : OnAir(d) => air[d] \in Packets

Told(d) == lastMasterTime[d] + millis[d] - lastSyncTime[d]

SyncInv ==
  \A d \in Chain :
    /\ ~foreign[d] => drift[d] = "one"
    /\ ~synced[d] => lastSyncTime[d] = 0
    /\ synced[d] /\ ~foreign[d] => Congruent(Told(d), millis[0] - Delay(d - 1))

PacketInv ==
  \A d \in Devices :
    d < Slaves /\ OnAir(d) /\ ~air[d].foreign
      => Congruent(air[d].time, millis[0] + air[d].left - Delay(d))

SyncIInv == SyncTypeInv /\ SyncInv /\ PacketInv
-------------------------------------------------------------------------------
(* The constants are numbers.                                              *)
LEMMA Numbers ==
  /\ Wrap \in Nat /\ Wrap > 0 /\ AirTime \in Nat /\ AirTime > 0 /\ Slaves \in Nat
BY ClockSyncAssumption

(* A product by a number that is at least one is not smaller.              *)
LEMMA Product ==
  ASSUME NEW q \in Int, NEW w \in Int, q >= 1, w > 0
  PROVE  q * w >= w
<1>1. (q - 1) * w >= 0
  OBVIOUS
<1>2. (q - 1) * w = q * w - w
  OBVIOUS
<1>3. q * w \in Int
  OBVIOUS
<1>. QED BY <1>1, <1>2, <1>3

(* A number is a multiple and a remainder.                                 *)
LEMMA Remainder ==
  ASSUME NEW x \in Int
  PROVE  /\ x % Wrap \in Times
         /\ \E q \in Int : x = q * Wrap + (x % Wrap)
<1>1. x % Wrap \in 0..(Wrap - 1)
  BY Numbers
<1>2. x = (x \div Wrap) * Wrap + (x % Wrap)
  BY Numbers
<1>3. x \div Wrap \in Int
  BY Numbers
<1>. QED BY <1>1, <1>2, <1>3 DEF Times

(* Only one remainder is in its range.                                     *)
LEMMA OneRemainder ==
  ASSUME NEW p \in Int, NEW q \in Int, NEW r \in Times, NEW s \in Times,
         p * Wrap + r = q * Wrap + s
  PROVE  r = s
<1>1. (p - q) * Wrap = p * Wrap - q * Wrap /\ (q - p) * Wrap = q * Wrap - p * Wrap
  BY Numbers
<1>2. p * Wrap \in Int /\ q * Wrap \in Int
  BY Numbers
<1>3. p - q >= 1 => (p - q) * Wrap >= Wrap
  BY Numbers, Product
<1>4. q - p >= 1 => (q - p) * Wrap >= Wrap
  BY Numbers, Product
<1>5. ~(p - q >= 1) /\ ~(q - p >= 1)
  <2>. DEFINE a == p * Wrap
              b == q * Wrap
              c == (p - q) * Wrap
              d == (q - p) * Wrap
  <2>1. a \in Int /\ b \in Int /\ c = a - b /\ d = b - a /\ a + r = b + s
        /\ (p - q >= 1 => c >= Wrap) /\ (q - p >= 1 => d >= Wrap)
    BY <1>1, <1>2, <1>3, <1>4
  <2>. HIDE DEF a, b, c, d
  <2>. QED BY <2>1, Numbers DEF Times
<1>6. p = q
  BY <1>5
<1>. QED BY <1>2, <1>6 DEF Times

(* What is congruent stays so when as much is added to both sides.         *)
LEMMA CongruentAdd ==
  ASSUME NEW x \in Int, NEW y \in Int, NEW z \in Int, Congruent(x, y)
  PROVE  Congruent(x + z, y + z)
<1>1. PICK p \in Int : x = p * Wrap + (x % Wrap)
  BY Remainder
<1>2. PICK q \in Int : y = q * Wrap + (y % Wrap)
  BY Remainder
<1>3. PICK a \in Int : x + z = a * Wrap + ((x + z) % Wrap)
  BY Remainder
<1>4. PICK b \in Int : y + z = b * Wrap + ((y + z) % Wrap)
  BY Remainder
<1>5. (x + z) % Wrap \in Times /\ (y + z) % Wrap \in Times
  BY Remainder
<1>6. x % Wrap = y % Wrap
  BY DEF Congruent
<1>7. (a + q) * Wrap = a * Wrap + q * Wrap /\ (b + p) * Wrap = b * Wrap + p * Wrap
  BY Numbers
<1>8. (a + q) * Wrap + ((x + z) % Wrap) = (b + p) * Wrap + ((y + z) % Wrap)
  <2>. DEFINE aw == a * Wrap
              bw == b * Wrap
              pw == p * Wrap
              qw == q * Wrap
              r == x % Wrap
              s == (x + z) % Wrap
              t == (y + z) % Wrap
  <2>1. aw \in Int /\ bw \in Int /\ pw \in Int /\ qw \in Int
    BY Numbers
  <2>2. r \in Int /\ s \in Int /\ t \in Int
    BY <1>5, Remainder, Numbers DEF Times
  <2>3. x = pw + r /\ y = qw + r /\ x + z = aw + s /\ y + z = bw + t
    BY <1>1, <1>2, <1>3, <1>4, <1>6
  <2>. HIDE DEF aw, bw, pw, qw, r, s, t
  <2>4. aw + qw + s = bw + pw + t
    BY <2>1, <2>2, <2>3
  <2>. QED BY <1>7, <2>4 DEF aw, bw, pw, qw, s, t
<1>9. a + q \in Int /\ b + p \in Int
  OBVIOUS
<1>10. (x + z) % Wrap = (y + z) % Wrap
  BY <1>5, <1>8, <1>9, OneRemainder
<1>. QED BY <1>10 DEF Congruent

(* A reading is congruent to what was read.                                *)
LEMMA CongruentReading ==
  ASSUME NEW x \in Int
  PROVE  x % Wrap \in Times /\ x % Wrap \in Int /\ Congruent(x % Wrap, x)
<1>. DEFINE r == x % Wrap
<1>1. r \in Times /\ \E q \in Int : x = q * Wrap + r
  BY Remainder
<1>2. r \in Int
  BY <1>1, Numbers DEF Times
<1>. HIDE DEF r
<1>3. PICK p \in Int : r = p * Wrap + (r % Wrap)
  BY <1>2, Remainder
<1>4. r % Wrap \in Times
  BY <1>2, Remainder
<1>5. 0 * Wrap + r = r
  BY <1>2, Numbers
<1>6. r % Wrap = r
  BY <1>1, <1>3, <1>4, <1>5, OneRemainder
<1>. QED BY <1>1, <1>2, <1>6 DEF r, Congruent

(* Two sums with the same difference.                                      *)
LEMMA CongruentShift ==
  ASSUME NEW x \in Int, NEW y \in Int, NEW u \in Int, NEW v \in Int,
         Congruent(x, y), u - x = v - y
  PROVE  Congruent(u, v)
<1>. DEFINE z == u - x
<1>1. z \in Int /\ u = x + z /\ v = y + z
  OBVIOUS
<1>. HIDE DEF z
<1>2. Congruent(x + z, y + z)
  BY <1>1, CongruentAdd
<1>. QED BY <1>1, <1>2

(* The delay of a device is one time on air more than that of the one      *)
(* before.                                                                 *)
LEMMA Delays ==
  /\ Delay(0) = 0
  /\ \A d \in Devices :
       Delay(d) \in Int /\ Delay(d - 1) \in Int /\ Delay(d - 1) = Delay(d) - AirTime
<1>1. Delay(0) = 0
  BY Numbers DEF Delay
<1>2. ASSUME NEW d \in Devices
      PROVE  Delay(d) \in Int /\ Delay(d - 1) \in Int /\ Delay(d - 1) = Delay(d) - AirTime
  <2>1. d \in Int /\ d - 1 \in Int
    BY Numbers DEF Devices
  <2>2. (d - 1) * AirTime = d * AirTime - AirTime
    BY <2>1, Numbers
  <2>. QED BY <2>1, <2>2, Numbers DEF Delay
<1>. QED BY <1>1, <1>2

(* Counters are numbers.                                                   *)
LEMMA Readings ==
  ASSUME SyncTypeInv
  PROVE  /\ \A d \in Devices : millis[d] \in Int
         /\ \A d \in Chain : d \in Devices /\ d - 1 \in Devices /\ d # 0
         /\ \A d \in Chain : lastSyncTime[d] \in Int /\ lastMasterTime[d] \in Int /\ Told(d) \in Int
         /\ 0 \in Devices
         /\ \A t \in Times : t \in Int
<1>1. \A t \in Times : t \in Int
  BY Numbers DEF Times
<1>2. /\ \A d \in Chain : d \in Devices /\ d - 1 \in Devices /\ d # 0
      /\ 0 \in Devices
  BY Numbers DEF Chain, Devices
<1>3. \A d \in Devices : millis[d] \in Int
  BY <1>1 DEF SyncTypeInv
<1>4. \A d \in Chain : lastSyncTime[d] \in Int /\ lastMasterTime[d] \in Int
  BY <1>1 DEF SyncTypeInv
<1>5. \A d \in Chain : Told(d) \in Int
  BY <1>2, <1>3, <1>4 DEF Told
<1>. QED BY <1>1, <1>2, <1>3, <1>4, <1>5

(* A slave that nobody misled sends its time as the master's, less the     *)
(* delay of the relays before it.                                          *)
LEMMA TimesOfSlave ==
  ASSUME SyncTypeInv, NEW d \in Chain
  PROVE  /\ SlaveTimes(d) \subseteq Times
         /\ drift[d] = "one" => SlaveTimes(d) = {Told(d) % Wrap}
<1>1. Told(d) \in Int
  BY Readings
<1>2. Told(d) % Wrap \in Times
  BY <1>1, CongruentReading
<1>3. drift[d] = "one" => SlaveTimes(d) = {Told(d) % Wrap}
  BY DEF SlaveTimes, Told
<1>4. drift[d] # "one" => SlaveTimes(d) = Times
  BY DEF SlaveTimes
<1>. QED BY <1>2, <1>3, <1>4
-------------------------------------------------------------------------------
(* Nobody is synchronised at first, and nothing on air.                    *)
LEMMA SyncInitEstablishes == SyncInit => SyncIInv
<1>. SUFFICES ASSUME SyncInit PROVE SyncIInv
  OBVIOUS
<1>1. \A d \in Devices : (-(d * BootDelay)) % Wrap \in Times
  <2>. SUFFICES ASSUME NEW d \in Devices PROVE (-(d * BootDelay)) % Wrap \in Times
    OBVIOUS
  <2>1. d \in Int /\ BootDelay \in Int
    BY ClockSyncAssumption DEF Devices
  <2>2. -(d * BootDelay) \in Int
    BY <2>1
  <2>. QED BY <2>2, CongruentReading
<1>2. 0 \in Times
  BY Numbers DEF Times
<1>3. \A d \in Devices : ~OnAir(d)
  BY DEF SyncInit, OnAir
<1>4. SyncTypeInv
  BY <1>1, <1>2, <1>3 DEF SyncInit, SyncTypeInv
<1>5. SyncInv
  BY DEF SyncInit, SyncInv
<1>6. PacketInv
  BY <1>3 DEF PacketInv
<1>. QED BY <1>4, <1>5, <1>6 DEF SyncIInv

(* Slaves that take a time: one that is the master's, less the delay of    *)
(* its way, makes no difference to those that had taken such times before. *)
LEMMA SynchronisePreserves ==
  ASSUME SyncTypeInv, SyncInv, NEW takers \in SUBSET Chain, NEW t \in Times,
         NEW isForeign \in BOOLEAN, Synchronise(takers, t, isForeign), millis' = millis,
         ~isForeign => \A d \in takers : Congruent(t, millis[0] - Delay(d - 1))
  PROVE  /\ SyncInv'
         /\ lastSyncTime' \in [Chain -> Times] /\ lastMasterTime' \in [Chain -> Times]
         /\ drift' \in [Chain -> {"one", "off"}]
         /\ foreign' \in [Chain -> BOOLEAN] /\ synced' \in [Chain -> BOOLEAN]
<1>1. /\ \A d \in Devices : millis[d] \in Times
      /\ \A d \in Chain : lastSyncTime[d] \in Times /\ lastMasterTime[d] \in Times
                          /\ drift[d] \in {"one", "off"}
                          /\ foreign[d] \in BOOLEAN /\ synced[d] \in BOOLEAN
  BY DEF SyncTypeInv
<1>2. \A d \in Chain : d \in Devices
  BY Readings
<1>3. \A d \in Chain : Drift(d, t) \in {"one", "off"}
  BY <1>1 DEF Drift
<1>4. lastSyncTime' \in [Chain -> Times]
  BY <1>1, <1>2 DEF Synchronise
<1>5. lastMasterTime' \in [Chain -> Times]
  BY <1>1 DEF Synchronise
<1>6. drift' \in [Chain -> {"one", "off"}]
  BY <1>1, <1>3 DEF Synchronise
<1>7. foreign' \in [Chain -> BOOLEAN]
  BY DEF Synchronise
<1>8. synced' \in [Chain -> BOOLEAN]
  BY DEF Synchronise
<1>9. SyncInv'
  <2>. SUFFICES ASSUME NEW d \in Chain
                PROVE  /\ ~foreign'[d] => drift'[d] = "one"
                       /\ ~synced'[d] => lastSyncTime'[d] = 0
                       /\ synced'[d] /\ ~foreign'[d] =>
                            Congruent(Told(d)', (millis[0] - Delay(d - 1))')
    BY DEF SyncInv
  <2>1. /\ ~foreign[d] => drift[d] = "one"
        /\ ~synced[d] => lastSyncTime[d] = 0
        /\ synced[d] /\ ~foreign[d] => Congruent(Told(d), millis[0] - Delay(d - 1))
    BY DEF SyncInv
  <2>2. (millis[0] - Delay(d - 1))' = millis[0] - Delay(d - 1)
    BY DEF Delay
  <2>3. CASE d \notin takers
    <3>1. /\ drift'[d] = drift[d] /\ lastSyncTime'[d] = lastSyncTime[d]
          /\ lastMasterTime'[d] = lastMasterTime[d]
      BY <2>3 DEF Synchronise
    <3>2. (foreign'[d] <=> foreign[d]) /\ (synced'[d] <=> synced[d])
      BY <2>3 DEF Synchronise
    <3>3. Told(d)' = Told(d)
      BY <3>1 DEF Told
    <3>. QED BY <2>1, <2>2, <3>1, <3>2, <3>3
  <2>4. CASE d \in takers
    <3>1. /\ drift'[d] = Drift(d, t) /\ lastSyncTime'[d] = millis[d]
          /\ lastMasterTime'[d] = t
      BY <2>4 DEF Synchronise
    <3>2. synced'[d] /\ (~foreign'[d] => ~foreign[d] /\ ~isForeign /\ ~NoInterval(d))
      BY <2>4 DEF Synchronise
    <3>3. t \in Int /\ millis[d] \in Int /\ millis[0] \in Int
          /\ lastSyncTime[d] \in Int /\ lastMasterTime[d] \in Int /\ Told(d) \in Int
      BY Readings
    <3>4. Told(d)' = t
      <4>1. Told(d)' = t + millis[d] - millis[d]
        BY <3>1 DEF Told
      <4>. QED BY <3>3, <4>1
    <3>5. ASSUME ~foreign[d], ~isForeign, ~NoInterval(d)
          PROVE  Drift(d, t) = "one" /\ Congruent(t, millis[0] - Delay(d - 1))
      <4>1. Congruent(t, millis[0] - Delay(d - 1))
        BY <2>4, <3>5
      <4>2. CASE ~synced[d]
        BY <2>1, <3>5, <4>1, <4>2 DEF Drift
      <4>3. CASE synced[d]
        <5>1. Congruent(t, Told(d))
          BY <2>1, <3>5, <4>1, <4>3 DEF Congruent
        <5>2. t - lastMasterTime[d] \in Int /\ millis[d] - lastSyncTime[d] \in Int
          BY <3>3
        <5>3. (t - lastMasterTime[d]) - t = (millis[d] - lastSyncTime[d]) - Told(d)
          BY <3>3 DEF Told
        <5>4. Congruent(t - lastMasterTime[d], millis[d] - lastSyncTime[d])
          BY <3>3, <5>1, <5>2, <5>3, CongruentShift
        <5>. QED BY <2>1, <3>5, <4>1, <5>4 DEF Drift, Congruent
      <4>. QED BY <4>2, <4>3
    <3>. QED BY <2>2, <3>1, <3>2, <3>4, <3>5
  <2>. QED BY <2>3, <2>4
<1>. QED BY <1>4, <1>5, <1>6, <1>7, <1>8, <1>9
-------------------------------------------------------------------------------
(* A packet that fewer can hear is otherwise the same.                     *)
LEMMA FewerEars ==
  ASSUME NEW p \in Packets, NEW S
  PROVE  LET q == [p EXCEPT !.ears = @ \ S]
         IN q \in Packets /\ q.left = p.left /\ q.time = p.time /\ q.foreign = p.foreign
BY DEF Packets

(* What a packet has to do with those of before.                           *)
Fewer(d) ==
  air'[d] \in Packets /\ air'[d].left = air[d].left /\ air'[d].time = air[d].time
    /\ air'[d].foreign = air[d].foreign

(* A device begins to send: the master its time at the end of the packet,  *)
(* a slave what it was told, one time on air late.                         *)
LEMMA TransmitPreserves ==
  ASSUME SyncIInv, NEW d \in Devices, Transmit(d)
  PROVE  SyncIInv'
<1>1. /\ millis' = millis /\ lastSyncTime' = lastSyncTime /\ lastMasterTime' = lastMasterTime
      /\ drift' = drift /\ foreign' = foreign /\ synced' = synced
  BY DEF Transmit, clockVars, history
<1>2. SyncTypeInv /\ SyncInv /\ PacketInv
  BY DEF SyncIInv
<1>3. PICK t \in SentTimes(d) :
       air' = [e \in Devices |->
                 IF e = d
                   THEN [left |-> AirTime, time |-> t,
                         ears |-> {r \in Chain \ {d} : receiving[r] /\ ~OnAir(r)},
                         foreign |-> d \in 1..(Slaves - 1) /\ (foreign[d] \/ ~synced[d])]
                   ELSE IF OnAir(e) THEN [air[e] EXCEPT !.ears = @ \ {d}] ELSE air[e]]
  BY DEF Transmit
<1>4. d \in 1..(Slaves - 1) => d \in Chain
  BY Numbers DEF Chain
<1>5. millis[0] \in Int /\ millis[0] + AirTime \in Int
  BY <1>2, Readings, Numbers
<1>6. t \in Times
  <2>1. CASE d = 0
    BY <1>3, <1>5, <2>1, CongruentReading DEF SentTimes, MasterTime
  <2>2. CASE d # 0 /\ d \in 1..(Slaves - 1)
    BY <1>2, <1>3, <1>4, <2>2, TimesOfSlave DEF SentTimes
  <2>3. CASE d # 0 /\ d \notin 1..(Slaves - 1)
    <3>1. t = 0
      BY <1>3, <2>3 DEF SentTimes
    <3>. QED BY <3>1, Numbers DEF Times
  <2>. QED BY <2>1, <2>2, <2>3
<1>7. /\ air'[d].left = AirTime /\ air'[d].time = t
      /\ air'[d].foreign = (d \in 1..(Slaves - 1) /\ (foreign[d] \/ ~synced[d]))
      /\ air'[d].ears = {r \in Chain \ {d} : receiving[r] /\ ~OnAir(r)}
  BY <1>3
<1>8. air'[d] \in Packets
  <2>1. AirTime \in 0..AirTime
    BY Numbers
  <2>2. (d \in 1..(Slaves - 1) /\ (foreign[d] \/ ~synced[d])) \in BOOLEAN
    OBVIOUS
  <2>. QED BY <1>3, <1>6, <2>1, <2>2 DEF Packets
<1>9. ASSUME NEW e \in Devices, e # d, OnAir(e)' PROVE OnAir(e) /\ Fewer(e)
  <2>1. OnAir(e)
    BY <1>3, <1>9 DEF OnAir
  <2>2. air[e] \in Packets /\ air'[e] = [air[e] EXCEPT !.ears = @ \ {d}]
    BY <1>2, <1>3, <1>9, <2>1 DEF SyncTypeInv
  <2>. DEFINE S == {d}
  <2>3. air'[e] = [air[e] EXCEPT !.ears = @ \ S]
    BY <2>2
  <2>. HIDE DEF S
  <2>. QED BY <2>1, <2>2, <2>3, FewerEars DEF Fewer
<1>10. SyncTypeInv'
  <2>1. \A e \in Devices : OnAir(e)' => air'[e] \in Packets
    BY <1>8, <1>9 DEF Fewer
  <2>. QED BY <1>1, <1>2, <2>1 DEF SyncTypeInv
<1>11. SyncInv'
  BY <1>1, <1>2 DEF SyncInv, Told, Delay
<1>12. PacketInv'
  <2>. SUFFICES ASSUME NEW e \in Devices, e < Slaves, OnAir(e)', ~air'[e].foreign
                PROVE  Congruent(air'[e].time, millis'[0] + air'[e].left - Delay(e))
    BY DEF PacketInv, Congruent, Delay
  <2>1. CASE e # d
    <3>1. OnAir(e) /\ Fewer(e)
      BY <1>9, <2>1
    <3>. QED BY <1>1, <1>2, <3>1 DEF PacketInv, Fewer
  <2>2. CASE e = d /\ d = 0
    <3>1. t = (millis[0] + AirTime) % Wrap
      BY <1>3, <2>2 DEF SentTimes, MasterTime
    <3>2. Congruent(t, millis[0] + AirTime)
      BY <1>5, <3>1, CongruentReading
    <3>3. millis[0] + AirTime - Delay(0) = millis[0] + AirTime
      <4>1. Delay(0) = 0
        BY Delays
      <4>. QED BY <1>5, <4>1, Numbers
    <3>. QED BY <1>1, <1>7, <2>2, <3>2, <3>3
  <2>3. CASE e = d /\ d # 0
    <3>1. d \in 1..(Slaves - 1)
      BY <2>3, Numbers DEF Devices
    <3>2. d \in Chain /\ synced[d] /\ ~foreign[d]
      BY <1>4, <1>7, <2>3, <3>1
    <3>3. drift[d] = "one" /\ Congruent(Told(d), millis[0] - Delay(d - 1))
      BY <1>2, <3>2 DEF SyncInv
    <3>4. t = Told(d) % Wrap
      BY <1>2, <1>3, <2>3, <3>1, <3>2, <3>3, TimesOfSlave DEF SentTimes
    <3>5. Told(d) \in Int
      BY <1>2, <3>2, Readings
    <3>6. Congruent(t, Told(d))
      BY <3>4, <3>5, CongruentReading
    <3>7. Congruent(t, millis[0] - Delay(d - 1))
      BY <3>3, <3>6 DEF Congruent
    <3>8. millis[0] - Delay(d - 1) = millis[0] + AirTime - Delay(d)
      <4>1. Delay(d) \in Int /\ Delay(d - 1) = Delay(d) - AirTime
        BY Delays
      <4>. QED BY <1>5, <4>1, Numbers
    <3>. QED BY <1>1, <1>7, <2>3, <3>7, <3>8
  <2>. QED BY <2>1, <2>2, <2>3
<1>. QED BY <1>10, <1>11, <1>12 DEF SyncIInv

(* A packet ends, and some of those that can hear it take its time.        *)
LEMMA LandPreserves ==
  ASSUME SyncIInv, NEW d \in Devices, Land(d)
  PROVE  SyncIInv'
<1>1. SyncTypeInv /\ SyncInv /\ PacketInv
  BY DEF SyncIInv
<1>2. OnAir(d) /\ air[d].left = 0 /\ millis' = millis
  BY DEF Land
<1>3. air[d] \in Packets
  BY <1>1, <1>2 DEF SyncTypeInv
<1>4. PICK hearers \in SUBSET air[d].ears :
        /\ Synchronise({r \in hearers : Listens(r) = d}, air[d].time, air[d].foreign)
        /\ air' = [e \in Devices |->
             IF e = d \/ ~OnAir(e) THEN NoPacket
             ELSE [air[e] EXCEPT !.ears = @ \ hearers]]
  BY DEF Land
<1>. DEFINE takers == {r \in hearers : Listens(r) = d}
<1>5. takers \in SUBSET Chain /\ air[d].time \in Times /\ air[d].foreign \in BOOLEAN
  BY <1>3 DEF Packets
<1>6. ~air[d].foreign => \A r \in takers : Congruent(air[d].time, millis[0] - Delay(r - 1))
  <2>. SUFFICES ASSUME ~air[d].foreign, NEW r \in takers
                PROVE  Congruent(air[d].time, millis[0] - Delay(r - 1))
    OBVIOUS
  <2>1. r \in Chain /\ r - 1 = d
    BY <1>5 DEF Listens
  <2>2. d < Slaves
    BY <2>1, Numbers DEF Chain
  <2>3. Congruent(air[d].time, millis[0] + air[d].left - Delay(d))
    BY <1>1, <1>2, <2>2 DEF PacketInv
  <2>4. millis[0] + air[d].left - Delay(d) = millis[0] - Delay(d)
    <3>1. millis[0] \in Int /\ Delay(d) \in Int
      BY <1>1, Readings, Delays
    <3>. QED BY <1>2, <3>1
  <2>. QED BY <2>1, <2>3, <2>4
<1>7. Synchronise(takers, air[d].time, air[d].foreign)
  BY <1>4
<1>. HIDE DEF takers
<1>8. /\ SyncInv'
      /\ lastSyncTime' \in [Chain -> Times] /\ lastMasterTime' \in [Chain -> Times]
      /\ drift' \in [Chain -> {"one", "off"}]
      /\ foreign' \in [Chain -> BOOLEAN] /\ synced' \in [Chain -> BOOLEAN]
  BY <1>1, <1>2, <1>5, <1>6, <1>7, SynchronisePreserves
<1>9. ASSUME NEW e \in Devices, OnAir(e)' PROVE OnAir(e) /\ Fewer(e)
  <2>1. e # d /\ OnAir(e)
    BY <1>4, <1>9 DEF OnAir
  <2>2. air[e] \in Packets /\ air'[e] = [air[e] EXCEPT !.ears = @ \ hearers]
    BY <1>1, <1>4, <2>1 DEF SyncTypeInv
  <2>. QED BY <2>1, <2>2, FewerEars DEF Fewer
<1>10. SyncTypeInv'
  <2>1. \A e \in Devices : OnAir(e)' => air'[e] \in Packets
    BY <1>9 DEF Fewer
  <2>. QED BY <1>1, <1>2, <1>8, <2>1 DEF SyncTypeInv
<1>11. PacketInv'
  <2>. SUFFICES ASSUME NEW e \in Devices, e < Slaves, OnAir(e)', ~air'[e].foreign
                PROVE  Congruent(air'[e].time, millis'[0] + air'[e].left - Delay(e))
    BY DEF PacketInv, Congruent, Delay
  <2>1. OnAir(e) /\ Fewer(e)
    BY <1>9
  <2>. QED BY <1>1, <1>2, <2>1 DEF PacketInv, Fewer
<1>. QED BY <1>8, <1>10, <1>11 DEF SyncIInv

(* A time that is none of the master's.                                    *)
LEMMA TakeZeroPreserves ==
  ASSUME SyncIInv, NEW d \in Chain, TakeZero(d)
  PROVE  SyncIInv'
<1>1. SyncTypeInv /\ SyncInv /\ PacketInv
  BY DEF SyncIInv
<1>2. Synchronise({d}, 0, TRUE) /\ millis' = millis /\ air' = air
  BY DEF TakeZero
<1>3. 0 \in Times /\ {d} \in SUBSET Chain
  BY Numbers DEF Times
<1>4. /\ SyncInv'
      /\ lastSyncTime' \in [Chain -> Times] /\ lastMasterTime' \in [Chain -> Times]
      /\ drift' \in [Chain -> {"one", "off"}]
      /\ foreign' \in [Chain -> BOOLEAN] /\ synced' \in [Chain -> BOOLEAN]
  BY <1>1, <1>2, <1>3, SynchronisePreserves
<1>5. SyncTypeInv'
  BY <1>1, <1>2, <1>4 DEF SyncTypeInv, OnAir
<1>6. PacketInv'
  BY <1>1, <1>2 DEF PacketInv, OnAir, Delay
<1>. QED BY <1>4, <1>5, <1>6 DEF SyncIInv

(* Every clock goes on by one, and wraps.                                  *)
LEMMA ElapsePreserves ==
  ASSUME SyncIInv, Elapse
  PROVE  SyncIInv'
<1>1. SyncTypeInv /\ SyncInv /\ PacketInv
  BY DEF SyncIInv
<1>2. /\ lastSyncTime' = lastSyncTime /\ lastMasterTime' = lastMasterTime
      /\ drift' = drift /\ foreign' = foreign /\ synced' = synced
      /\ millis' = [d \in Devices |-> (millis[d] + 1) % Wrap]
      /\ air' = [d \in Devices |-> IF OnAir(d) THEN [air[d] EXCEPT !.left = @ - 1] ELSE NoPacket]
      /\ \A d \in Devices : OnAir(d) => air[d].left > 0
  BY DEF Elapse, clockVars, history
<1>3. \A d \in Devices : /\ millis'[d] \in Times /\ millis'[d] \in Int
                         /\ Congruent(millis'[d], millis[d] + 1)
  <2>. SUFFICES ASSUME NEW d \in Devices
                PROVE  millis'[d] \in Times /\ millis'[d] \in Int
                       /\ Congruent(millis'[d], millis[d] + 1)
    OBVIOUS
  <2>1. millis[d] + 1 \in Int
    BY <1>1, Readings
  <2>. QED BY <1>2, <2>1, CongruentReading
<1>4. ASSUME NEW d \in Devices, OnAir(d)'
      PROVE  /\ OnAir(d) /\ air'[d] \in Packets /\ air[d].left \in Int
             /\ air'[d].left = air[d].left - 1 /\ air'[d].time = air[d].time
             /\ air'[d].foreign = air[d].foreign
  <2>1. OnAir(d) /\ air[d] \in Packets /\ air[d].left > 0
    BY <1>1, <1>2, <1>4 DEF OnAir, SyncTypeInv
  <2>2. air[d].left \in 0..AirTime /\ air[d].left - 1 \in 0..AirTime
    BY <2>1, Numbers DEF Packets
  <2>3. air'[d] = [air[d] EXCEPT !.left = @ - 1]
    BY <1>2, <2>1
  <2>4. air'[d].left = air[d].left - 1 /\ air'[d].time = air[d].time
        /\ air'[d].foreign = air[d].foreign /\ air'[d] \in Packets
    BY <2>1, <2>2, <2>3 DEF Packets
  <2>. QED BY <2>1, <2>2, <2>4
<1>5. millis' \in [Devices -> Times]
  BY <1>2, <1>3
<1>6. SyncTypeInv'
  BY <1>1, <1>2, <1>4, <1>5 DEF SyncTypeInv
<1>7. millis[0] \in Int /\ millis'[0] \in Int /\ 0 \in Devices
      /\ Congruent(millis'[0], millis[0] + 1)
  BY <1>1, <1>3, Readings
<1>8. SyncInv'
  <2>. SUFFICES ASSUME NEW d \in Chain, synced[d], ~foreign[d]
                PROVE  Congruent(Told(d)', millis'[0] - Delay(d - 1))
    BY <1>1, <1>2 DEF SyncInv, Congruent, Delay
  <2>1. /\ d \in Devices /\ millis[d] \in Int /\ lastSyncTime[d] \in Int
        /\ lastMasterTime[d] \in Int /\ Told(d) \in Int
    BY <1>1, Readings
  <2>2. millis'[d] \in Int /\ Congruent(millis'[d], millis[d] + 1)
    BY <1>3, <2>1
  <2>3. Delay(d - 1) \in Int
    BY <2>1, Delays
  <2>4. Congruent(Told(d), millis[0] - Delay(d - 1))
    BY <1>1 DEF SyncInv
  <2>5. Told(d)' = lastMasterTime[d] + millis'[d] - lastSyncTime[d] /\ Told(d)' \in Int
    BY <1>2, <2>1, <2>2 DEF Told
  <2>6. Congruent(Told(d)', Told(d) + 1)
    <3>1. Told(d)' - millis'[d] = (Told(d) + 1) - (millis[d] + 1)
      BY <2>1, <2>2, <2>5 DEF Told
    <3>. QED BY <2>1, <2>2, <2>5, <3>1, CongruentShift
  <2>7. Congruent(Told(d) + 1, (millis[0] - Delay(d - 1)) + 1)
    <3>1. millis[0] - Delay(d - 1) \in Int /\ 1 \in Int
      BY <1>7, <2>3
    <3>. QED BY <2>1, <2>4, <3>1, CongruentAdd
  <2>8. Congruent(millis'[0] - Delay(d - 1), (millis[0] - Delay(d - 1)) + 1)
    <3>1. (millis'[0] - Delay(d - 1)) - millis'[0]
             = ((millis[0] - Delay(d - 1)) + 1) - (millis[0] + 1)
      BY <1>7, <2>3
    <3>2. /\ millis'[0] - Delay(d - 1) \in Int /\ (millis[0] - Delay(d - 1)) + 1 \in Int
          /\ millis[0] + 1 \in Int
      BY <1>7, <2>3
    <3>. QED BY <1>7, <3>1, <3>2, CongruentShift
  <2>. QED BY <2>6, <2>7, <2>8 DEF Congruent
<1>9. PacketInv'
  <2>. SUFFICES ASSUME NEW e \in Devices, e < Slaves, OnAir(e)', ~air'[e].foreign
                PROVE  Congruent(air'[e].time, millis'[0] + air'[e].left - Delay(e))
    BY DEF PacketInv, Congruent, Delay
  <2>1. /\ OnAir(e) /\ air[e].left \in Int /\ ~air[e].foreign
        /\ air'[e].left = air[e].left - 1 /\ air'[e].time = air[e].time
    BY <1>4
  <2>2. Congruent(air[e].time, millis[0] + air[e].left - Delay(e))
    BY <1>1, <2>1 DEF PacketInv
  <2>3. Delay(e) \in Int
    BY Delays
  <2>4. Congruent(millis'[0] + (air[e].left - 1) - Delay(e), millis[0] + air[e].left - Delay(e))
    <3>1. (millis'[0] + (air[e].left - 1) - Delay(e)) - millis'[0]
             = (millis[0] + air[e].left - Delay(e)) - (millis[0] + 1)
      BY <1>7, <2>1, <2>3
    <3>2. /\ millis'[0] + (air[e].left - 1) - Delay(e) \in Int
          /\ millis[0] + air[e].left - Delay(e) \in Int /\ millis[0] + 1 \in Int
      BY <1>7, <2>1, <2>3
    <3>. QED BY <1>7, <3>1, <3>2, CongruentShift
  <2>. QED BY <2>1, <2>2, <2>4 DEF Congruent
<1>. QED BY <1>6, <1>8, <1>9 DEF SyncIInv

(* A slave starts again, and has taken no time.                            *)
LEMMA RebootSlavePreserves ==
  ASSUME SyncIInv, NEW d \in Chain, RebootSlave(d)
  PROVE  SyncIInv'
<1>1. SyncTypeInv /\ SyncInv /\ PacketInv
  BY DEF SyncIInv
<1>2. /\ millis' = [millis EXCEPT ![d] = 0]
      /\ lastSyncTime' = [lastSyncTime EXCEPT ![d] = 0]
      /\ lastMasterTime' = [lastMasterTime EXCEPT ![d] = 0]
      /\ drift' = [drift EXCEPT ![d] = "one"]
      /\ foreign' = [foreign EXCEPT ![d] = FALSE]
      /\ synced' = [synced EXCEPT ![d] = FALSE]
      /\ air' = [e \in Devices |->
           IF e = d \/ ~OnAir(e) THEN NoPacket ELSE [air[e] EXCEPT !.ears = @ \ {d}]]
  BY DEF RebootSlave
<1>3. 0 \in Times /\ d \in Devices /\ d # 0 /\ 0 \in Devices
  BY <1>1, Readings, Numbers DEF Times
<1>4. millis'[0] = millis[0]
  BY <1>1, <1>2, <1>3 DEF SyncTypeInv
<1>5. ASSUME NEW e \in Devices, OnAir(e)' PROVE OnAir(e) /\ Fewer(e)
  <2>1. e # d /\ OnAir(e)
    BY <1>2, <1>5 DEF OnAir
  <2>2. air[e] \in Packets /\ air'[e] = [air[e] EXCEPT !.ears = @ \ {d}]
    BY <1>1, <1>2, <2>1 DEF SyncTypeInv
  <2>. DEFINE S == {d}
  <2>3. air'[e] = [air[e] EXCEPT !.ears = @ \ S]
    BY <2>2
  <2>. HIDE DEF S
  <2>. QED BY <2>1, <2>2, <2>3, FewerEars DEF Fewer
<1>6. SyncTypeInv'
  <2>1. \A e \in Devices : OnAir(e)' => air'[e] \in Packets
    BY <1>5 DEF Fewer
  <2>. QED BY <1>1, <1>2, <1>3, <2>1 DEF SyncTypeInv
<1>7. SyncInv'
  <2>. SUFFICES ASSUME NEW e \in Chain
                PROVE  /\ ~foreign'[e] => drift'[e] = "one"
                       /\ ~synced'[e] => lastSyncTime'[e] = 0
                       /\ synced'[e] /\ ~foreign'[e] =>
                            Congruent(Told(e)', millis'[0] - Delay(e - 1))
    BY DEF SyncInv, Congruent, Delay
  <2>1. CASE e = d
    <3>1. drift'[d] = "one" /\ lastSyncTime'[d] = 0 /\ synced'[d] = FALSE
      BY <1>1, <1>2 DEF SyncTypeInv
    <3>. QED BY <2>1, <3>1
  <2>2. CASE e # d
    <3>1. /\ drift'[e] = drift[e] /\ lastSyncTime'[e] = lastSyncTime[e]
          /\ lastMasterTime'[e] = lastMasterTime[e] /\ synced'[e] = synced[e]
          /\ foreign'[e] = foreign[e]
      BY <1>1, <1>2, <2>2 DEF SyncTypeInv
    <3>2. millis'[e] = millis[e]
      BY <1>1, <1>2, <2>2, Readings DEF SyncTypeInv
    <3>3. Told(e)' = Told(e)
      BY <3>1, <3>2 DEF Told
    <3>. QED BY <1>1, <1>4, <3>1, <3>3 DEF SyncInv
  <2>. QED BY <2>1, <2>2
<1>8. PacketInv'
  <2>. SUFFICES ASSUME NEW e \in Devices, e < Slaves, OnAir(e)', ~air'[e].foreign
                PROVE  Congruent(air'[e].time, millis'[0] + air'[e].left - Delay(e))
    BY DEF PacketInv, Congruent, Delay
  <2>1. OnAir(e) /\ Fewer(e)
    BY <1>5
  <2>. QED BY <1>1, <1>4, <2>1 DEF PacketInv, Fewer
<1>. QED BY <1>6, <1>7, <1>8 DEF SyncIInv

(* The master starts again: no time taken before is its own.               *)
LEMMA RebootMasterPreserves ==
  ASSUME SyncIInv, RebootMaster
  PROVE  SyncIInv'
<1>1. SyncTypeInv /\ SyncInv /\ PacketInv
  BY DEF SyncIInv
<1>2. /\ lastSyncTime' = lastSyncTime /\ lastMasterTime' = lastMasterTime
      /\ drift' = drift /\ synced' = synced
      /\ millis' = [millis EXCEPT ![0] = 0]
      /\ foreign' = [d \in Chain |-> foreign[d] \/ synced[d]]
      /\ air' = [d \in Devices |->
           IF d = 0 \/ ~OnAir(d) THEN NoPacket ELSE [air[d] EXCEPT !.foreign = TRUE]]
  BY DEF RebootMaster, clockVars
<1>3. ASSUME NEW e \in Devices, OnAir(e)' PROVE air'[e] \in Packets /\ air'[e].foreign
  <2>1. e # 0 /\ OnAir(e)
    BY <1>2, <1>3 DEF OnAir
  <2>2. air[e] \in Packets /\ air'[e] = [air[e] EXCEPT !.foreign = TRUE]
    BY <1>1, <1>2, <2>1 DEF SyncTypeInv
  <2>. QED BY <2>2 DEF Packets
<1>4. 0 \in Times
  BY Numbers DEF Times
<1>5. SyncTypeInv'
  BY <1>1, <1>2, <1>3, <1>4 DEF SyncTypeInv
<1>6. SyncInv'
  BY <1>1, <1>2 DEF SyncInv
<1>7. PacketInv'
  BY <1>3 DEF PacketInv
<1>. QED BY <1>5, <1>6, <1>7 DEF SyncIInv
-------------------------------------------------------------------------------
(* SyncIInv is inductive.                                                      *)
LEMMA SyncStepPreserves == SyncIInv /\ [SyncNext]_syncVars => SyncIInv'
<1>. SUFFICES ASSUME SyncIInv, [SyncNext]_syncVars PROVE SyncIInv'
  OBVIOUS
<1>1. CASE UNCHANGED syncVars
  BY <1>1 DEF syncVars, clockVars, history, SyncIInv, SyncTypeInv, SyncInv, PacketInv, Told, OnAir, Delay,
     Congruent
<1>. QED BY <1>1, TransmitPreserves, LandPreserves, TakeZeroPreserves, ElapsePreserves,
         RebootSlavePreserves, RebootMasterPreserves DEF SyncNext

(* A slave whose times all came from the master is behind it by exactly    *)
(* one time on air for each relay between (getSlaveTime of the slave).     *)
THEOREM LagIsRelaysAlways == SyncSpec => []LagIsRelays
<1>1. SyncIInv => LagIsRelays
  <2>. SUFFICES ASSUME SyncIInv, NEW d \in Chain, synced[d], ~foreign[d]
                PROVE  SlaveTimes(d) = {(millis[0] - (d - 1) * AirTime) % Wrap}
    BY DEF LagIsRelays
  <2>1. drift[d] = "one" /\ Congruent(Told(d), millis[0] - Delay(d - 1))
    BY DEF SyncIInv, SyncInv
  <2>2. SlaveTimes(d) = {Told(d) % Wrap}
    BY <2>1, TimesOfSlave DEF SyncIInv
  <2>. QED BY <2>1, <2>2 DEF Congruent, Delay
<1>. QED BY <1>1, SyncInitEstablishes, SyncStepPreserves, PTL DEF SyncSpec
================================================================================
