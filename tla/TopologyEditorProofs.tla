-------------------------- MODULE TopologyEditorProofs --------------------------
(***************************************************************************)
(* The topology editor and the files, for any number of identifiers, of    *)
(* devices under the pointer and of nodes in the generated files: the      *)
(* drawing is a graph over its nodes, a file just saved is the drawing,    *)
(* and a file that the verification script passes is one that the other    *)
(* tools take as it is, but for devices that are neither C2 nor C3.        *)
(*                                                                         *)
(* Beyond the drawing itself this rests on four things: a click only goes  *)
(* to devices that exist; the identifiers of a file are positive and       *)
(* bounded, whatever tool or hand wrote it; a file is only opened when     *)
(* there is one; and between a save and the next screen nothing is drawn.  *)
(* The rest is about two ways of following links, the walk of the editor   *)
(* and the trace of the script: that each is there, that there is only     *)
(* one, and that the hop count is the number of its steps.                 *)
(***************************************************************************)
EXTENDS TopologyEditor, FiniteSetTheorems, WellFoundedInduction, NaturalsInduction, TLAPS

(* A line whose identifier does not exceed b, and a file of such lines.    *)
LineWithin(l, b) ==
  /\ l = NodeLine(l.id, l.class, l.nextHop, l.hopCount)
  /\ l.id \in 1..b
FileWithin(f, b) == \E L : f \in Seq(L) /\ \A l \in L : LineWithin(l, b)

FileInv == \E b \in Nat : FileWithin(file, b)

DrawingInv ==
  /\ nodeCounter \in Nat
  /\ DOMAIN nodes \subseteq Nat \ {0}
  /\ nodes = [n \in DOMAIN nodes |-> nodes[n]] /\ \A n \in DOMAIN nodes : nodes[n] \in DeviceClass
  /\ routings = [a \in DOMAIN routings |-> routings[a]]
  /\ LinksJoinNodes
  /\ hovered \subseteq DOMAIN nodes

OpeningInv == opening => screen = "editor" /\ file # <<>>

(* Between a save and the next screen.                                     *)
SavedInv ==
  (screen = "editor" /\ file # <<>> /\ ~opening) =>
    hovered = {} /\ Writable(nodes, routings) /\ file = FileOf(nodes, routings)

OriginInv == origin = "generated" => \E n \in TreeSizes : file \in Generated(n)

IInv == FileInv /\ DrawingInv /\ OpeningInv /\ SavedInv /\ OriginInv

-------------------------------------------------------------------------------
(* Induction over numbers, and a function iterated.                        *)

Below == {p \in Nat \X Nat : p[1] < p[2]}

(* The numbers are well founded.                                           *)
LEMMA BelowIsWellFounded == IsWellFoundedOn(Below, Nat)
BY NatLessThanWellFounded DEF OpToRel, Below

(* A set of numbers that is not empty has a least element.                 *)
LEMMA LeastExists ==
  ASSUME NEW T \in SUBSET Nat, T # {}
  PROVE  \E x \in T : \A y \in T : x <= y
<1>1. PICK x \in T : \A y \in T : <<y, x>> \notin Below
  BY WFMin, BelowIsWellFounded
<1>2. \A y \in T : ~(y < x)
  BY <1>1 DEF Below
<1>. QED BY <1>2

(* Induction, the predicate given as the set of numbers that have it.      *)
LEMMA Induction ==
  ASSUME NEW T \in SUBSET Nat, 0 \in T, \A n \in T : n + 1 \in T
  PROVE  T = Nat
<1>. SUFFICES ASSUME Nat \ T # {} PROVE FALSE OBVIOUS
<1>1. PICK x \in Nat \ T : \A y \in Nat \ T : x <= y
  BY LeastExists
<1>2. x - 1 \in T
  BY <1>1
<1>. QED BY <1>1, <1>2

(* f goes from x on in steps of g, as far as the numbers of D.             *)
Iterates(f, g, x, D) == f = [k \in D |-> IF k = 0 THEN x ELSE g[f[k - 1]]]

(* As far as any number.                                                   *)
LEMMA IterationExists ==
  ASSUME NEW g, NEW x
  PROVE  \A n \in Nat : \E f : Iterates(f, g, x, 0..n)
<1>. DEFINE T == {n \in Nat : \E f : Iterates(f, g, x, 0..n)}
<1>1. 0 \in T
  <2>1. Iterates([k \in 0..0 |-> x], g, x, 0..0)
    BY DEF Iterates
  <2>. QED BY <2>1
<1>2. ASSUME NEW n \in T PROVE n + 1 \in T
  <2>1. PICK f : Iterates(f, g, x, 0..n)
    OBVIOUS
  <2>. DEFINE h == [k \in 0..(n + 1) |-> IF k = n + 1 THEN g[f[n]] ELSE f[k]]
  <2>2. \A k \in 0..n : h[k] = f[k] /\ f[k] = IF k = 0 THEN x ELSE g[f[k - 1]]
    <3>1. \A k \in 0..n : h[k] = f[k]
      OBVIOUS
    <3>2. \A k \in 0..n : f[k] = IF k = 0 THEN x ELSE g[f[k - 1]]
      BY <2>1 DEF Iterates
    <3>. QED BY <3>1, <3>2
  <2>3. h[n + 1] = g[f[n]]
    OBVIOUS
  <2>4. h = [k \in 0..(n + 1) |-> h[k]]
    OBVIOUS
  <2>. HIDE DEF h
  <2>5. ASSUME NEW k \in 0..(n + 1) PROVE h[k] = IF k = 0 THEN x ELSE g[h[k - 1]]
    <3>1. CASE k \in 0..n
      BY <3>1, <2>2
    <3>2. CASE k = n + 1
      BY <3>2, <2>2, <2>3
    <3>. QED BY <3>1, <3>2
  <2>6. Iterates(h, g, x, 0..(n + 1))
    BY <2>4, <2>5 DEF Iterates
  <2>. QED BY <2>6
<1>3. T = Nat
  <2>. HIDE DEF T
  <2>1. T \in SUBSET Nat BY DEF T
  <2>. QED BY <1>1, <1>2, <2>1, Induction
<1>. QED BY <1>3

(* However far they go, they agree.                                        *)
LEMMA IterationsAgree ==
  ASSUME NEW g, NEW x, NEW m \in Nat, NEW n \in Nat, m <= n,
         NEW f, Iterates(f, g, x, 0..m), NEW h, Iterates(h, g, x, 0..n)
  PROVE  \A k \in 0..m : f[k] = h[k]
<1>. DEFINE T == {k \in Nat : k <= m => f[k] = h[k]}
<1>1. \A k \in 0..m : /\ f[k] = IF k = 0 THEN x ELSE g[f[k - 1]]
                      /\ h[k] = IF k = 0 THEN x ELSE g[h[k - 1]]
  BY DEF Iterates
<1>2. 0 \in T
  BY <1>1
<1>3. ASSUME NEW k \in T PROVE k + 1 \in T
  BY <1>1
<1>4. T = Nat
  <2>. HIDE DEF T
  <2>1. T \in SUBSET Nat BY DEF T
  <2>. QED BY <1>2, <1>3, <2>1, Induction
<1>. QED BY <1>4

(* And so one goes on for ever.                                            *)
LEMMA IterationForever ==
  ASSUME NEW g, NEW x
  PROVE  \E f : Iterates(f, g, x, Nat)
<1>. DEFINE upTo(n) == CHOOSE f : Iterates(f, g, x, 0..n)
            f == [n \in Nat |-> upTo(n)[n]]
<1>1. \A n \in Nat : Iterates(upTo(n), g, x, 0..n)
  BY IterationExists
<1>. HIDE DEF upTo
<1>2. ASSUME NEW n \in Nat PROVE f[n] = IF n = 0 THEN x ELSE g[f[n - 1]]
  <2>1. upTo(n)[n] = IF n = 0 THEN x ELSE g[upTo(n)[n - 1]]
    <3>1. n \in 0..n
      OBVIOUS
    <3>. QED BY <1>1, <3>1 DEF Iterates
  <2>2. CASE n # 0
    <3>1. n - 1 \in Nat /\ n - 1 <= n /\ n - 1 \in 0..(n - 1)
      BY <2>2
    <3>2. upTo(n - 1)[n - 1] = upTo(n)[n - 1]
      BY <1>1, <3>1, IterationsAgree
    <3>. QED BY <2>1, <2>2, <3>1, <3>2
  <2>. QED BY <2>1, <2>2
<1>3. Iterates(f, g, x, Nat)
  <2>1. f = [n \in Nat |-> f[n]]
    OBVIOUS
  <2>. HIDE DEF f
  <2>. QED BY <1>2, <2>1 DEF Iterates
<1>. QED BY <1>3

Places(f, n) == {f[k] : k \in 0..n}

(* n steps of g, except that a step from an element of E leads nowhere.    *)
Walking(f, g, E, n) == \A k \in 1..n : f[k] = IF f[k - 1] \in E THEN f[k - 1] ELSE g[f[k - 1]]

(* Where a walk ended it stays.                                            *)
LEMMA WalkStays ==
  ASSUME NEW n \in Nat, NEW E, NEW g, NEW f, Walking(f, g, E, n), NEW d \in 0..n, f[d] \in E
  PROVE  \A k \in d..n : f[k] = f[d]
<1>0. \A k \in 1..n : f[k] = IF f[k - 1] \in E THEN f[k - 1] ELSE g[f[k - 1]]
  BY DEF Walking
<1>. DEFINE T == {j \in Nat : d + j <= n => f[d + j] = f[d]}
<1>1. 0 \in T
  OBVIOUS
<1>2. ASSUME NEW j \in T PROVE j + 1 \in T
  <2>. SUFFICES ASSUME d + (j + 1) <= n PROVE f[d + (j + 1)] = f[d] OBVIOUS
  <2>1. f[d + j] = f[d] /\ d + (j + 1) \in 1..n /\ (d + (j + 1)) - 1 = d + j
    OBVIOUS
  <2>. QED BY <1>0, <2>1
<1>3. T = Nat
  <2>. HIDE DEF T
  <2>1. T \in SUBSET Nat BY DEF T
  <2>. QED BY <1>1, <1>2, <2>1, Induction
<1>4. ASSUME NEW k \in d..n PROVE f[k] = f[d]
  <2>1. k - d \in Nat /\ d + (k - d) = k /\ k <= n
    OBVIOUS
  <2>. QED BY <1>3, <2>1
<1>. QED BY <1>4

(* A walk that ended after n steps is at its end from some step d on, and  *)
(* until then it never visits a place twice.                               *)
LEMMA WalkCounts ==
  ASSUME NEW n \in Nat, NEW E, NEW g, NEW f, Walking(f, g, E, n), f[n] \in E
  PROVE  \E d \in 0..n :
           /\ f[d] \in E /\ \A k \in 0..(d - 1) : f[k] \notin E
           /\ \A k \in d..n : f[k] = f[d]
           /\ Cardinality(Places(f, n)) = d + 1
<1>0. \A k \in 1..n : f[k] = IF f[k - 1] \in E THEN f[k - 1] ELSE g[f[k - 1]]
  BY DEF Walking
<1>. DEFINE Stops == {k \in 0..n : f[k] \in E}
<1>1. PICK d \in Stops : \A k \in Stops : d <= k
  <2>1. Stops \in SUBSET Nat /\ Stops # {}
    OBVIOUS
  <2>. HIDE DEF Stops
  <2>. QED BY <2>1, LeastExists
<1>2. d \in 0..n /\ f[d] \in E
  OBVIOUS
<1>3. \A k \in 0..(d - 1) : f[k] \notin E
  BY <1>1
<1>4. \A k \in d..n : f[k] = f[d]
  BY <1>2, WalkStays
<1>. HIDE DEF Stops
<1>5. ASSUME NEW i \in 0..d, NEW j \in 0..d, i < j PROVE f[i] # f[j]
  <2>. SUFFICES ASSUME f[i] = f[j] PROVE FALSE OBVIOUS
  <2>0. d \in Nat /\ d <= n /\ i \in Nat /\ j \in Nat /\ i < j /\ j <= d
    BY <1>2, <1>5
  <2>. DEFINE T == {t \in Nat : j + t <= d => f[i + t] = f[j + t]}
  <2>1. 0 \in T
    OBVIOUS
  <2>2. ASSUME NEW t \in T PROVE t + 1 \in T
    <3>. SUFFICES ASSUME j + (t + 1) <= d PROVE f[i + (t + 1)] = f[j + (t + 1)] OBVIOUS
    <3>0. t \in Nat /\ j + t <= d
      BY <2>0
    <3>1. f[i + t] = f[j + t]
      BY <3>0
    <3>2. /\ i + (t + 1) \in 1..n /\ (i + (t + 1)) - 1 = i + t
          /\ j + (t + 1) \in 1..n /\ (j + (t + 1)) - 1 = j + t
      BY <2>0, <3>0
    <3>. QED BY <1>0, <3>1, <3>2
  <2>3. T = Nat
    <3>. HIDE DEF T
    <3>1. T \in SUBSET Nat BY DEF T
    <3>. QED BY <2>1, <2>2, <3>1, Induction
  <2>4. d - j \in Nat /\ j + (d - j) = d /\ i + (d - j) \in 0..(d - 1)
    BY <2>0
  <2>5. f[i + (d - j)] = f[d]
    BY <2>3, <2>4
  <2>. QED BY <1>2, <1>3, <2>4, <2>5
<1>6. Cardinality(Places(f, n)) = d + 1
  <2>. DEFINE S == Places(f, n)
              h == [k \in 0..d |-> f[k]]
  <2>1. ASSUME NEW k \in 0..n PROVE \E j \in 0..d : f[j] = f[k]
    <3>1. CASE k \in 0..d
      BY <3>1
    <3>2. CASE k \in d..n
      BY <3>2, <1>2, <1>4
    <3>. QED BY <1>2, <3>1, <3>2
  <2>2. h \in [0..d -> S]
    BY <1>2 DEF Places
  <2>3. h \in Surjection(0..d, S)
    <3>1. \A y \in S : \E j \in 0..d : h[j] = y
      BY <2>1 DEF Places
    <3>. QED BY <2>2, <3>1 DEF Surjection
  <2>4. \A i, j \in 0..d : f[i] = f[j] => i = j
    BY <1>2, <1>5
  <2>5. h \in Injection(0..d, S)
    BY <2>2, <2>4 DEF Injection, IsInjective
  <2>. HIDE DEF S, h
  <2>6. ExistsBijection(0..d, S)
    BY <2>3, <2>5 DEF ExistsBijection, Bijection
  <2>7. IsFiniteSet(0..d) /\ Cardinality(0..d) = d + 1
    BY <1>2, FS_Interval
  <2>8. Cardinality(S) = d + 1
    BY <2>6, <2>7, FS_Bijection
  <2>. QED BY <2>8 DEF S
<1>. QED BY <1>2, <1>3, <1>4, <1>6

(* SetToSeq lists every element of the set once.                           *)
LEMMA ListsOnce ==
  ASSUME NEW S, IsFiniteSet(S)
  PROVE  /\ SetToSeq(S) \in [1..Cardinality(S) -> S] /\ Cardinality(S) \in Nat
         /\ \A i, j \in 1..Cardinality(S) : SetToSeq(S)[i] = SetToSeq(S)[j] => i = j
         /\ \A x \in S : \E i \in 1..Cardinality(S) : SetToSeq(S)[i] = x
<1>. DEFINE N == Cardinality(S)
            order == SetToSeq(S)
<1>1. N \in Nat /\ ExistsBijection(1..N, S)
  BY FS_CardinalityType
<1>2. PICK f \in [1..N -> S] : IsInjective(f)
  BY <1>1 DEF ExistsBijection, Bijection, Injection
<1>3. order \in [1..N -> S] /\ IsInjective(order)
  BY <1>2 DEF SetToSeq
<1>. HIDE DEF order
<1>4. order \in Surjection(1..N, S)
  <2>1. order \in Injection(1..N, S)
    BY <1>3 DEF Injection
  <2>2. Cardinality(1..N) = N
    BY <1>1, FS_Interval
  <2>. QED BY <2>1, <2>2, FS_Injection
<1>. QED BY <1>1, <1>3, <1>4 DEF Surjection, IsInjective, order
-------------------------------------------------------------------------------
(* Walks along the links of a drawing.                                     *)

Graph(ns, rs) ==
  /\ IsFiniteSet(DOMAIN ns)
  /\ \A a \in DOMAIN rs : a \in DOMAIN ns /\ rs[a] \subseteq DOMAIN ns

Ends(ns, rs) == {n \in DOMAIN ns : WalkEnds(ns, rs, n)}
Hop(rs, n) == CHOOSE m \in rs[n] : TRUE

(* What a walk is, as Walk has it.                                         *)
WalksBy(f, start, ns, rs) ==
  f = [k \in 0..Cardinality(DOMAIN ns) |->
         IF k = 0 THEN start
         ELSE LET n == f[k - 1]
              IN  IF WalkEnds(ns, rs, n) THEN n ELSE CHOOSE m \in rs[n] : TRUE]

(* Where a walk goes on, there is one link, to a device that is drawn.     *)
LEMMA HopIs ==
  ASSUME NEW ns, NEW rs, Graph(ns, rs), NEW n \in DOMAIN ns, n \notin Ends(ns, rs)
  PROVE  /\ n \in DOMAIN rs /\ rs[n] = {Hop(rs, n)} /\ Hop(rs, n) \in DOMAIN ns
         /\ ns[n] # "C3"
<1>1. n \in DOMAIN rs /\ Cardinality(rs[n]) = 1 /\ ns[n] # "C3"
  BY DEF Ends, WalkEnds
<1>2. IsFiniteSet(rs[n])
  BY <1>1, FS_Subset DEF Graph
<1>3. PICK m : rs[n] = {m}
  BY <1>1, <1>2, FS_Singleton
<1>. QED BY <1>1, <1>3 DEF Hop, Graph

(* The steps of a walk, one by one.                                        *)
LEMMA WalkIs ==
  ASSUME NEW ns, NEW rs, Graph(ns, rs), NEW start \in DOMAIN ns
  PROVE  /\ Cardinality(DOMAIN ns) \in Nat \ {0}
         /\ Walk(start, ns, rs) \in [0..Cardinality(DOMAIN ns) -> DOMAIN ns]
         /\ Walk(start, ns, rs)[0] = start
         /\ \A k \in 1..Cardinality(DOMAIN ns) :
              LET before == Walk(start, ns, rs)[k - 1]
              IN  Walk(start, ns, rs)[k]
                    = IF before \in Ends(ns, rs) THEN before ELSE Hop(rs, before)
<1>. DEFINE N == DOMAIN ns
            K == Cardinality(N)
            next == [n \in N |-> IF n \in Ends(ns, rs) THEN n ELSE Hop(rs, n)]
            at == Walk(start, ns, rs)
<1>1. K \in Nat \ {0}
  <2>1. IsFiniteSet(N) /\ N # {}
    BY DEF Graph
  <2>. QED BY <2>1, FS_CardinalityType, FS_EmptySet
<1>2. \A n \in N : next[n] \in N
  BY HopIs
<1>3. PICK f : Iterates(f, next, start, Nat)
  BY IterationForever
<1>. HIDE DEF next, N, K
<1>4. \A k \in Nat : f[k] = IF k = 0 THEN start ELSE next[f[k - 1]]
  BY <1>3 DEF Iterates
<1>5. \A k \in Nat : f[k] \in N
  <2>. DEFINE T == {k \in Nat : f[k] \in N}
  <2>1. 0 \in T
    BY <1>4 DEF N
  <2>2. ASSUME NEW k \in T PROVE k + 1 \in T
    BY <1>2, <1>4
  <2>3. T = Nat
    <3>. HIDE DEF T
    <3>1. T \in SUBSET Nat BY DEF T
    <3>. QED BY <2>1, <2>2, <3>1, Induction
  <2>. QED BY <2>3
<1>6. \A n \in N : next[n] = IF WalkEnds(ns, rs, n) THEN n ELSE CHOOSE m \in rs[n] : TRUE
  BY DEF next, N, Ends, Hop
<1>. DEFINE h == [k \in 0..K |-> f[k]]
<1>7. WalksBy(h, start, ns, rs)
  <2>1. \A k \in 0..K : h[k] = f[k]
    OBVIOUS
  <2>2. h = [k \in 0..K |-> h[k]]
    OBVIOUS
  <2>. HIDE DEF h
  <2>3. ASSUME NEW k \in 0..K
        PROVE  h[k] = IF k = 0 THEN start
                      ELSE LET n == h[k - 1]
                           IN  IF WalkEnds(ns, rs, n) THEN n ELSE CHOOSE m \in rs[n] : TRUE
    <3>1. CASE k = 0
      BY <3>1, <2>1, <1>4
    <3>2. CASE k # 0
      <4>1. k \in Nat /\ k - 1 \in Nat /\ k - 1 \in 0..K
        BY <3>2, <1>1
      <4>2. h[k] = next[f[k - 1]] /\ h[k - 1] = f[k - 1] /\ f[k - 1] \in N
        BY <4>1, <3>2, <2>1, <1>4, <1>5
      <4>. QED BY <4>2, <3>2, <1>6
    <3>. QED BY <3>1, <3>2
  <2>. QED BY <2>2, <2>3 DEF WalksBy, K, N
<1>8. WalksBy(at, start, ns, rs)
  <2>. HIDE DEF h
  <2>1. at = CHOOSE w : WalksBy(w, start, ns, rs)
    BY DEF Walk, WalksBy
  <2>. QED BY <1>7, <2>1
<1>. HIDE DEF at, h
<1>9. /\ at = [k \in 0..K |-> at[k]]
      /\ \A k \in 0..K : at[k] = IF k = 0 THEN start
                ELSE LET n == at[k - 1]
                     IN  IF WalkEnds(ns, rs, n) THEN n ELSE CHOOSE m \in rs[n] : TRUE
  BY <1>8 DEF WalksBy, K, N
<1>10. \A k \in Nat : k <= K => at[k] = f[k]
  <2>. DEFINE T == {k \in Nat : k <= K => at[k] = f[k]}
  <2>1. 0 \in T
    <3>1. 0 \in 0..K /\ 0 \in Nat
      BY <1>1
    <3>2. at[0] = start /\ f[0] = start
      BY <3>1, <1>4, <1>9
    <3>. QED BY <3>2
  <2>2. ASSUME NEW k \in T PROVE k + 1 \in T
    <3>. SUFFICES ASSUME k + 1 <= K PROVE at[k + 1] = f[k + 1] OBVIOUS
    <3>1. k \in Nat /\ k <= K /\ k + 1 \in 0..K /\ k + 1 # 0 /\ (k + 1) - 1 = k /\ at[k] = f[k]
      BY <1>1
    <3>2. f[k] \in N /\ f[k + 1] = next[f[k]]
      BY <3>1, <1>4, <1>5
    <3>3. at[k + 1] = IF WalkEnds(ns, rs, f[k]) THEN f[k] ELSE CHOOSE m \in rs[f[k]] : TRUE
      BY <3>1, <1>9
    <3>. QED BY <3>2, <3>3, <1>6
  <2>3. T = Nat
    <3>. HIDE DEF T
    <3>1. T \in SUBSET Nat BY DEF T
    <3>. QED BY <2>1, <2>2, <3>1, Induction
  <2>. QED BY <2>3
<1>11. \A k \in 0..K : at[k] = f[k] /\ at[k] \in N
  BY <1>1, <1>5, <1>10
<1>12. \A k \in 1..K : at[k] = IF at[k - 1] \in Ends(ns, rs) THEN at[k - 1] ELSE Hop(rs, at[k - 1])
  <2>1. ASSUME NEW k \in 1..K
        PROVE  at[k] = IF at[k - 1] \in Ends(ns, rs) THEN at[k - 1] ELSE Hop(rs, at[k - 1])
    <3>1. k \in 0..K /\ k # 0 /\ k - 1 \in 0..K /\ k \in Nat
      BY <1>1
    <3>2. at[k] = next[at[k - 1]] /\ at[k - 1] \in N
      BY <3>1, <1>4, <1>11
    <3>. QED BY <3>2 DEF next
  <2>. QED BY <2>1
<1>13. at \in [0..K -> N] /\ at[0] = start
  <2>1. 0 \in 0..K
    BY <1>1
  <2>2. at[0] = start
    BY <2>1, <1>9
  <2>3. at = [k \in 0..K |-> at[k]] /\ \A k \in 0..K : at[k] \in N
    BY <1>9, <1>11
  <2>4. at \in [0..K -> N]
    BY ONLY <2>3
  <2>. QED BY <2>2, <2>4
<1>. QED BY <1>1, <1>12, <1>13 DEF at, K, N

(* A route of d hops: the walk is over after d steps and not before.       *)
Route(start, ns, rs, d) ==
  LET at == Walk(start, ns, rs)
  IN  /\ d \in 0..Cardinality(DOMAIN ns)
      /\ at[d] \in Ends(ns, rs)
      /\ \A k \in 0..(d - 1) : at[k] \notin Ends(ns, rs)

(* A valid route starts with the one link of the device, and is as long as *)
(* the hop count that computeRoutingInfo finds by counting the places it   *)
(* was at.                                                                 *)
LEMMA RouteIs ==
  ASSUME NEW ns, NEW rs, Graph(ns, rs), NEW n \in DOMAIN ns,
         ns[n] # "C3", Linked(rs, n) # {}, RouteValid(n, ns, rs)
  PROVE  /\ n \notin Ends(ns, rs)
         /\ RoutingInfo(n, ns, rs).nextHop = Hop(rs, n)
         /\ RoutingInfo(n, ns, rs).hopCount \in Nat \ {0}
         /\ Route(n, ns, rs, RoutingInfo(n, ns, rs).hopCount)
         /\ Walk(n, ns, rs)[Cardinality(DOMAIN ns)] \notin DOMAIN rs
<1>. DEFINE at == Walk(n, ns, rs)
            K == Cardinality(DOMAIN ns)
            E == Ends(ns, rs)
            places == {at[k] : k \in DOMAIN at}
            info == RoutingInfo(n, ns, rs)
<1>1. /\ K \in Nat \ {0} /\ at \in [0..K -> DOMAIN ns] /\ at[0] = n
      /\ \A k \in 1..K : at[k] = IF at[k - 1] \in E THEN at[k - 1] ELSE Hop(rs, at[k - 1])
  BY WalkIs
<1>2. at[K] \in E /\ at[K] \notin DOMAIN rs
  <2>1. WalkEnds(ns, rs, at[K]) /\ at[K] \notin DOMAIN rs
    BY DEF RouteValid
  <2>. QED BY <1>1, <2>1 DEF Ends
<1>3. info.nextHop = at[1] /\ info.hopCount = Cardinality(places) - 1
  BY DEF RoutingInfo
<1>. HIDE DEF at, E, info
<1>4. PICK d \in 0..K :
        /\ at[d] \in E /\ \A k \in 0..(d - 1) : at[k] \notin E
        /\ \A k \in d..K : at[k] = at[d]
        /\ Cardinality(Places(at, K)) = d + 1
  <2>. DEFINE g == [m \in DOMAIN ns |-> Hop(rs, m)]
  <2>1. Walking(at, g, E, K)
    BY <1>1 DEF Walking
  <2>2. K \in Nat
    BY <1>1
  <2>3. at[K] \in E
    BY <1>2
  <2>. HIDE DEF g, K
  <2>. QED BY ONLY <2>1, <2>2, <2>3, WalkCounts
<1>5. d = info.hopCount
  <2>1. DOMAIN at = 0..K
    BY <1>1
  <2>2. places = Places(at, K)
    BY <2>1 DEF Places
  <2>. HIDE DEF places, K
  <2>3. Cardinality(places) = d + 1 /\ d \in Nat
    BY <1>1, <1>4, <2>2
  <2>. QED BY <1>3, <2>3
<1>6. n \in DOMAIN rs
  BY DEF Linked
<1>7. n \notin E
  <2>. SUFFICES ASSUME n \in E PROVE FALSE OBVIOUS
  <2>1. d = 0
    BY <1>1, <1>4
  <2>2. at[K] = n
    BY <1>1, <1>4, <2>1
  <2>. QED BY <1>2, <1>6, <2>2
<1>8. d # 0
  BY <1>1, <1>4, <1>7
<1>9. at[1] = Hop(rs, n)
  BY <1>1, <1>7
<1>. QED BY <1>2, <1>3, <1>4, <1>5, <1>7, <1>8, <1>9 DEF Route, at, E, info

(* From the next device on, the route is the same, one hop shorter.        *)
LEMMA RouteOfNext ==
  ASSUME NEW ns, NEW rs, Graph(ns, rs), NEW n \in DOMAIN ns, n \notin Ends(ns, rs),
         NEW d \in Nat \ {0}, Route(n, ns, rs, d), NEW e, Route(Hop(rs, n), ns, rs, e)
  PROVE  d = e + 1
<1>. DEFINE m == Hop(rs, n)
            at == Walk(n, ns, rs)
            to == Walk(m, ns, rs)
            K == Cardinality(DOMAIN ns)
            E == Ends(ns, rs)
            T == {k \in Nat : k + 1 <= K => at[k + 1] = to[k]}
<1>1. m \in DOMAIN ns
  BY HopIs
<1>2. /\ K \in Nat \ {0} /\ at[0] = n
      /\ \A k \in 1..K : at[k] = IF at[k - 1] \in E THEN at[k - 1] ELSE Hop(rs, at[k - 1])
  BY WalkIs
<1>3. /\ to[0] = m
      /\ \A k \in 1..K : to[k] = IF to[k - 1] \in E THEN to[k - 1] ELSE Hop(rs, to[k - 1])
  BY <1>1, WalkIs
<1>4. /\ d <= K /\ at[d] \in E /\ \A k \in 0..(d - 1) : at[k] \notin E
      /\ e \in 0..K /\ to[e] \in E /\ \A k \in 0..(e - 1) : to[k] \notin E
  BY <1>2 DEF Route
<1>5. n \notin E
  OBVIOUS
<1>. HIDE DEF at, to, E, K
<1>6. T = Nat
  <2>1. 0 \in T
    BY <1>2, <1>3, <1>5
  <2>2. ASSUME NEW k \in T PROVE k + 1 \in T
    <3>. SUFFICES ASSUME (k + 1) + 1 <= K PROVE at[(k + 1) + 1] = to[k + 1] OBVIOUS
    <3>1. /\ k \in Nat /\ at[k + 1] = to[k]
          /\ (k + 1) + 1 \in 1..K /\ ((k + 1) + 1) - 1 = k + 1
          /\ k + 1 \in 1..K /\ (k + 1) - 1 = k
      BY <1>2
    <3>. QED BY <3>1, <1>2, <1>3
  <2>3. T \in SUBSET Nat
    OBVIOUS
  <2>. HIDE DEF T
  <2>. QED BY <2>1, <2>2, <2>3, Induction
<1>7. \A k \in 0..(K - 1) : at[k + 1] = to[k]
  BY <1>2, <1>6
<1>8. to[d - 1] \in E
  <2>1. d - 1 \in 0..(K - 1) /\ (d - 1) + 1 = d
    BY <1>2, <1>4
  <2>. QED BY <1>4, <1>7, <2>1
<1>9. e <= d - 1
  <2>. SUFFICES ASSUME d - 1 < e PROVE FALSE
    BY <1>2, <1>4
  <2>1. d - 1 \in 0..(e - 1)
    BY <1>2, <1>4
  <2>. QED BY <1>4, <1>8, <2>1
<1>10. ~(e < d - 1)
  <2>. SUFFICES ASSUME e < d - 1 PROVE FALSE OBVIOUS
  <2>1. e \in 0..(K - 1) /\ e + 1 \in 0..(d - 1)
    BY <1>2, <1>4
  <2>2. at[e + 1] = to[e]
    BY <1>7, <2>1
  <2>. QED BY <1>4, <2>1, <2>2
<1>11. e \in Nat /\ d \in Nat
  BY <1>2, <1>4
<1>. QED BY <1>9, <1>10, <1>11
-------------------------------------------------------------------------------
(* What the editor writes, and what is read from a file without duplicates. *)

(* The line of a device.                                                   *)
LineOf(n, ns, rs) ==
  IF ns[n] = "C3" THEN NodeLine(n, "C3", Absent, Absent)
  ELSE NodeLine(n, ns[n], RoutingInfo(n, ns, rs).nextHop, RoutingInfo(n, ns, rs).hopCount)

(* One line for each device, in some order.                                *)
LEMMA WrittenLines ==
  ASSUME NEW ns, NEW rs, Graph(ns, rs)
  PROVE  LET f == FileOf(ns, rs)
         IN  /\ DOMAIN f = 1..Cardinality(DOMAIN ns) /\ f = [i \in DOMAIN f |-> f[i]]
             /\ Cardinality(DOMAIN ns) \in Nat
             /\ IdsUnique(f) /\ FileIds(f) = DOMAIN ns
             /\ \A i \in DOMAIN f : f[i] = LineOf(f[i].id, ns, rs)
<1>. DEFINE order == SetToSeq(DOMAIN ns)
            K == Cardinality(DOMAIN ns)
            f == FileOf(ns, rs)
<1>1. /\ order \in [1..K -> DOMAIN ns] /\ K \in Nat
      /\ \A i, j \in 1..K : order[i] = order[j] => i = j
      /\ \A n \in DOMAIN ns : \E i \in 1..K : order[i] = n
  BY ListsOnce DEF Graph
<1>2. f = [i \in DOMAIN order |-> LineOf(order[i], ns, rs)]
  BY DEF FileOf, LineOf
<1>. HIDE DEF order, f, K
<1>3. DOMAIN f = 1..K /\ f = [i \in DOMAIN f |-> f[i]]
  BY <1>1, <1>2
<1>4. \A i \in 1..K : f[i] = LineOf(order[i], ns, rs)
  BY <1>1, <1>2
<1>5. \A n : LineOf(n, ns, rs).id = n
  BY DEF LineOf, NodeLine
<1>6. \A i \in 1..K : f[i].id = order[i]
  BY <1>4, <1>5
<1>7. IdsUnique(f)
  BY <1>1, <1>3, <1>6 DEF IdsUnique
<1>8. FileIds(f) = DOMAIN ns
  <2>1. \A i \in 1..K : order[i] \in DOMAIN ns
    BY <1>1
  <2>2. FileIds(f) = {order[i] : i \in 1..K}
    BY <1>3, <1>6 DEF FileIds
  <2>3. \A n \in DOMAIN ns : \E i \in 1..K : order[i] = n
    BY <1>1
  <2>. QED BY ONLY <2>1, <2>2, <2>3
<1>9. \A i \in DOMAIN f : f[i] = LineOf(f[i].id, ns, rs)
  BY <1>3, <1>4, <1>6
<1>. QED BY <1>1, <1>3, <1>7, <1>8, <1>9 DEF f, K

(* The one line among those that can be meant.                             *)
LEMMA LastOfOne ==
  ASSUME NEW f, NEW i \in Nat
  PROVE  LastOf(f, {i}) = f[i]
<1>1. (CHOOSE j \in {i} : \A k \in {i} : k <= j) = i
  <2>1. \E j \in {i} : \A k \in {i} : k <= j
    OBVIOUS
  <2>. QED BY <2>1
<1>. QED BY <1>1 DEF LastOf

(* All that the readers make of a line when no other has its identifier.   *)
LEMMA UniqueRead ==
  ASSUME NEW f, DOMAIN f \subseteq Nat, IdsUnique(f), NEW i \in DOMAIN f
  PROVE  LET n == f[i].id
         IN  /\ LastOf(f, {j \in DOMAIN f : f[j].id = n}) = f[i]
             /\ n \in FileIds(f)
             /\ ReadNodes(f)[n] = f[i].class
             /\ ParsedLines(f)[n] = f[i]
             /\ n \in DOMAIN NextHopMap(f) <=> f[i].nextHop # Absent
             /\ n \in DOMAIN NextHopMap(f) => NextHopMap(f)[n] = f[i].nextHop
<1>. DEFINE n == f[i].id
<1>1. {j \in DOMAIN f : f[j].id = n} = {i}
  BY DEF IdsUnique
<1>2. LastOf(f, {j \in DOMAIN f : f[j].id = n}) = f[i]
  <2>1. i \in Nat
    OBVIOUS
  <2>2. LastOf(f, {i}) = f[i]
    BY <2>1, LastOfOne
  <2>. QED BY <1>1, <2>2
<1>3. n \in FileIds(f)
  BY DEF FileIds
<1>4. ReadNodes(f)[n] = f[i].class /\ ParsedLines(f)[n] = f[i]
  BY <1>2, <1>3 DEF ReadNodes, ParsedLines
<1>5. HopLines(f, n) = IF f[i].nextHop = Absent THEN {} ELSE {i}
  BY <1>1 DEF HopLines
<1>6. n \in DOMAIN NextHopMap(f) <=> f[i].nextHop # Absent
  BY <1>3, <1>5 DEF NextHopMap
<1>7. n \in DOMAIN NextHopMap(f) => NextHopMap(f)[n] = LastOf(f, HopLines(f, n)).nextHop
  BY DEF NextHopMap
<1>8. n \in DOMAIN NextHopMap(f) => NextHopMap(f)[n] = f[i].nextHop
  <2>1. LastOf(f, {i}) = f[i]
    BY LastOfOne
  <2>. QED BY <1>5, <1>6, <1>7, <2>1
<1>. QED BY <1>2, <1>3, <1>4, <1>6, <1>8

(* A drawing as the editor can have it.                                    *)
Drawn(ns, rs) ==
  /\ Graph(ns, rs)
  /\ ns = [n \in DOMAIN ns |-> ns[n]] /\ rs = [a \in DOMAIN rs |-> rs[a]]
  /\ \A n \in DOMAIN ns : n \in Nat \ {0} /\ ns[n] \in DeviceClass

(* The lines of a drawing that can be written.                             *)
LEMMA WrittenLine ==
  ASSUME NEW ns, NEW rs, Drawn(ns, rs), Writable(ns, rs), NEW n \in DOMAIN ns
  PROVE  LET l == LineOf(n, ns, rs)
         IN  /\ l.id = n /\ l.class = ns[n]
             /\ ns[n] = "C3" \/ Linked(rs, n) = {}
                  => l.nextHop = Absent /\ l.hopCount = Absent
             /\ ns[n] # "C3" /\ Linked(rs, n) # {}
                  => /\ l.nextHop \in DOMAIN ns \ {Absent} /\ l.nextHop = Hop(rs, n)
                     /\ n \in DOMAIN rs /\ rs[n] = {l.nextHop}
                     /\ n \notin Ends(ns, rs)
                     /\ l.hopCount \in Nat \ {0} /\ Route(n, ns, rs, l.hopCount)
<1>. DEFINE l == LineOf(n, ns, rs)
<1>1. l.id = n /\ l.class = ns[n]
  BY DEF LineOf, NodeLine
<1>2. ASSUME ns[n] = "C3" \/ Linked(rs, n) = {}
      PROVE  l.nextHop = Absent /\ l.hopCount = Absent
  BY <1>2 DEF LineOf, NodeLine, RoutingInfo
<1>3. ASSUME ns[n] # "C3", Linked(rs, n) # {}
      PROVE  /\ l.nextHop \in DOMAIN ns \ {Absent} /\ l.nextHop = Hop(rs, n)
             /\ n \in DOMAIN rs /\ rs[n] = {l.nextHop}
             /\ n \notin Ends(ns, rs)
             /\ l.hopCount \in Nat \ {0} /\ Route(n, ns, rs, l.hopCount)
  <2>1. Graph(ns, rs) /\ RouteValid(n, ns, rs)
    BY <1>3 DEF Drawn, Writable
  <2>2. /\ n \notin Ends(ns, rs) /\ RoutingInfo(n, ns, rs).nextHop = Hop(rs, n)
        /\ RoutingInfo(n, ns, rs).hopCount \in Nat \ {0}
        /\ Route(n, ns, rs, RoutingInfo(n, ns, rs).hopCount)
    BY <1>3, <2>1, RouteIs
  <2>3. n \in DOMAIN rs /\ rs[n] = {Hop(rs, n)} /\ Hop(rs, n) \in DOMAIN ns
    BY <2>1, <2>2, HopIs
  <2>4. l.nextHop = RoutingInfo(n, ns, rs).nextHop /\ l.hopCount = RoutingInfo(n, ns, rs).hopCount
    BY <1>3 DEF LineOf, NodeLine
  <2>5. Hop(rs, n) # Absent
    BY <2>3 DEF Drawn, Absent
  <2>. QED BY <2>2, <2>3, <2>4, <2>5
<1>. QED BY <1>1, <1>2, <1>3

(* The file of a drawing reads back as the drawing, every hop count is one *)
(* more than that of the next hop, and it is deployed if there is no C1.   *)
LEMMA WrittenIsDrawn ==
  ASSUME NEW ns, NEW rs, Drawn(ns, rs), Writable(ns, rs), NEW f, f = FileOf(ns, rs)
  PROVE  /\ ReadNodes(f) = ns
         /\ ReadRoutings(f) =
              {[n \in {m \in DOMAIN rs : ns[m] # "C3" /\ rs[m] # {}} |-> rs[n]]}
         /\ Deploys(f) <=> \A n \in DOMAIN ns : ns[n] # "C1"
         /\ Deploys(f) =>
              (CrashesAtStart(f) <=> \E n \in DOMAIN ns : ns[n] = "C2" /\ Linked(rs, n) = {})
<1>. DEFINE line(n) == LineOf(n, ns, rs)
            Routed == {m \in DOMAIN rs : ns[m] # "C3" /\ rs[m] # {}}
<1>1. /\ DOMAIN f \subseteq Nat /\ IdsUnique(f) /\ FileIds(f) = DOMAIN ns
      /\ \A i \in DOMAIN f : f[i] = line(f[i].id)
  <2>1. Graph(ns, rs)
    BY DEF Drawn
  <2>. QED BY <2>1, WrittenLines
<1>2. \A i \in DOMAIN f : f[i].id \in DOMAIN ns
  BY <1>1 DEF FileIds
<1>3. \A n \in DOMAIN ns : \E i \in DOMAIN f : f[i].id = n
  BY <1>1 DEF FileIds
<1>4. \A n \in DOMAIN ns :
        /\ line(n).class = ns[n]
        /\ ns[n] = "C3" \/ Linked(rs, n) = {} =>
             line(n).nextHop = Absent /\ line(n).hopCount = Absent
        /\ ns[n] # "C3" /\ Linked(rs, n) # {} =>
             /\ line(n).nextHop \in DOMAIN ns /\ line(n).nextHop # Absent
             /\ n \in DOMAIN rs /\ rs[n] = {line(n).nextHop}
             /\ line(n).hopCount # Absent
  BY WrittenLine DEF Absent
<1>. HIDE DEF line
<1>5. \A n \in DOMAIN ns :
        /\ ReadNodes(f)[n] = ns[n]
        /\ n \in DOMAIN NextHopMap(f) <=> line(n).nextHop # Absent
        /\ n \in DOMAIN NextHopMap(f) => NextHopMap(f)[n] = line(n).nextHop
  <2>1. ASSUME NEW n \in DOMAIN ns
        PROVE  /\ ReadNodes(f)[n] = ns[n]
               /\ n \in DOMAIN NextHopMap(f) <=> line(n).nextHop # Absent
               /\ n \in DOMAIN NextHopMap(f) => NextHopMap(f)[n] = line(n).nextHop
    <3>1. PICK i \in DOMAIN f : f[i].id = n
      BY <1>3
    <3>2. f[i] = line(n)
      BY <1>1, <3>1
    <3>3. LET m == f[i].id
          IN  /\ ReadNodes(f)[m] = f[i].class
              /\ m \in DOMAIN NextHopMap(f) <=> f[i].nextHop # Absent
              /\ m \in DOMAIN NextHopMap(f) => NextHopMap(f)[m] = f[i].nextHop
      BY <1>1, UniqueRead
    <3>. QED BY <1>4, <3>1, <3>2, <3>3
  <2>. QED BY <2>1
<1>6. ReadNodes(f) = ns
  <2>1. /\ DOMAIN ReadNodes(f) = DOMAIN ns
        /\ ReadNodes(f) = [n \in DOMAIN ReadNodes(f) |-> ReadNodes(f)[n]]
    BY <1>1 DEF ReadNodes
  <2>2. ns = [n \in DOMAIN ns |-> ns[n]]
    BY DEF Drawn
  <2>. QED BY <1>5, <2>1, <2>2
<1>7. DOMAIN NextHopMap(f) \subseteq DOMAIN ns
  BY <1>1 DEF NextHopMap
<1>8. DOMAIN NextHopMap(f) = Routed /\ \A n \in Routed : rs[n] = {NextHopMap(f)[n]}
  <2>2. DOMAIN rs \subseteq DOMAIN ns
    BY DEF Drawn, Graph
  <2>3. \A n \in DOMAIN ns : Linked(rs, n) # {} <=> n \in DOMAIN rs /\ rs[n] # {}
    BY DEF Linked
  <2>4. ASSUME NEW n \in DOMAIN ns
        PROVE  n \in DOMAIN NextHopMap(f) <=> n \in Routed
    BY <1>4, <1>5, <2>3
  <2>5. DOMAIN NextHopMap(f) = Routed
    BY <1>7, <2>2, <2>4
  <2>6. ASSUME NEW n \in Routed PROVE rs[n] = {NextHopMap(f)[n]}
    BY <1>4, <1>5, <2>2, <2>3, <2>4
  <2>. QED BY <2>5, <2>6
<1>9. KnownHops(f) = Routed /\ HopsExist(f)
  <2>1. \A n \in Routed : NextHopMap(f)[n] \in DOMAIN ns
    <3>1. Routed \subseteq DOMAIN ns
      BY <1>7, <1>8
    <3>. QED BY <1>4, <1>5, <1>8, <3>1
  <2>2. KnownHops(f) = Routed
    BY <1>1, <1>8, <2>1 DEF KnownHops
  <2>. QED BY <1>8, <2>2 DEF HopsExist
<1>10. ReadRoutings(f) = {[n \in Routed |-> rs[n]]}
  <2>1. ReadRoutings(f) = {[n \in Routed |-> {NextHopMap(f)[n]}]}
    BY <1>9 DEF ReadRoutings
  <2>2. [n \in Routed |-> {NextHopMap(f)[n]}] = [n \in Routed |-> rs[n]]
    BY <1>8
  <2>. QED BY <2>1, <2>2
<1>11. Deploys(f) <=> \A n \in DOMAIN ns : ns[n] # "C1"
  <2>1. \A n \in DOMAIN ns : ns[n] \in SimulatedClass <=> ns[n] # "C1"
    BY DEF Drawn, DeviceClass, SimulatedClass
  <2>2. \A i \in DOMAIN f : f[i].class = ns[f[i].id]
    BY <1>1, <1>2, <1>4
  <2>. QED BY <1>1, <1>2, <1>3, <2>1, <2>2 DEF Deploys
<1>12. Deploys(f) =>
         (CrashesAtStart(f) <=> \E n \in DOMAIN ns : ns[n] = "C2" /\ Linked(rs, n) = {})
  <2>1. \A n \in DOMAIN ns : BuiltWithoutRoute(line(n)) <=> ns[n] = "C2" /\ Linked(rs, n) = {}
    BY <1>4 DEF BuiltWithoutRoute
  <2>2. Deploys(f) => (CrashesAtStart(f) <=> \E i \in DOMAIN f : BuiltWithoutRoute(f[i]))
    BY DEF CrashesAtStart
  <2>. QED BY <1>1, <1>2, <1>3, <2>1, <2>2
<1>. QED BY <1>6, <1>10, <1>11, <1>12

(* The hop counts of a file of a drawing.                                  *)
LEMMA CountsFollow ==
  ASSUME NEW ns, NEW rs, Drawn(ns, rs), Writable(ns, rs), NEW n \in DOMAIN ns,
         LineOf(n, ns, rs).nextHop # Absent
  PROVE  LineOf(n, ns, rs).hopCount
           = LineOf(LineOf(n, ns, rs).nextHop, ns, rs).hopCount + 1
<1>. DEFINE l == LineOf(n, ns, rs)
            m == l.nextHop
            d == l.hopCount
            e == LineOf(m, ns, rs).hopCount
<1>1. /\ m \in DOMAIN ns /\ m = Hop(rs, n) /\ n \notin Ends(ns, rs)
      /\ d \in Nat \ {0} /\ Route(n, ns, rs, d)
  <2>1. ns[n] # "C3" /\ Linked(rs, n) # {}
    BY WrittenLine
  <2>. QED BY <2>1, WrittenLine
<1>2. Graph(ns, rs)
  BY DEF Drawn
<1>3. ASSUME ns[m] # "C3", Linked(rs, m) # {}
      PROVE  d = e + 1
  <2>1. Route(m, ns, rs, e)
    BY <1>1, <1>3, WrittenLine
  <2>. HIDE DEF d, e, m
  <2>. QED BY <1>1, <1>2, <2>1, RouteOfNext
<1>4. ASSUME ns[m] = "C3" \/ Linked(rs, m) = {}
      PROVE  d = e + 1
  <2>1. e = 0
    BY <1>1, <1>4, WrittenLine DEF Absent
  <2>2. m \in Ends(ns, rs)
    <3>1. CASE ns[m] = "C3"
      BY <1>1, <3>1 DEF Ends, WalkEnds
    <3>2. CASE Linked(rs, m) = {} /\ m \in DOMAIN rs
      <4>1. rs[m] = {}
        BY <3>2 DEF Linked
      <4>2. Cardinality({}) = 0
        BY FS_EmptySet
      <4>. QED BY <1>1, <4>1, <4>2 DEF Ends, WalkEnds
    <3>3. CASE m \notin DOMAIN rs
      BY <1>1, <3>3 DEF Ends, WalkEnds
    <3>. QED BY <1>4, <3>1, <3>2, <3>3
  <2>3. Walk(n, ns, rs)[1] = m
    <3>1. 1 \in 1..Cardinality(DOMAIN ns) /\ Walk(n, ns, rs)[0] = n
      BY <1>2, WalkIs
    <3>2. Walk(n, ns, rs)[1] = Hop(rs, n)
      <4>1. 1 - 1 = 0
        OBVIOUS
      <4>. QED BY <1>1, <1>2, <3>1, <4>1, WalkIs
    <3>. QED BY <1>1, <3>2
  <2>4. \A k \in 0..(d - 1) : Walk(n, ns, rs)[k] \notin Ends(ns, rs)
    BY <1>1 DEF Route
  <2>. HIDE DEF d, e, m
  <2>5. d = 1
    <3>. SUFFICES ASSUME d # 1 PROVE FALSE OBVIOUS
    <3>1. 1 \in 0..(d - 1)
      BY <1>1
    <3>. QED BY <2>2, <2>3, <2>4, <3>1
  <2>. QED BY <2>1, <2>5
<1>5. d = e + 1
  BY <1>3, <1>4
<1>. QED BY <1>5
-------------------------------------------------------------------------------
(* A file that the verification script passes.                             *)

(* What a trace is, as TracesTo has it.                                    *)
TracesBy(f, gateway, lines, n) ==
  f = [k \in 0..Cardinality(DOMAIN lines) |->
         IF k = 0 THEN n
         ELSE LET m == f[k - 1]
              IN  IF m = gateway \/ lines[m].nextHop \notin DOMAIN lines THEN m
                  ELSE lines[m].nextHop]

(* There is only one trace.                                                *)
LEMMA OneTrace ==
  ASSUME NEW gateway, NEW lines, NEW n, Cardinality(DOMAIN lines) \in Nat,
         NEW f, TracesBy(f, gateway, lines, n)
  PROVE  TracesTo(gateway, lines, n) <=>
           LET steps == {k \in 0..Cardinality(DOMAIN lines) : f[k] = gateway}
           IN  lines[n].hopCount \in steps /\ \A k \in steps : lines[n].hopCount <= k
<1>. DEFINE K == Cardinality(DOMAIN lines)
            at == CHOOSE w : TracesBy(w, gateway, lines, n)
            step(m) == IF m = gateway \/ lines[m].nextHop \notin DOMAIN lines THEN m
                       ELSE lines[m].nextHop
            T == {k \in Nat : k <= K => at[k] = f[k]}
<1>1. TracesBy(at, gateway, lines, n)
  OBVIOUS
<1>2. TracesTo(gateway, lines, n) <=>
        LET steps == {k \in DOMAIN at : at[k] = gateway}
        IN  lines[n].hopCount \in steps /\ \A k \in steps : lines[n].hopCount <= k
  BY DEF TracesTo, TracesBy
<1>. HIDE DEF at
<1>3. /\ DOMAIN at = 0..K
      /\ \A k \in 0..K : /\ at[k] = IF k = 0 THEN n ELSE step(at[k - 1])
                         /\ f[k] = IF k = 0 THEN n ELSE step(f[k - 1])
  BY <1>1 DEF TracesBy
<1>. HIDE DEF K, step
<1>4. T = Nat
  <2>1. 0 \in T
    <3>1. 0 \in 0..K BY DEF K
    <3>. QED BY <1>3, <3>1
  <2>2. ASSUME NEW k \in T PROVE k + 1 \in T
    <3>. SUFFICES ASSUME k + 1 <= K PROVE at[k + 1] = f[k + 1] OBVIOUS
    <3>1. k \in Nat /\ at[k] = f[k] /\ k + 1 \in 0..K /\ k + 1 # 0 /\ (k + 1) - 1 = k
      BY DEF K
    <3>. QED BY <1>3, <3>1
  <2>3. T \in SUBSET Nat
    OBVIOUS
  <2>. HIDE DEF T
  <2>. QED BY <2>1, <2>2, <2>3, Induction
<1>5. \A k \in 0..K : at[k] = f[k]
  BY <1>4 DEF K
<1>6. {k \in DOMAIN at : at[k] = gateway} = {k \in 0..K : f[k] = gateway}
  BY <1>3, <1>5
<1>. QED BY <1>2, <1>6 DEF K

(* A route has one length.                                                 *)
LEMMA OneRoute ==
  ASSUME NEW ns, NEW rs, Graph(ns, rs), NEW n,
         NEW d, Route(n, ns, rs, d), NEW e, Route(n, ns, rs, e)
  PROVE  d = e
<1>. DEFINE at == Walk(n, ns, rs)
            E == Ends(ns, rs)
<1>1. Cardinality(DOMAIN ns) \in Nat
  BY FS_CardinalityType DEF Graph
<1>2. /\ d \in Nat /\ at[d] \in E /\ \A k \in 0..(d - 1) : at[k] \notin E
      /\ e \in Nat /\ at[e] \in E /\ \A k \in 0..(e - 1) : at[k] \notin E
  BY <1>1 DEF Route
<1>. HIDE DEF at, E
<1>3. ~(d < e)
  <2>1. d < e => d \in 0..(e - 1)
    BY <1>2
  <2>. QED BY <1>2, <2>1
<1>4. ~(e < d)
  <2>1. e < d => e \in 0..(d - 1)
    BY <1>2
  <2>. QED BY <1>2, <2>1
<1>. QED BY <1>2, <1>3, <1>4

Plain(f) ==
  \A i \in DOMAIN f :
    /\ f[i].class = "C3" => f[i].nextHop = Absent /\ f[i].hopCount = Absent
    /\ f[i].class \notin SimulatedClass => f[i].nextHop # Absent /\ f[i].hopCount # Absent

(* A file of known classes that passes, with lines by identifier, and what the readers make *)
(* of it: the drawing ns and rs, where all routes end at the gateway g.    *)
Passes(f, ls, g) ==
  /\ DOMAIN f \subseteq Nat /\ IdsUnique(f) /\ IsFiniteSet(FileIds(f))
  /\ ls = ParsedLines(f) /\ DOMAIN ls = FileIds(f)
  /\ \A i \in DOMAIN f : ls[f[i].id] = f[i] /\ f[i].id \in FileIds(f)
  /\ \A n \in FileIds(f) :
       /\ n \in Nat \ {0}
       /\ \E i \in DOMAIN f : f[i].id = n
       /\ ls[n] = NodeLine(n, ls[n].class, ls[n].nextHop, ls[n].hopCount)
       /\ \/ n = g /\ ls[n].class = "C3" /\ ls[n].nextHop = Absent /\ ls[n].hopCount = Absent
          \/ /\ n # g /\ ls[n].class \in DeviceClass \ {"C3"}
             /\ ls[n].nextHop \in FileIds(f) /\ ls[n].nextHop # Absent /\ ls[n].hopCount # Absent
             /\ TracesTo(g, ls, n)
  /\ g \in FileIds(f)

RoutesOf(ls, g) == [n \in DOMAIN ls \ {g} |-> {ls[n].nextHop}]

(* What a reader makes of it.                                              *)
LEMMA PassedIsRead ==
  ASSUME NEW f, NEW ls, NEW g, Passes(f, ls, g)
  PROVE  /\ HopsExist(f)
         /\ ReadNodes(f) = [n \in DOMAIN ls |-> ls[n].class]
         /\ ReadRoutings(f) = {RoutesOf(ls, g)}
<1>. DEFINE N == FileIds(f)
            Routed == N \ {g}
<1>1. /\ DOMAIN f \subseteq Nat /\ IdsUnique(f) /\ DOMAIN ls = N
      /\ \A i \in DOMAIN f : ls[f[i].id] = f[i] /\ f[i].id \in N
      /\ \A n \in N : \E i \in DOMAIN f : f[i].id = n
  BY DEF Passes
<1>2. \A n \in N :
        \/ n = g /\ ls[n].class = "C3" /\ ls[n].nextHop = Absent
        \/ /\ n # g /\ ls[n].nextHop \in N /\ ls[n].nextHop # Absent
  BY DEF Passes
<1>3. \A n \in N : /\ ReadNodes(f)[n] = ls[n].class
                   /\ n \in DOMAIN NextHopMap(f) <=> ls[n].nextHop # Absent
                   /\ n \in DOMAIN NextHopMap(f) => NextHopMap(f)[n] = ls[n].nextHop
  <2>1. ASSUME NEW n \in N
        PROVE  /\ ReadNodes(f)[n] = ls[n].class
               /\ n \in DOMAIN NextHopMap(f) <=> ls[n].nextHop # Absent
               /\ n \in DOMAIN NextHopMap(f) => NextHopMap(f)[n] = ls[n].nextHop
    <3>1. PICK i \in DOMAIN f : f[i].id = n /\ f[i] = ls[n]
      BY <1>1
    <3>2. LET m == f[i].id
          IN  /\ ReadNodes(f)[m] = f[i].class
              /\ m \in DOMAIN NextHopMap(f) <=> f[i].nextHop # Absent
              /\ m \in DOMAIN NextHopMap(f) => NextHopMap(f)[m] = f[i].nextHop
      BY <1>1, UniqueRead
    <3>. QED BY <3>1, <3>2
  <2>. QED BY <2>1
<1>4. DOMAIN NextHopMap(f) \subseteq N
  BY DEF NextHopMap
<1>5. DOMAIN NextHopMap(f) = Routed /\ \A n \in Routed : NextHopMap(f)[n] = ls[n].nextHop
  BY <1>2, <1>3, <1>4
<1>6. KnownHops(f) = Routed /\ HopsExist(f)
  BY <1>2, <1>5 DEF KnownHops, HopsExist
<1>7. ReadRoutings(f) = {RoutesOf(ls, g)}
  <2>1. ReadRoutings(f) = {[n \in Routed |-> {NextHopMap(f)[n]}]}
    BY <1>6 DEF ReadRoutings
  <2>2. [n \in Routed |-> {NextHopMap(f)[n]}] = RoutesOf(ls, g)
    BY <1>1, <1>5 DEF RoutesOf
  <2>. QED BY <2>1, <2>2
<1>8. ReadNodes(f) = [n \in DOMAIN ls |-> ls[n].class]
  <2>1. ReadNodes(f) = [n \in N |-> ReadNodes(f)[n]]
    BY DEF ReadNodes
  <2>. QED BY <1>1, <1>3, <2>1
<1>. QED BY <1>6, <1>7, <1>8

(* The walks of the editor are the traces of the script.                   *)
LEMMA PassedIsDrawn ==
  ASSUME NEW f, NEW ls, NEW g, Passes(f, ls, g),
         NEW ns, ns = [n \in DOMAIN ls |-> ls[n].class], NEW rs, rs = RoutesOf(ls, g)
  PROVE  /\ Drawn(ns, rs) /\ Ends(ns, rs) = {g} /\ g \notin DOMAIN rs
         /\ \A n \in DOMAIN ns \ {g} :
              /\ Hop(rs, n) = ls[n].nextHop /\ Linked(rs, n) # {} /\ RouteValid(n, ns, rs)
              /\ Route(n, ns, rs, ls[n].hopCount)
<1>. DEFINE N == DOMAIN ls
            K == Cardinality(N)
<1>0. DOMAIN ns = N /\ DOMAIN rs = N \ {g} /\ N = FileIds(f)
  BY DEF RoutesOf, Passes
<1>1. /\ g \in N /\ IsFiniteSet(N)
      /\ \A n \in N : /\ n \in Nat \ {0} /\ ns[n] = ls[n].class /\ ns[n] \in DeviceClass
                      /\ ns[n] = "C3" <=> n = g
      /\ \A n \in N \ {g} : /\ ls[n].nextHop \in N /\ rs[n] = {ls[n].nextHop}
                            /\ TracesTo(g, ls, n)
  BY DEF Passes, RoutesOf, DeviceClass
<1>2. Drawn(ns, rs)
  <2>1. ns = [n \in DOMAIN ns |-> ns[n]] /\ rs = [a \in DOMAIN rs |-> rs[a]]
    BY DEF RoutesOf
  <2>2. Graph(ns, rs)
    BY <1>0, <1>1 DEF Graph
  <2>. QED BY <1>0, <1>1, <2>1, <2>2 DEF Drawn
<1>3. Graph(ns, rs)
  BY <1>2 DEF Drawn
<1>4. Ends(ns, rs) = {g}
  <2>1. ASSUME NEW n \in N \ {g} PROVE ~WalkEnds(ns, rs, n)
    <3>1. rs[n] = {ls[n].nextHop} /\ n \in DOMAIN rs /\ ns[n] # "C3"
      BY <1>0, <1>1
    <3>2. Cardinality({ls[n].nextHop}) = 1
      BY FS_Singleton
    <3>. QED BY <3>1, <3>2 DEF WalkEnds
  <2>2. WalkEnds(ns, rs, g)
    BY <1>1 DEF WalkEnds
  <2>. QED BY <1>0, <1>1, <2>1, <2>2 DEF Ends
<1>5. \A n \in N \ {g} : Hop(rs, n) = ls[n].nextHop /\ Linked(rs, n) # {}
  BY <1>0, <1>1 DEF Hop, Linked
<1>6. ASSUME NEW n \in N \ {g}
      PROVE  RouteValid(n, ns, rs) /\ Route(n, ns, rs, ls[n].hopCount)
  <2>. DEFINE at == Walk(n, ns, rs)
              h == ls[n].hopCount
  <2>1. /\ K \in Nat \ {0} /\ at \in [0..K -> N] /\ at[0] = n
        /\ \A k \in 1..K : at[k] = IF at[k - 1] = g THEN at[k - 1] ELSE Hop(rs, at[k - 1])
    <3>1. n \in DOMAIN ns
      BY <1>0
    <3>2. /\ Cardinality(DOMAIN ns) \in Nat \ {0}
          /\ Walk(n, ns, rs) \in [0..Cardinality(DOMAIN ns) -> DOMAIN ns]
          /\ Walk(n, ns, rs)[0] = n
          /\ \A k \in 1..Cardinality(DOMAIN ns) :
               LET before == Walk(n, ns, rs)[k - 1]
               IN  Walk(n, ns, rs)[k]
                     = IF before \in Ends(ns, rs) THEN before ELSE Hop(rs, before)
      BY ONLY <1>3, <3>1, WalkIs
    <3>3. DOMAIN ns = N
      BY <1>0
    <3>. HIDE DEF N
    <3>4. /\ Cardinality(N) \in Nat \ {0}
          /\ Walk(n, ns, rs) \in [0..Cardinality(N) -> N]
          /\ Walk(n, ns, rs)[0] = n
          /\ \A k \in 1..Cardinality(N) :
               LET before == Walk(n, ns, rs)[k - 1]
               IN  Walk(n, ns, rs)[k]
                     = IF before \in {g} THEN before ELSE Hop(rs, before)
      BY ONLY <3>2, <3>3, <1>4
    <3>. QED BY <3>4
  <2>. HIDE DEF at
  <2>2. TracesBy(at, g, ls, n)
    <3>1. ASSUME NEW k \in 0..K
          PROVE  at[k] = IF k = 0 THEN n
                         ELSE LET m == at[k - 1]
                              IN  IF m = g \/ ls[m].nextHop \notin N THEN m ELSE ls[m].nextHop
      <4>1. CASE k # 0
        <5>1. k \in 1..K /\ k - 1 \in 0..K
          BY <4>1, <2>1
        <5>2. at[k - 1] \in N /\ at[k] = IF at[k - 1] = g THEN at[k - 1] ELSE Hop(rs, at[k - 1])
          BY <5>1, <2>1
        <5>3. at[k - 1] # g => /\ Hop(rs, at[k - 1]) = ls[at[k - 1]].nextHop
                               /\ ls[at[k - 1]].nextHop \in N
          BY <5>2, <1>1, <1>5
        <5>. QED BY <4>1, <5>2, <5>3
      <4>. QED BY <4>1, <2>1
    <3>2. at = [k \in 0..K |-> at[k]]
      BY <2>1
    <3>. QED BY <3>1, <3>2 DEF TracesBy
  <2>3. h \in 0..K /\ at[h] = g /\ \A k \in 0..K : at[k] = g => h <= k
    <3>1. LET steps == {k \in 0..K : at[k] = g}
          IN  h \in steps /\ \A k \in steps : h <= k
      BY <1>1, <2>1, <2>2, OneTrace
    <3>. QED BY <3>1
  <2>. HIDE DEF h, K
  <2>4. \A k \in 0..(h - 1) : at[k] # g
    BY <2>1, <2>3
  <2>5. at[K] = g
    <3>. DEFINE next == [m \in N |-> Hop(rs, m)]
    <3>1. Walking(at, next, {g}, K)
      <4>1. ASSUME NEW k \in 1..K
            PROVE  at[k] = IF at[k - 1] \in {g} THEN at[k - 1] ELSE next[at[k - 1]]
        <5>1. k - 1 \in 0..K
          BY <2>1
        <5>. QED BY <2>1, <5>1
      <4>. QED BY <4>1 DEF Walking
    <3>2. K \in Nat /\ h \in 0..K /\ at[h] \in {g} /\ K \in h..K
      BY <2>1, <2>3
    <3>. HIDE DEF next
    <3>3. \A k \in h..K : at[k] = at[h]
      BY ONLY <3>1, <3>2, WalkStays
    <3>. QED BY <2>3, <3>2, <3>3
  <2>6. Route(n, ns, rs, h)
    BY <1>0, <1>4, <2>3, <2>4 DEF Route, at, K
  <2>7. RouteValid(n, ns, rs)
    <3>1. WalkEnds(ns, rs, g) /\ g \notin DOMAIN rs
      BY <1>0, <1>1 DEF WalkEnds
    <3>. QED BY <1>0, <2>5, <3>1 DEF RouteValid, at, K
  <2>. QED BY <2>6, <2>7 DEF h
<1>. QED BY <1>0, <1>2, <1>4, <1>5, <1>6

(* Every other tool takes it as it is.                                     *)
LEMMA PassedWorks ==
  ASSUME NEW f, NEW ls, NEW g, Passes(f, ls, g),
         NEW ns, ns = ReadNodes(f), NEW rs \in ReadRoutings(f)
  PROVE  Writable(ns, rs) /\ ToSet(FileOf(ns, rs)) = ToSet(f)
<1>. DEFINE N == DOMAIN ls
<1>1. ns = [n \in N |-> ls[n].class] /\ rs = RoutesOf(ls, g)
  BY PassedIsRead
<1>2. /\ Drawn(ns, rs) /\ DOMAIN ns = N /\ g \notin DOMAIN rs
      /\ \A n \in N \ {g} :
           /\ Hop(rs, n) = ls[n].nextHop /\ Linked(rs, n) # {} /\ RouteValid(n, ns, rs)
           /\ Route(n, ns, rs, ls[n].hopCount)
  BY <1>1, PassedIsDrawn
<1>3. /\ g \in N /\ DOMAIN f \subseteq Nat
      /\ \A i \in DOMAIN f : ls[f[i].id] = f[i] /\ f[i].id \in N
      /\ \A n \in N : \E i \in DOMAIN f : f[i].id = n
      /\ \A n \in N :
           /\ ls[n] = NodeLine(n, ls[n].class, ls[n].nextHop, ls[n].hopCount)
           /\ n = g => ls[n].class = "C3" /\ ls[n].nextHop = Absent /\ ls[n].hopCount = Absent
           /\ n # g => ls[n].class # "C3"
  BY DEF Passes
<1>4. Writable(ns, rs)
  BY <1>1, <1>2, <1>3 DEF Writable
<1>5. \A n \in N : LineOf(n, ns, rs) = ls[n]
  <2>1. LineOf(g, ns, rs) = ls[g]
    BY <1>1, <1>3 DEF LineOf
  <2>2. ASSUME NEW n \in N \ {g} PROVE LineOf(n, ns, rs) = ls[n]
    <3>1. ns[n] = ls[n].class /\ ns[n] # "C3" /\ Graph(ns, rs) /\ n \in DOMAIN ns
      BY <1>1, <1>2, <1>3 DEF Drawn
    <3>2. /\ RoutingInfo(n, ns, rs).nextHop = Hop(rs, n)
          /\ Route(n, ns, rs, RoutingInfo(n, ns, rs).hopCount)
      BY <1>2, <3>1, RouteIs
    <3>3. RoutingInfo(n, ns, rs).hopCount = ls[n].hopCount
      BY <1>2, <3>1, <3>2, OneRoute
    <3>. QED BY <1>2, <1>3, <3>1, <3>2, <3>3 DEF LineOf
  <2>. QED BY <2>1, <2>2
<1>6. /\ FileIds(FileOf(ns, rs)) = N
      /\ \A i \in DOMAIN FileOf(ns, rs) : FileOf(ns, rs)[i] = LineOf(FileOf(ns, rs)[i].id, ns, rs)
  <2>1. Graph(ns, rs)
    BY <1>2 DEF Drawn
  <2>. QED BY <1>2, <2>1, WrittenLines
<1>7. ToSet(FileOf(ns, rs)) = {ls[n] : n \in N}
  <2>. DEFINE w == FileOf(ns, rs)
  <2>1. FileIds(w) = N /\ \A i \in DOMAIN w : w[i] = LineOf(w[i].id, ns, rs)
    BY <1>6
  <2>. HIDE DEF w
  <2>2. \A i \in DOMAIN w : w[i].id \in N
    BY <2>1 DEF FileIds
  <2>3. \A n \in N : \E i \in DOMAIN w : w[i].id = n
    BY <2>1 DEF FileIds
  <2>4. \A i \in DOMAIN w : w[i] = ls[w[i].id]
    BY <1>5, <2>1, <2>2
  <2>5. ToSet(w) = {ls[n] : n \in N}
    BY <2>2, <2>3, <2>4 DEF ToSet
  <2>. QED BY <2>5 DEF w
<1>8. ToSet(f) = {ls[n] : n \in N}
  BY <1>3 DEF ToSet
<1>. QED BY <1>4, <1>7, <1>8
-------------------------------------------------------------------------------
(* A file the generator writes.                                            *)

(* What the levels of the breadth-first tree are, as Levels has them.      *)
LevelsBy(f, ids, edges) ==
  f = [k \in Nat |->
         IF k = 0 THEN {1}
         ELSE f[k - 1] \cup {n \in ids : \E m \in f[k - 1] : {m, n} \in edges}]

(* Level 0 is the root alone.                                              *)
LEMMA RootLevel ==
  ASSUME NEW ids, NEW edges
  PROVE  Levels(ids, edges)[0] = {1}
<1>. DEFINE U == ids \cup {1}
            next == [S \in SUBSET U |-> S \cup {n \in ids : \E m \in S : {m, n} \in edges}]
<1>1. PICK f : Iterates(f, next, {1}, Nat)
  BY IterationForever
<1>2. \A S \in SUBSET U : next[S] \in SUBSET U
  OBVIOUS
<1>3. \A S \in SUBSET U : next[S] = S \cup {n \in ids : \E m \in S : {m, n} \in edges}
  OBVIOUS
<1>4. {1} \in SUBSET U
  OBVIOUS
<1>. HIDE DEF next, U
<1>5. f = [k \in Nat |-> f[k]] /\ \A k \in Nat : f[k] = IF k = 0 THEN {1} ELSE next[f[k - 1]]
  BY <1>1 DEF Iterates
<1>6. \A k \in Nat : f[k] \in SUBSET U
  <2>. DEFINE T == {k \in Nat : f[k] \in SUBSET U}
  <2>1. 0 \in T
    BY <1>4, <1>5
  <2>2. ASSUME NEW k \in T PROVE k + 1 \in T
    <3>1. f[k] \in SUBSET U /\ k + 1 \in Nat /\ k + 1 # 0 /\ (k + 1) - 1 = k
      OBVIOUS
    <3>. QED BY <1>2, <1>5, <3>1
  <2>3. T = Nat
    <3>. HIDE DEF T
    <3>1. T \in SUBSET Nat BY DEF T
    <3>. QED BY <2>1, <2>2, <3>1, Induction
  <2>. QED BY <2>3
<1>7. LevelsBy(f, ids, edges)
  <2>1. ASSUME NEW k \in Nat
        PROVE  f[k] = IF k = 0 THEN {1}
                      ELSE f[k - 1] \cup {n \in ids : \E m \in f[k - 1] : {m, n} \in edges}
    <3>1. CASE k # 0
      <4>1. k - 1 \in Nat /\ f[k] = next[f[k - 1]]
        BY <3>1, <1>5
      <4>2. f[k - 1] \in SUBSET U
        BY <4>1, <1>6
      <4>. QED BY <3>1, <4>1, <4>2, <1>3
    <3>. QED BY <3>1, <1>5
  <2>. QED BY <1>5, <2>1 DEF LevelsBy
<1>8. LevelsBy(Levels(ids, edges), ids, edges)
  <2>1. Levels(ids, edges) = CHOOSE w : LevelsBy(w, ids, edges)
    BY DEF Levels, LevelsBy
  <2>. QED BY <1>7, <2>1
<1>. DEFINE levels == Levels(ids, edges)
<1>. HIDE DEF levels
<1>9. levels[0] = {1}
  BY <1>8 DEF LevelsBy, levels
<1>. QED BY <1>9 DEF levels

(* The hop count of a device of a connected graph is the first level that  *)
(* has it, and only the root has hop count 0.                              *)
LEMMA HopCountIs ==
  ASSUME NEW size \in Nat, NEW edges, Levels(1..size, edges)[size] = 1..size, NEW n \in 1..size
  PROVE  /\ HopCount(1..size, edges)[n] \in 0..size
         /\ HopCount(1..size, edges)[n] = 0 <=> n = 1
<1>. DEFINE levels == Levels(1..size, edges)
            First(k) == n \in levels[k] /\ \A j \in 0..(k - 1) : n \notin levels[j]
            T == {k \in 0..size : n \in levels[k]}
            h == HopCount(1..size, edges)[n]
<1>1. levels[0] = {1}
  BY RootLevel
<1>2. Cardinality(1..size) = size
  BY FS_Interval
<1>3. h = CHOOSE k \in 0..size : First(k)
  BY <1>2 DEF HopCount
<1>. HIDE DEF levels, h
<1>4. \E k \in 0..size : First(k)
  <2>1. T \in SUBSET Nat /\ size \in T
    BY DEF levels
  <2>2. PICK k \in T : \A j \in T : k <= j
    <3>. HIDE DEF T
    <3>. QED BY <2>1, LeastExists
  <2>3. ASSUME NEW j \in 0..(k - 1) PROVE n \notin levels[j]
    BY <2>2
  <2>. QED BY <2>2, <2>3
<1>5. h \in 0..size /\ First(h)
  <2>. HIDE DEF First
  <2>. QED BY <1>3, <1>4
<1>6. h = 0 <=> n = 1
  <2>1. h = 0 => n = 1
    BY <1>1, <1>5
  <2>2. h # 0 => 0 \in 0..(h - 1)
    BY <1>5
  <2>3. h # 0 => n # 1
    BY <1>1, <1>5, <2>2
  <2>. QED BY <2>1, <2>3
<1>. QED BY <1>5, <1>6 DEF h

(* Every next hop is one hop nearer to the root.                           *)
Nearer(ls, hops, size) ==
  /\ \A m \in 1..size : hops[m] \in 0..size /\ (hops[m] = 0 <=> m = 1)
  /\ \A m \in 2..size : /\ ls[m].nextHop \in 1..size
                        /\ hops[ls[m].nextHop] + 1 = hops[m]

(* Then they lead to the root in as many hops as counted.                  *)
LEMMA ParentsTrace ==
  ASSUME NEW size \in Nat, NEW ls, DOMAIN ls = 1..size, NEW n \in 1..size,
         NEW hops, Nearer(ls, hops, size), ls[n].hopCount = hops[n]
  PROVE  TracesTo(1, ls, n)
<1>. DEFINE next == [m \in 1..size |-> IF m = 1 THEN m ELSE ls[m].nextHop]
            h == hops[n]
<1>0. /\ \A m \in 1..size : hops[m] \in 0..size /\ (hops[m] = 0 <=> m = 1)
      /\ \A m \in 2..size : ls[m].nextHop \in 1..size /\ hops[ls[m].nextHop] + 1 = hops[m]
  BY DEF Nearer
<1>1. PICK f : Iterates(f, next, n, Nat)
  BY IterationForever
<1>2. \A m \in 1..size : /\ next[m] \in 1..size
                         /\ next[m] = IF m = 1 \/ ls[m].nextHop \notin 1..size THEN m
                                      ELSE ls[m].nextHop
                         /\ m # 1 => hops[next[m]] + 1 = hops[m]
  BY <1>0
<1>. HIDE DEF next
<1>3. \A k \in Nat : f[k] = IF k = 0 THEN n ELSE next[f[k - 1]]
  BY <1>1 DEF Iterates
<1>4. \A k \in Nat : f[k] \in 1..size
  <2>. DEFINE T == {k \in Nat : f[k] \in 1..size}
  <2>1. 0 \in T
    BY <1>3
  <2>2. ASSUME NEW k \in T PROVE k + 1 \in T
    <3>1. f[k] \in 1..size /\ k + 1 \in Nat /\ k + 1 # 0 /\ (k + 1) - 1 = k
      OBVIOUS
    <3>. QED BY <1>2, <1>3, <3>1
  <2>3. T = Nat
    <3>. HIDE DEF T
    <3>1. T \in SUBSET Nat BY DEF T
    <3>. QED BY <2>1, <2>2, <3>1, Induction
  <2>. QED BY <2>3
<1>5. h \in 0..size
  BY <1>0
<1>6. \A k \in Nat : k <= h => hops[f[k]] = h - k
  <2>. DEFINE T == {k \in Nat : k <= h => hops[f[k]] = h - k}
  <2>1. 0 \in T
    BY <1>3, <1>5
  <2>2. ASSUME NEW k \in T PROVE k + 1 \in T
    <3>. SUFFICES ASSUME k + 1 <= h PROVE hops[f[k + 1]] = h - (k + 1) OBVIOUS
    <3>1. /\ k \in Nat /\ k + 1 \in Nat /\ k + 1 # 0 /\ (k + 1) - 1 = k /\ f[k] \in 1..size
          /\ hops[f[k]] = h - k
      BY <1>4, <1>5
    <3>2. f[k] # 1
      BY <3>1, <1>0, <1>5
    <3>3. f[k + 1] = next[f[k]]
      BY <3>1, <1>3
    <3>. DEFINE x == hops[f[k + 1]]
    <3>4. x + 1 = h - k /\ x \in Nat /\ h \in Nat /\ k \in Nat
      <4>1. next[f[k]] \in 1..size /\ hops[next[f[k]]] + 1 = hops[f[k]]
        BY ONLY <1>2, <3>1, <3>2
      <4>2. hops[next[f[k]]] \in Nat /\ hops[next[f[k]]] + 1 = h - k
        BY ONLY <1>0, <3>1, <4>1
      <4>3. h \in Nat /\ k \in Nat
        BY <1>5, <3>1
      <4>. QED BY <3>3, <4>2, <4>3
    <3>. HIDE DEF x, h, T
    <3>5. x = h - (k + 1)
      BY ONLY <3>4
    <3>. QED BY <3>5 DEF x
  <2>3. T = Nat
    <3>. HIDE DEF T
    <3>1. T \in SUBSET Nat BY DEF T
    <3>. QED BY <2>1, <2>2, <3>1, Induction
  <2>. QED BY <2>3
<1>7. f[h] = 1 /\ \A k \in 0..(h - 1) : f[k] # 1
  <2>1. f[h] = 1
    <3>1. h \in Nat /\ h <= h /\ h - h = 0
      BY <1>5
    <3>2. hops[f[h]] = 0 /\ f[h] \in 1..size
      BY <3>1, <1>4, <1>6
    <3>. QED BY <3>2, <1>0
  <2>2. ASSUME NEW k \in 0..(h - 1) PROVE f[k] # 1
    <3>1. k \in Nat /\ k <= h /\ h - k # 0
      BY <1>5
    <3>. QED BY <3>1, <1>0, <1>4, <1>6
  <2>. QED BY <2>1, <2>2
<1>. DEFINE at == [k \in 0..size |-> f[k]]
<1>8. Cardinality(DOMAIN ls) = size
  BY FS_Interval
<1>9. TracesBy(at, 1, ls, n)
  <2>1. \A k \in 0..size : at[k] = f[k]
    OBVIOUS
  <2>2. at = [k \in 0..size |-> at[k]]
    OBVIOUS
  <2>. HIDE DEF at
  <2>3. ASSUME NEW k \in 0..size
        PROVE  at[k] = IF k = 0 THEN n
                       ELSE LET m == at[k - 1]
                            IN  IF m = 1 \/ ls[m].nextHop \notin 1..size THEN m ELSE ls[m].nextHop
    <3>1. CASE k # 0
      <4>1. k - 1 \in Nat /\ k - 1 \in 0..size /\ k \in Nat
        BY <3>1
      <4>2. at[k] = next[f[k - 1]] /\ at[k - 1] = f[k - 1] /\ f[k - 1] \in 1..size
        BY <4>1, <3>1, <2>1, <1>3, <1>4
      <4>. QED BY <3>1, <4>2, <1>2
    <3>2. CASE k = 0
      BY <3>2, <2>1, <1>3
    <3>. QED BY <3>1, <3>2
  <2>. QED BY <2>2, <2>3, <1>8 DEF TracesBy
<1>10. h \in {k \in 0..size : at[k] = 1} /\ \A k \in {j \in 0..size : at[j] = 1} : h <= k
  <2>1. ASSUME NEW k \in 0..size, f[k] = 1 PROVE h <= k
    <3>. SUFFICES ASSUME k < h PROVE FALSE
      BY <1>5
    <3>1. k \in 0..(h - 1)
      BY <1>5
    <3>. QED BY <1>7, <2>1, <3>1
  <2>. QED BY <1>5, <1>7, <2>1
<1>. HIDE DEF at, h
<1>11. ls[n].hopCount = h
  BY DEF h
<1>12. Cardinality(DOMAIN ls) \in Nat
  BY <1>8
<1>. QED BY <1>8, <1>9, <1>10, <1>11, <1>12, OneTrace

(* A generated file passes the verification script, and only has classes   *)
(* that the simulator knows.                                               *)
LEMMA GeneratedPasses ==
  ASSUME NEW size \in Nat, NEW f \in Generated(size)
  PROVE  /\ VerifyPasses(f) /\ IdsUnique(f)
         /\ \A i \in DOMAIN f : f[i].class \in SimulatedClass
<1>. DEFINE ids == 1..size
<1>1. PICK edges : Levels(ids, edges)[size] = ids /\ f \in GeneratedFrom(ids, edges)
  BY DEF Generated
<1>. DEFINE hops == HopCount(ids, edges)
<1>2. PICK parent \in [ids -> ids] :
        /\ f = [n \in ids |-> IF n = 1 THEN NodeLine(1, "C3", Absent, Absent)
                              ELSE NodeLine(n, "C2", parent[n], hops[n])]
        /\ \A n \in ids \ {1} : hops[parent[n]] + 1 = hops[n]
  BY <1>1 DEF GeneratedFrom
<1>3. \A n \in ids : hops[n] \in 0..size /\ (hops[n] = 0 <=> n = 1)
  BY <1>1, HopCountIs
<1>. HIDE DEF hops
<1>4. /\ DOMAIN f = ids /\ \A n \in ids : f[n].id = n
      /\ \A n \in ids : n = 1 => f[n].class = "C3" /\ f[n].nextHop = Absent
      /\ \A n \in ids : n # 1 => /\ f[n].class = "C2" /\ f[n].nextHop = parent[n]
                                 /\ f[n].hopCount = hops[n]
  BY <1>2 DEF NodeLine
<1>5. IdsUnique(f) /\ FileIds(f) = ids /\ DOMAIN f \subseteq Nat
  <2>1. DOMAIN f = ids /\ \A n \in ids : f[n].id = n
    BY <1>4
  <2>2. ids \subseteq Nat
    OBVIOUS
  <2>. HIDE DEF ids
  <2>3. FileIds(f) = ids
    BY ONLY <2>1 DEF FileIds
  <2>4. IdsUnique(f)
    BY ONLY <2>1 DEF IdsUnique
  <2>. QED BY <2>1, <2>2, <2>3, <2>4
<1>. DEFINE ls == ParsedLines(f)
<1>6. DOMAIN ls = ids /\ \A n \in ids : ls[n] = f[n]
  <2>1. DOMAIN ls = ids
    BY <1>5 DEF ParsedLines
  <2>2. ASSUME NEW n \in ids PROVE ls[n] = f[n]
    <3>1. n \in DOMAIN f /\ f[n].id = n
      BY <1>4
    <3>2. ParsedLines(f)[f[n].id] = f[n]
      BY ONLY <1>5, <3>1, UniqueRead
    <3>. QED BY <3>1, <3>2
  <2>. QED BY <2>1, <2>2
<1>. HIDE DEF ls
<1>7. 1 \in ids
  <2>1. size = 0 => ids = {1}
    BY <1>1, RootLevel
  <2>2. size = 0 => 1 \notin ids
    OBVIOUS
  <2>3. size # 0 => 1 \in ids
    OBVIOUS
  <2>. HIDE DEF ids
  <2>. QED BY ONLY <2>1, <2>2, <2>3
<1>8. {n \in DOMAIN ls : ls[n].class = "C3"} = {1}
  BY <1>4, <1>6, <1>7
<1>9. ASSUME NEW n \in ids, n # 1 PROVE TracesTo(1, ls, n)
  <2>1. \A m \in 2..size : ls[m].nextHop \in 1..size /\ hops[ls[m].nextHop] + 1 = hops[m]
    BY <1>2, <1>4, <1>6
  <2>2. ls[n].hopCount = hops[n]
    BY <1>4, <1>6, <1>9
  <2>3. Nearer(ls, hops, size)
    BY <1>3, <2>1 DEF Nearer
  <2>4. size \in Nat /\ DOMAIN ls = 1..size /\ n \in 1..size
    BY <1>6
  <2>. QED BY ONLY <2>2, <2>3, <2>4, ParentsTrace
<1>10. ASSUME NEW n \in ids
       PROVE  /\ ls[n].class = "C2" => ~BuiltWithoutRoute(ls[n])
              /\ ls[n].nextHop # Absent => ls[n].nextHop \in ids
              /\ ls[n].class # "C3" => n # 1
  <2>1. CASE n = 1
    <3>1. ls[n].class = "C3" /\ ls[n].nextHop = Absent
      BY <1>4, <1>6, <2>1
    <3>. QED BY <3>1, <2>1
  <2>2. CASE n # 1
    <3>1. parent[n] \in ids /\ parent[n] # 0 /\ hops[n] # 0
      BY <1>2, <1>3, <2>2
    <3>2. ls[n].class = "C2" /\ ls[n].nextHop = parent[n] /\ ls[n].hopCount = hops[n]
      BY <1>4, <1>6, <2>2
    <3>. HIDE DEF ids
    <3>. QED BY <3>1, <3>2, <2>2 DEF BuiltWithoutRoute, Absent
  <2>. QED BY <2>1, <2>2
<1>11. Cardinality({1}) = 1
  BY FS_Singleton
<1>12. VerifyPasses(f)
  BY <1>6, <1>8, <1>9, <1>10, <1>11 DEF VerifyPasses, ls
<1>13. \A i \in DOMAIN f : f[i].class \in SimulatedClass
  BY <1>4 DEF SimulatedClass
<1>. QED BY <1>5, <1>12, <1>13
-------------------------------------------------------------------------------
(* The files and the drawing.                                              *)

(* A finite set of numbers that is not empty has a largest element: the    *)
(* element with the fewest above it, as strict inclusion is well founded   *)
(* on finite sets.                                                         *)
LEMMA LargestExists ==
  ASSUME NEW S, S \subseteq Nat, IsFiniteSet(S), S # {}
  PROVE  \E n \in S : \A m \in S : m <= n
<1>. DEFINE Above(n) == {m \in S : m > n}
<1>. DEFINE A == {Above(n) : n \in S}
<1>1. A \subseteq FiniteSubsetsOf(S) /\ A # {}
  <2>1. \A n \in S : Above(n) \in SUBSET S
    OBVIOUS
  <2>2. A \subseteq SUBSET S
    BY <2>1
  <2>3. A # {}
    <3>1. PICK n \in S : TRUE
      OBVIOUS
    <3>2. Above(n) \in A
      OBVIOUS
    <3>. QED BY <3>2
  <2>4. FiniteSubsetsOf(S) = SUBSET S
    BY FS_FiniteSubsetsOfFinite
  <2>. QED BY <2>2, <2>3, <2>4
<1>2. PICK a \in A : \A b \in A : ~(<<b, a>> \in StrictSubsetOrdering(S))
  BY <1>1, WFMin, FS_StrictSubsetOrderingWellFounded
<1>3. PICK n \in S : a = Above(n)
  OBVIOUS
<1>4. ASSUME NEW m \in S, m > n PROVE FALSE
  <2>1. Above(m) \subseteq Above(n) /\ m \in Above(n) /\ m \notin Above(m)
    <3>1. m \in Nat /\ n \in Nat /\ \A k \in Nat : k > m => k > n
      BY <1>4
    <3>2. ~(m > m)
      BY <3>1
    <3>. QED BY <1>4, <3>1, <3>2
  <2>2. <<Above(m), Above(n)>> \in StrictSubsetOrdering(S)
    BY <2>1 DEF StrictSubsetOrdering
  <2>. QED BY <1>2, <1>3, <2>2
<1>. QED BY <1>4

(* The identifiers of a bounded file are finitely many, and its lines are  *)
(* within the bound.                                                       *)
LEMMA FileIdsBounded ==
  ASSUME NEW f, NEW b \in Nat, FileWithin(f, b)
  PROVE  /\ DOMAIN f \subseteq Nat /\ FileIds(f) \subseteq 1..b
         /\ IsFiniteSet(FileIds(f))
         /\ f # <<>> => FileIds(f) # {}
         /\ \A i \in DOMAIN f : LineWithin(f[i], b)
<1>1. PICK L : f \in Seq(L) /\ \A l \in L : LineWithin(l, b)
  BY DEF FileWithin
<1>2. DOMAIN f \subseteq Nat /\ FileIds(f) \subseteq 1..b /\ \A i \in DOMAIN f : LineWithin(f[i], b)
  BY <1>1 DEF FileIds, LineWithin
<1>3. IsFiniteSet(1..b)
  BY FS_Interval
<1>4. f # <<>> => 1 \in DOMAIN f
  BY <1>1
<1>5. IsFiniteSet(FileIds(f))
  BY <1>2, <1>3, FS_Subset
<1>6. f # <<>> => FileIds(f) # {}
  BY <1>4 DEF FileIds
<1>. QED BY <1>2, <1>5, <1>6

(* The drawing is one the lemmas above are about.                          *)
LEMMA DrawnInv ==
  ASSUME DrawingInv
  PROVE  Drawn(nodes, routings)
<1>1. IsFiniteSet(DOMAIN nodes)
  BY FS_BoundedSetOfNaturals DEF DrawingInv, LinksJoinNodes
<1>2. Graph(nodes, routings)
  BY <1>1 DEF Graph, DrawingInv, LinksJoinNodes
<1>. QED BY <1>2 DEF Drawn, DrawingInv

(* A file the generator writes is bounded by its size.                     *)
LEMMA GeneratedWithin ==
  ASSUME NEW n \in Nat, NEW f \in Generated(n)
  PROVE  FileWithin(f, n)
<1>1. PICK edges : f \in GeneratedFrom(1..n, edges)
  BY DEF Generated
<1>. DEFINE hops == HopCount(1..n, edges)
<1>2. PICK parent :
        f = [k \in 1..n |-> IF k = 1 THEN NodeLine(1, "C3", Absent, Absent)
                            ELSE NodeLine(k, "C2", parent[k], hops[k])]
  BY <1>1 DEF GeneratedFrom
<1>. DEFINE L == {f[k] : k \in 1..n}
<1>3. f \in Seq(L)
  BY <1>2
<1>4. \A k \in 1..n : LineWithin(f[k], n)
  BY <1>2 DEF NodeLine, LineWithin
<1>. QED BY <1>3, <1>4 DEF FileWithin

(* So is a file the editor writes, by the largest identifier drawn.        *)
LEMMA SavedWithin ==
  ASSUME DrawingInv
  PROVE  FileWithin(FileOf(nodes, routings), nodeCounter)
<1>. DEFINE f == FileOf(nodes, routings)
            L == {f[i] : i \in DOMAIN f}
<1>1. /\ DOMAIN f = 1..Cardinality(DOMAIN nodes) /\ f = [i \in DOMAIN f |-> f[i]]
      /\ Cardinality(DOMAIN nodes) \in Nat /\ FileIds(f) = DOMAIN nodes
      /\ \A i \in DOMAIN f : f[i] = LineOf(f[i].id, nodes, routings)
  BY DrawnInv, WrittenLines DEF Drawn
<1>2. \A n \in DOMAIN nodes : LineWithin(LineOf(n, nodes, routings), nodeCounter)
  <2>1. \A n \in DOMAIN nodes : n \in 1..nodeCounter
    BY DEF DrawingInv, LinksJoinNodes
  <2>2. ASSUME NEW n \in DOMAIN nodes
        PROVE  \E c, h, k : LineOf(n, nodes, routings) = NodeLine(n, c, h, k)
    BY <2>1 DEF LineOf
  <2>. QED BY <2>1, <2>2 DEF LineWithin, NodeLine
<1>. HIDE DEF f
<1>3. \A i \in DOMAIN f : f[i].id \in DOMAIN nodes
  BY <1>1 DEF FileIds
<1>4. \A l \in L : LineWithin(l, nodeCounter)
  BY <1>1, <1>2, <1>3
<1>5. f \in Seq(L)
  BY <1>1
<1>. QED BY <1>4, <1>5 DEF FileWithin, f

(* And a file with a line changed or removed by hand.                      *)
LEMMA EditedWithin ==
  ASSUME FileInv, EditByHand
  PROVE  FileInv'
<1>0. PICK b \in Nat : FileWithin(file, b)
  BY DEF FileInv
<1>1. PICK L : file \in Seq(L) /\ \A l \in L : LineWithin(l, b)
  BY <1>0 DEF FileWithin
<1>2. PICK c \in Nat : b <= c /\ MaxId <= c
  <2>1. b <= b + MaxId /\ MaxId <= b + MaxId /\ b + MaxId \in Nat
    BY TopologyAssumption
  <2>. QED BY <2>1
<1>3. \A l \in L : LineWithin(l, c)
  BY <1>1, <1>2 DEF LineWithin
<1>4. CASE \E i \in DOMAIN file : \E l \in EditedLines(file[i]) : file' = [file EXCEPT ![i] = l]
  <2>0. PICK i \in DOMAIN file : \E l \in EditedLines(file[i]) : file' = [file EXCEPT ![i] = l]
    BY <1>4
  <2>1. PICK l \in EditedLines(file[i]) : file' = [file EXCEPT ![i] = l]
    BY <2>0
  <2>2. file[i] \in L
    BY <1>1
  <2>3. LineWithin(l, c)
    <3>1. PICK n, k, h, m : file[i] = NodeLine(n, k, h, m) /\ n \in 1..c
      BY <1>3, <2>2 DEF LineWithin
    <3>2. 1..MaxId \subseteq 1..c
      BY <1>2, TopologyAssumption
    <3>. QED BY <3>1, <3>2 DEF EditedLines, NodeLine, LineWithin
  <2>4. file' \in Seq(L \cup {l})
    BY <1>1, <2>1
  <2>. QED BY <1>2, <1>3, <2>3, <2>4 DEF FileInv, FileWithin
<1>5. CASE \E i \in DOMAIN file : Len(file) > 1 /\ file' = RemoveAt(file, i)
  <2>1. PICK i \in DOMAIN file : file' = RemoveAt(file, i)
    BY <1>5
  <2>2. i \in 1..Len(file) /\ Len(file) \in Nat
    BY <1>1
  <2>3. SubSeq(file, 1, i - 1) \in Seq(L) /\ SubSeq(file, i + 1, Len(file)) \in Seq(L)
    BY <1>1, <2>2
  <2>4. file' \in Seq(L)
    BY <2>1, <2>3 DEF RemoveAt
  <2>. QED BY <1>2, <1>3, <2>4 DEF FileInv, FileWithin
<1>. QED BY <1>4, <1>5 DEF EditByHand

-------------------------------------------------------------------------------
(* IInv is inductive.                                                      *)
LEMMA InitEstablishes == Init => IInv
<1>. SUFFICES ASSUME Init PROVE IInv OBVIOUS
<1>1. FileInv
  <2>1. CASE file = <<>>
    <3>1. file \in Seq({}) BY <2>1
    <3>. QED BY <3>1 DEF FileInv, FileWithin
  <2>2. CASE file \in UNION {Generated(n) : n \in TreeSizes}
    BY <2>2, GeneratedWithin, TopologyAssumption DEF FileInv
  <2>. QED BY <2>1, <2>2 DEF Init
<1>2. DrawingInv
  BY DEF Init, EmptyState, NoMap, DrawingInv, LinksJoinNodes
<1>3. OpeningInv
  BY DEF Init, OpeningInv
<1>4. SavedInv
  BY DEF Init, SavedInv
<1>5. OriginInv
  BY DEF Init, OriginInv
<1>. QED BY <1>1, <1>2, <1>3, <1>4, <1>5 DEF IInv

(* What no action but two writes: the file.                                *)
LEMMA FileStep ==
  ASSUME IInv, Next
  PROVE  FileInv'
<1>1. CASE file' = file
  BY <1>1 DEF IInv, FileInv, FileWithin
<1>2. CASE file' = <<>>
  <2>1. file' \in Seq({}) BY <1>2
  <2>. QED BY <2>1 DEF FileInv, FileWithin
<1>3. CASE SaveFile
  <2>1. CASE file' = FileOf(nodes, routings)
    BY <2>1, SavedWithin DEF IInv, DrawingInv, FileInv
  <2>. QED BY <1>1, <1>3, <2>1 DEF SaveFile
<1>4. CASE EditByHand
  BY <1>4, EditedWithin DEF IInv
<1>. QED BY <1>1, <1>2, <1>3, <1>4 DEF Next, NewTopology, EditTopology, Leave, PressTool, AddNode, Click,
         ReachLink, ReachCutNode, PressSave, OpenFile

(* A new node gets an identifier above all others.                         *)
LEMMA AddNodeStep ==
  ASSUME DrawingInv, AddNode
  PROVE  DrawingInv'
<1>1. /\ nodeCounter' = nodeCounter + 1
      /\ \E c \in {"C2", "C3"} : nodes' = WithEntry(nodes, nodeCounter', c)
      /\ UNCHANGED <<routings, hovered>>
  BY DEF AddNode
<1>2. PICK c \in {"C2", "C3"} : nodes' = WithEntry(nodes, nodeCounter + 1, c)
  BY <1>1
<1>3. /\ DOMAIN nodes' = DOMAIN nodes \cup {nodeCounter + 1}
      /\ nodes' = [n \in DOMAIN nodes' |-> nodes'[n]]
      /\ \A n \in DOMAIN nodes' : nodes'[n] = IF n = nodeCounter + 1 THEN c ELSE nodes[n]
  BY <1>2 DEF WithEntry
<1>. QED BY <1>1, <1>2, <1>3 DEF DrawingInv, LinksJoinNodes, DeviceClass

(* A link is added, and cut, between devices that exist.                   *)
LEMMA ReachLinkStep ==
  ASSUME DrawingInv, ReachLink
  PROVE  DrawingInv'
<1>1. PICK n \in hovered :
        /\ Reached(n)
        /\ routings' \in {routings, LinkAdded(link[1], n), LinkCut(link[1], n)}
        /\ UNCHANGED <<nodes, nodeCounter>>
  BY DEF ReachLink
<1>2. hovered' \subseteq hovered
  BY <1>1 DEF Reached
<1>3. ASSUME NEW a, NEW S \in SUBSET DOMAIN nodes, a \in DOMAIN nodes,
             routings' = WithEntry(routings, a, S)
      PROVE  DrawingInv'
  BY <1>1, <1>2, <1>3 DEF DrawingInv, LinksJoinNodes, WithEntry
<1>4. CASE routings' = routings
  BY <1>1, <1>2, <1>4 DEF DrawingInv, LinksJoinNodes
<1>5. Linked(routings, link[1]) \subseteq DOMAIN nodes
  BY DEF DrawingInv, LinksJoinNodes, Linked
<1>6. CASE routings' = LinkAdded(link[1], n)
  BY <1>3, <1>4, <1>5, <1>6 DEF LinkAdded, LinkAllowed
<1>7. CASE routings' = LinkCut(link[1], n)
  BY <1>3, <1>4, <1>5, <1>7 DEF LinkCut
<1>. QED BY <1>1, <1>4, <1>6, <1>7

(* A device goes with its entry and with the links that lead to it.        *)
LEMMA ReachCutNodeStep ==
  ASSUME DrawingInv, ReachCutNode
  PROVE  DrawingInv'
<1>1. PICK n \in hovered :
        /\ hovered' = hovered \ {n}
        /\ routings' = WithoutNode(n)
        /\ nodes' = [m \in DOMAIN nodes \ {n} |-> nodes[m]]
        /\ nodeCounter' = nodeCounter
  BY DEF ReachCutNode, Reached
<1>. QED BY <1>1 DEF DrawingInv, LinksJoinNodes, WithoutNode

(* A file that is opened gives links only to devices it names, and starts  *)
(* the counter at the largest identifier, or at 0 when it names none.      *)
LEMMA OpenFileStep ==
  ASSUME FileInv, DrawingInv, OpenFile
  PROVE  DrawingInv'
<1>1. PICK b \in Nat : FileWithin(file, b)
  BY DEF FileInv
<1>2. PICK L : file \in Seq(L) /\ \A l \in L : LineWithin(l, b)
  BY <1>1 DEF FileWithin
<1>3. PICK k \in 0..Len(file) :
        /\ ClassesKnown(SubSeq(file, 1, k))
        /\ nodes' = ReadNodes(SubSeq(file, 1, k)) /\ nodeCounter' = LargestId(SubSeq(file, 1, k))
        /\ \/ k = Len(file) /\ routings' \in ReadRoutings(file)
           \/ routings' = NoMap
  BY DEF OpenFile
<1>. DEFINE lines == SubSeq(file, 1, k)
<1>4. lines \in Seq(L) /\ DOMAIN lines = 1..k /\ Len(file) \in Nat
  BY <1>2
<1>5. k = Len(file) => lines = file
  BY <1>2
<1>. HIDE DEF lines
<1>6. /\ FileIds(lines) \subseteq Nat \ {0} /\ IsFiniteSet(FileIds(lines))
      /\ DOMAIN lines \subseteq Nat /\ IsFiniteSet(DOMAIN lines)
  <2>1. FileWithin(lines, b)
    BY <1>2, <1>4 DEF FileWithin
  <2>2. FileIds(lines) \subseteq 1..b /\ IsFiniteSet(FileIds(lines)) /\ DOMAIN lines \subseteq Nat
    BY <2>1, FileIdsBounded
  <2>3. 1 \in Int /\ k \in Int
    BY <1>4
  <2>4. IsFiniteSet(1..k)
    BY ONLY <2>3, FS_Interval
  <2>. QED BY <1>4, <2>2, <2>4
<1>7. nodeCounter' \in Nat /\ \A m \in FileIds(lines) : m <= nodeCounter'
  <2>. DEFINE S == FileIds(lines) \cup {0}
  <2>1. S \in SUBSET Nat /\ S # {} /\ IsFiniteSet(S)
    BY <1>6, FS_AddElement
  <2>2. \E n \in S : \A m \in S : m <= n
    BY <2>1, LargestExists
  <2>3. \E n \in S : \A m \in FileIds(lines) : m <= n
    BY <2>2
  <2>4. LargestId(lines) \in S /\ \A m \in FileIds(lines) : m <= LargestId(lines)
    BY <2>3 DEF LargestId
  <2>. QED BY <1>3, <2>1, <2>4 DEF lines
<1>8. /\ DOMAIN nodes' = FileIds(lines) /\ nodes' = [n \in DOMAIN nodes' |-> nodes'[n]]
      /\ \A n \in DOMAIN nodes' : nodes'[n] \in DeviceClass
  <2>1. ASSUME NEW n \in FileIds(lines) PROVE ReadNodes(lines)[n] \in DeviceClass
    <3>. DEFINE S == {i \in DOMAIN lines : lines[i].id = n}
    <3>1. S \in SUBSET DOMAIN lines /\ S # {} /\ S \subseteq Nat
      BY <1>6 DEF FileIds
    <3>2. IsFiniteSet(S)
      BY <1>6, <3>1, FS_Subset
    <3>3. \E i \in S : \A j \in S : j <= i
      BY <3>1, <3>2, LargestExists
    <3>4. \E i \in S : LastOf(lines, S) = lines[i]
      BY <3>3 DEF LastOf
    <3>5. \A i \in DOMAIN lines : lines[i].class \in DeviceClass
      BY <1>3 DEF ClassesKnown, lines
    <3>. QED BY <3>1, <3>4, <3>5 DEF ReadNodes
  <2>. QED BY <1>3, <2>1 DEF ReadNodes, lines
<1>9. /\ routings' = [a \in DOMAIN routings' |-> routings'[a]]
      /\ \A a \in DOMAIN routings' : a \in FileIds(lines) /\ routings'[a] \subseteq FileIds(lines)
  <2>1. CASE routings' = NoMap
    BY <2>1 DEF NoMap
  <2>2. CASE k = Len(file) /\ routings' \in ReadRoutings(file)
    <3>1. PICK kept \in SUBSET KnownHops(file) :
            routings' = [n \in kept |-> {NextHopMap(file)[n]}]
      BY <2>2 DEF ReadRoutings
    <3>2. \A n \in kept : n \in FileIds(file) /\ NextHopMap(file)[n] \in FileIds(file)
      BY <3>1 DEF KnownHops, NextHopMap
    <3>. QED BY <1>5, <2>2, <3>1, <3>2
  <2>. QED BY <1>3, <2>1, <2>2
<1>10. hovered' = {}
  BY DEF OpenFile, Drawing
<1>. QED BY <1>6, <1>7, <1>8, <1>9, <1>10 DEF DrawingInv, LinksJoinNodes

(* After a save there is only leaving, and what was saved is the drawing.  *)
LEMMA SavedStep ==
  ASSUME SavedInv, Next
  PROVE  SavedInv'
<1>1. CASE screen' = "home" \/ file' = <<>> \/ opening'
  BY <1>1 DEF SavedInv
<1>2. CASE SaveFile
  <2>1. CASE Writable(nodes, routings)
    BY <1>2, <2>1 DEF SaveFile, Drawing, drawing, SavedInv
  <2>2. CASE ~Writable(nodes, routings)
    BY <1>2, <2>2, <1>1 DEF SaveFile, Drawing, SavedInv
  <2>. QED BY <2>1, <2>2
<1>3. CASE Drawing /\ file' = file /\ opening' = opening
  BY <1>1, <1>3 DEF Drawing
<1>4. CASE ReachLink \/ ReachCutNode
  <2>1. hovered # {} /\ UNCHANGED <<screen, file, opening>>
    BY <1>4 DEF ReachLink, ReachCutNode, dialogs
  <2>. QED BY <2>1 DEF SavedInv
<1>. QED BY <1>1, <1>2, <1>3, <1>4 DEF Next, NewTopology, EditTopology, Leave, PressTool, AddNode, Click,
         PressSave, OpenFile, EditByHand, dialogs

(* A generated file is one until it is written, or changed by hand.        *)
LEMMA OriginStep ==
  ASSUME OriginInv, Next
  PROVE  OriginInv'
<1>1. (file' = file /\ origin' = origin) \/ origin' \in {"saved", "edited"}
  BY DEF Next, NewTopology, EditTopology, Leave, PressTool, AddNode, Click,
         ReachLink, ReachCutNode, PressSave, SaveFile, OpenFile, EditByHand
<1>. QED BY <1>1 DEF OriginInv

(* Every click, key and file operation of the editor keeps the invariant.  *)
LEMMA StepPreserves == IInv /\ [Next]_vars => IInv'
<1>. SUFFICES ASSUME IInv, [Next]_vars PROVE IInv' OBVIOUS
<1>1. CASE Next
  <2>1. FileInv'
    BY <1>1, FileStep
  <2>2. DrawingInv'
    <3>1. CASE UNCHANGED <<nodes, routings, nodeCounter, hovered>>
      BY <3>1 DEF IInv, DrawingInv, LinksJoinNodes
    <3>2. CASE Leave
      BY <3>2 DEF Leave, EmptyStateNext, NoMap, DrawingInv, LinksJoinNodes
    <3>3. CASE Click
      BY <3>3 DEF IInv, Click, drawing, DrawingInv, LinksJoinNodes
    <3>. QED BY <1>1, <3>1, <3>2, <3>3, AddNodeStep, ReachLinkStep, ReachCutNodeStep, OpenFileStep
             DEF IInv, Next, NewTopology, EditTopology, PressTool, PressSave, SaveFile, EditByHand, drawing
  <2>3. OpeningInv'
    BY <1>1 DEF IInv, OpeningInv, Next, NewTopology, EditTopology, Leave, PressTool, AddNode, Click,
           ReachLink, ReachCutNode, PressSave, SaveFile, OpenFile, EditByHand, Drawing, dialogs
  <2>4. SavedInv' /\ OriginInv'
    BY <1>1, SavedStep, OriginStep DEF IInv
  <2>. QED BY <2>1, <2>2, <2>3, <2>4 DEF IInv
<1>2. CASE UNCHANGED vars
  <2>1. FileInv' BY <1>2 DEF IInv, FileInv, FileWithin, vars
  <2>2. DrawingInv' BY <1>2 DEF IInv, DrawingInv, LinksJoinNodes, vars, drawing
  <2>3. OpeningInv' BY <1>2 DEF IInv, OpeningInv, vars, dialogs
  <2>4. SavedInv' BY <1>2 DEF IInv, SavedInv, vars, drawing, dialogs
  <2>5. OriginInv' BY <1>2 DEF IInv, OriginInv, vars
  <2>. QED BY <2>1, <2>2, <2>3, <2>4, <2>5 DEF IInv
<1>. QED BY <1>1, <1>2

(* Whatever is drawn, cut, opened, saved and edited by hand, in any order, *)
(* every link and every entry of the drawing is of devices that exist, and *)
(* no identifier is given twice.                                           *)
THEOREM LinksJoinNodesAlways == Spec => []LinksJoinNodes
<1>1. IInv => LinksJoinNodes BY DEF IInv, DrawingInv
<1>. QED BY <1>1, InitEstablishes, StepPreserves, PTL DEF Spec

(* The simulator starts what it deploys of a unique file that passes.      *)
LEMMA VerifiedStarts ==
  ASSUME NEW f, DOMAIN f \subseteq Nat, VerifyPasses(f), IdsUnique(f)
  PROVE  ~CrashesAtStart(f)
<1>1. ASSUME NEW i \in DOMAIN f PROVE ~BuiltWithoutRoute(f[i])
  <2>. DEFINE n == f[i].id
  <2>1. ParsedLines(f)[n] = f[i] /\ n \in FileIds(f)
    BY UniqueRead
  <2>2. DOMAIN ParsedLines(f) = FileIds(f)
    BY DEF ParsedLines
  <2>3. ParsedLines(f)[n].class = "C2" => ~BuiltWithoutRoute(ParsedLines(f)[n])
    BY <2>1, <2>2 DEF VerifyPasses
  <2>. QED BY <2>1, <2>3 DEF BuiltWithoutRoute
<1>. QED BY <1>1 DEF CrashesAtStart

(* A file that is bounded, unique, plain and of known classes, and passes, *)
(* is as Passes says.                                                      *)
LEMMA VerifiedPasses ==
  ASSUME NEW f, NEW b \in Nat, FileWithin(f, b), VerifyPasses(f), IdsUnique(f), Plain(f),
         ClassesKnown(f)
  PROVE  \E g : Passes(f, ParsedLines(f), g)
<1>. DEFINE ls == ParsedLines(f)
            N == FileIds(f)
            gateways == {n \in DOMAIN ls : ls[n].class = "C3"}
<1>1. /\ DOMAIN f \subseteq Nat /\ N \subseteq 1..b /\ IsFiniteSet(N)
      /\ \A i \in DOMAIN f : LineWithin(f[i], b)
  BY FileIdsBounded
<1>2. DOMAIN ls = N
  BY DEF ParsedLines
<1>3. \A i \in DOMAIN f : ls[f[i].id] = f[i] /\ f[i].id \in N
  <2>1. ASSUME NEW i \in DOMAIN f PROVE ls[f[i].id] = f[i] /\ f[i].id \in N
    BY <1>1, UniqueRead
  <2>. QED BY <2>1
<1>4. \A n \in N : \E i \in DOMAIN f : f[i].id = n
  BY DEF FileIds
<1>5. /\ Cardinality(gateways) = 1
      /\ \A n \in N :
           /\ ls[n].class = "C2" => ~BuiltWithoutRoute(ls[n])
           /\ ls[n].nextHop # Absent => ls[n].nextHop \in N
           /\ (ls[n].class # "C3" /\ ~BuiltWithoutRoute(ls[n])) =>
                \A g \in gateways : TracesTo(g, ls, n)
  BY <1>2 DEF VerifyPasses
<1>. HIDE DEF ls
<1>6. PICK g : gateways = {g}
  <2>1. IsFiniteSet(gateways)
    BY <1>1, <1>2, FS_Subset
  <2>. HIDE DEF gateways
  <2>. QED BY <1>5, <2>1, FS_Singleton
<1>7. g \in N /\ \A n \in N : ls[n].class = "C3" <=> n = g
  BY <1>2, <1>6
<1>8. ASSUME NEW n \in N
      PROVE  /\ n \in Nat \ {0}
             /\ ls[n] = NodeLine(n, ls[n].class, ls[n].nextHop, ls[n].hopCount)
             /\ ls[n].class \in DeviceClass
             /\ ls[n].class = "C3" => ls[n].nextHop = Absent /\ ls[n].hopCount = Absent
             /\ ls[n].class = "C1" => ls[n].nextHop # Absent /\ ls[n].hopCount # Absent
  <2>1. PICK i \in DOMAIN f : f[i].id = n /\ ls[n] = f[i]
    BY <1>3, <1>4
  <2>2. LineWithin(f[i], b)
    BY <1>1
  <2>3. n \in Nat \ {0}
    BY <1>1
  <2>. QED BY <2>1, <2>2, <2>3 DEF LineWithin, Plain, ClassesKnown, SimulatedClass
<1>9. ASSUME NEW n \in N
      PROVE  \/ /\ n = g /\ ls[n].class = "C3" /\ ls[n].nextHop = Absent
                /\ ls[n].hopCount = Absent
             \/ /\ n # g /\ ls[n].class \in DeviceClass \ {"C3"}
                /\ ls[n].nextHop \in N /\ ls[n].nextHop # Absent /\ ls[n].hopCount # Absent
                /\ TracesTo(g, ls, n)
  <2>1. CASE n = g
    BY <1>7, <1>8, <2>1
  <2>2. CASE n # g
    <3>1. ls[n].class \in DeviceClass \ {"C3"}
      BY <1>7, <1>8, <2>2
    <3>2. ls[n].nextHop # Absent /\ ls[n].hopCount # Absent
      BY <1>5, <1>8, <3>1 DEF BuiltWithoutRoute, DeviceClass
    <3>3. ls[n].nextHop \in N
      BY <1>5, <3>2
    <3>4. TracesTo(g, ls, n)
      <4>1. g \in gateways /\ ~BuiltWithoutRoute(ls[n]) /\ ls[n].class # "C3"
        BY <1>6, <3>1, <3>2 DEF BuiltWithoutRoute
      <4>. HIDE DEF gateways
      <4>. QED BY <1>5, <4>1
    <3>. QED BY <2>2, <3>1, <3>2, <3>3, <3>4
  <2>. QED BY <2>1, <2>2
<1>10. Passes(f, ls, g)
  BY <1>1, <1>2, <1>3, <1>4, <1>7, <1>8, <1>9 DEF Passes, ls
<1>. QED BY <1>10 DEF ls

(* A file just saved reads back as the drawing.                            *)
LEMMA SavedIsDrawn ==
  ASSUME IInv
  PROVE  SavedAsDrawn
<1>. SUFFICES ASSUME screen = "editor", file # <<>>, ~opening
              PROVE  /\ ReadNodes(file) = nodes
                     /\ ReadRoutings(file) =
                          {[n \in {m \in DOMAIN routings : nodes[m] # "C3" /\ routings[m] # {}}
                              |-> routings[n]]}
                     /\ Deploys(file) <=> \A n \in DOMAIN nodes : nodes[n] # "C1"
                     /\ \A i \in DOMAIN file :
                          file[i].nextHop # Absent =>
                            file[i].hopCount = HopCountOf(file[i].nextHop) + 1
                     /\ Deploys(file) =>
                          (CrashesAtStart(file) <=>
                             \E n \in DOMAIN nodes : nodes[n] = "C2" /\ Linked(routings, n) = {})
  BY DEF SavedAsDrawn
<1>1. /\ Drawn(nodes, routings) /\ Graph(nodes, routings)
      /\ Writable(nodes, routings) /\ file = FileOf(nodes, routings)
  BY DrawnInv DEF IInv, SavedInv, Drawn
<1>2. /\ DOMAIN file \subseteq Nat /\ IdsUnique(file) /\ FileIds(file) = DOMAIN nodes
      /\ \A i \in DOMAIN file : file[i] = LineOf(file[i].id, nodes, routings)
  BY <1>1, WrittenLines
<1>3. \A n \in DOMAIN nodes : HopCountOf(n) = LineOf(n, nodes, routings).hopCount
  <2>1. ASSUME NEW n \in DOMAIN nodes
        PROVE  HopCountOf(n) = LineOf(n, nodes, routings).hopCount
    <3>1. PICK i \in DOMAIN file : file[i].id = n
      BY <1>2 DEF FileIds
    <3>2. LastOf(file, {j \in DOMAIN file : file[j].id = file[i].id}) = file[i]
      BY <1>2, UniqueRead
    <3>3. file[i] = LineOf(n, nodes, routings)
      BY <1>2, <3>1
    <3>. QED BY <3>1, <3>2, <3>3 DEF HopCountOf
  <2>. QED BY <2>1
<1>4. ASSUME NEW i \in DOMAIN file, file[i].nextHop # Absent
      PROVE  file[i].hopCount = HopCountOf(file[i].nextHop) + 1
  <2>. DEFINE n == file[i].id
              l == LineOf(n, nodes, routings)
  <2>1. n \in DOMAIN nodes /\ file[i] = l
    BY <1>2 DEF FileIds
  <2>2. l.nextHop # Absent
    BY <1>4, <2>1
  <2>3. l.nextHop \in DOMAIN nodes
    BY <1>1, <2>1, <2>2, WrittenLine
  <2>4. l.hopCount = LineOf(l.nextHop, nodes, routings).hopCount + 1
    BY <1>1, <2>1, <2>2, CountsFollow
  <2>. HIDE DEF l
  <2>. QED BY <1>3, <2>1, <2>3, <2>4
<1>5. /\ ReadNodes(file) = nodes
      /\ ReadRoutings(file) =
           {[n \in {m \in DOMAIN routings : nodes[m] # "C3" /\ routings[m] # {}} |-> routings[n]]}
      /\ Deploys(file) <=> \A n \in DOMAIN nodes : nodes[n] # "C1"
      /\ Deploys(file) =>
           (CrashesAtStart(file) <=>
              \E n \in DOMAIN nodes : nodes[n] = "C2" /\ Linked(routings, n) = {})
  <2>. DEFINE reads(rs) ==
                {[n \in {m \in DOMAIN rs : nodes[m] # "C3" /\ rs[m] # {}} |-> rs[n]]}
              unlinked == \E n \in DOMAIN nodes : nodes[n] = "C2" /\ Linked(routings, n) = {}
  <2>1. /\ ReadNodes(file) = nodes /\ ReadRoutings(file) = reads(routings)
        /\ Deploys(file) <=> \A n \in DOMAIN nodes : nodes[n] # "C1"
        /\ Deploys(file) => (CrashesAtStart(file) <=> unlinked)
    BY ONLY <1>1, WrittenIsDrawn
  <2>. QED BY <2>1
<1>. QED BY <1>4, <1>5

(* The verification script passes what it should, and the others take it.  *)
LEMMA VerifiedWork ==
  ASSUME IInv
  PROVE  VerifiedFilesWork
<1>. DEFINE others == {i \in DOMAIN file : file[i].class \notin SimulatedClass}
<1>1. ASSUME origin = "generated" PROVE VerifyPasses(file) /\ IdsUnique(file) /\ others = {}
  <2>1. PICK n \in TreeSizes : file \in Generated(n)
    BY <1>1 DEF IInv, OriginInv
  <2>2. n \in Nat
    BY TopologyAssumption
  <2>. QED BY <2>1, <2>2, GeneratedPasses
<1>2. PICK b \in Nat : FileWithin(file, b)
  BY DEF IInv, FileInv
<1>3. ASSUME VerifyPasses(file), IdsUnique(file)
      PROVE  ~CrashesAtStart(file) /\ (Deploys(file) <=> others = {})
  <2>1. DOMAIN file \subseteq Nat
    BY <1>2, FileIdsBounded
  <2>2. ~CrashesAtStart(file)
    BY <1>3, <2>1, VerifiedStarts
  <2>3. Deploys(file) <=> others = {}
    BY <1>3 DEF Deploys
  <2>. QED BY <2>2, <2>3
<1>4. ASSUME VerifyPasses(file), IdsUnique(file), Plain(file), ClassesKnown(file)
      PROVE  /\ HopsExist(file)
             /\ \A routes \in ReadRoutings(file) :
                  /\ Writable(ReadNodes(file), routes)
                  /\ ToSet(FileOf(ReadNodes(file), routes)) = ToSet(file)
  <2>1. PICK g : Passes(file, ParsedLines(file), g)
    BY <1>2, <1>4, VerifiedPasses
  <2>2. HopsExist(file)
    BY <2>1, PassedIsRead
  <2>3. ASSUME NEW routes \in ReadRoutings(file)
        PROVE  /\ Writable(ReadNodes(file), routes)
               /\ ToSet(FileOf(ReadNodes(file), routes)) = ToSet(file)
    BY <2>1, PassedWorks
  <2>. QED BY <2>2, <2>3
<1>5. (\A i \in DOMAIN file :
         /\ file[i].class = "C3" => file[i].nextHop = Absent /\ file[i].hopCount = Absent
         /\ i \in others => file[i].nextHop # Absent /\ file[i].hopCount # Absent)
        => Plain(file)
  BY DEF Plain
<1>. QED BY <1>1, <1>3, <1>4, <1>5 DEF VerifiedFilesWork

(* Whatever was drawn, cut, opened and changed by hand before, a file just *)
(* saved is the drawing, but for links that start at a gateway: it reads   *)
(* back with the same devices and links, every hop count is one more than  *)
(* the next hop's, the simulator refuses it only for a C1, and crashes     *)
(* with what it deploys only if a C2 was left without a link.              *)
THEOREM SavedAsDrawnAlways == Spec => []SavedAsDrawn
<1>. QED BY SavedIsDrawn, InitEstablishes, StepPreserves, PTL DEF Spec

(* Whoever wrote it, a file that verify_topology.py passes, with unique    *)
(* identifiers, gateways without a route and a whole one for devices that  *)
(* are neither C2 nor C3, is refused by the simulator exactly for those,   *)
(* and never crashes it; if the editor knows its classes, it opens it and  *)
(* would save it back the same; and the script passes every file the       *)
(* generator writes, which has none of those devices.                      *)
THEOREM VerifiedFilesWorkAlways == Spec => []VerifiedFilesWork
<1>. QED BY VerifiedWork, InitEstablishes, StepPreserves, PTL DEF Spec
===============================================================================
