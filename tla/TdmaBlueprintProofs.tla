-------------------------- MODULE TdmaBlueprintProofs --------------------------
(***************************************************************************)
(* TdmaBlueprint proved, for every cycle, every cut into segments and      *)
(* every pattern: the queries agree with the cycle unrolled, no boundary   *)
(* is jumped over, a node is awake in its own windows only, and a chain of *)
(* transitions breaks only where a segment cuts a pattern short.           *)
(***************************************************************************)
EXTENDS TdmaBlueprint, SequenceTheorems, WellFoundedInduction, TLAPS

-------------------------------------------------------------------------------
(* Numbers: the least of a set, induction, quotient and remainder.         *)

Below == {p \in Nat \X Nat : p[1] < p[2]}

(* A set of numbers that is not empty has a least element.                 *)
LEMMA LeastExists ==
  ASSUME NEW T \in SUBSET Nat, T # {}
  PROVE  \E x \in T : \A y \in T : x <= y
<1>1. IsWellFoundedOn(Below, Nat)
  BY NatLessThanWellFounded DEF OpToRel, Below
<1>2. PICK x \in T : \A y \in T : <<y, x>> \notin Below
  BY <1>1, WFMin
<1>3. \A y \in T : ~(y < x)
  BY <1>2 DEF Below
<1>. QED BY <1>3

(* Induction, the predicate given as the set of numbers that have it.      *)
LEMMA Induction ==
  ASSUME NEW T \in SUBSET Nat, 0 \in T, \A n \in T : n + 1 \in T
  PROVE  T = Nat
<1>. SUFFICES ASSUME Nat \ T # {} PROVE FALSE
  OBVIOUS
<1>1. PICK x \in Nat \ T : \A y \in Nat \ T : x <= y
  BY LeastExists
<1>2. x - 1 \in T
  BY <1>1
<1>. QED BY <1>1, <1>2

(* A product by a number that is at least one is not smaller.              *)
LEMMA Product ==
  ASSUME NEW q \in Int, NEW w \in Int, q >= 1, w > 0
  PROVE  q * w >= w
<1>1. (q - 1) * w >= 0
  OBVIOUS
<1>2. (q - 1) * w = q * w - w
  OBVIOUS
<1>3. q * w \in Int
  OBVIOUS
<1>. QED BY <1>1, <1>2, <1>3

(* Larger quotients make larger products, by a whole divisor.              *)
LEMMA ProductApart ==
  ASSUME NEW p \in Int, NEW q \in Int, NEW w \in Int, w > 0, p < q
  PROVE  /\ p * w \in Int /\ q * w \in Int
         /\ p * w + w <= q * w
<1>1. (q - p) * w >= w
  BY Product
<1>2. (q - p) * w = q * w - p * w
  OBVIOUS
<1>3. p * w \in Int /\ q * w \in Int
  OBVIOUS
<1>. QED
  <2> DEFINE a == p * w
             b == q * w
             e == (q - p) * w
  <2>1. a \in Int /\ b \in Int /\ e >= w /\ e = b - a
    BY <1>1, <1>2, <1>3
  <2> HIDE DEF a, b, e
  <2>2. a + w <= b
    BY <2>1
  <2>. QED BY <2>1, <2>2 DEF a, b

(* What dividing a number gives.                                           *)
LEMMA Divided ==
  ASSUME NEW y \in Nat, NEW w \in Nat \ {0}
  PROVE  /\ y \div w \in Nat /\ y % w \in 0..(w - 1) /\ (y \div w) * w \in Nat
         /\ y = (y \div w) * w + (y % w)
<1>1. y \div w \in Nat /\ y % w \in 0..(w - 1)
  OBVIOUS
<1>2. y = (y \div w) * w + (y % w)
  OBVIOUS
<1>3. (y \div w) * w \in Nat
  BY <1>1
<1>. QED BY <1>1, <1>2, <1>3

(* Only one multiple and remainder make a number.                          *)
LEMMA DivideBy ==
  ASSUME NEW y \in Nat, NEW w \in Nat \ {0}, NEW q \in Nat, NEW r \in 0..(w - 1),
         y = q * w + r
  PROVE  y \div w = q /\ y % w = r
<1> DEFINE p == y \div w
           s == y % w
           a == p * w
           b == q * w
<1>1. p \in Nat /\ s \in 0..(w - 1) /\ a \in Nat /\ y = a + s
  BY Divided
<1>2. b \in Nat /\ y = b + r
  OBVIOUS
<1>3. p < q => a + w <= b
  <2>. SUFFICES ASSUME p < q PROVE a + w <= b
    OBVIOUS
  <2>. HIDE DEF p
  <2>. QED BY <1>1, ProductApart DEF a
<1>4. q < p => b + w <= a
  <2>. SUFFICES ASSUME q < p PROVE b + w <= a
    OBVIOUS
  <2>. HIDE DEF p
  <2>. QED BY <1>1, ProductApart DEF a
<1>. HIDE DEF p, s, a, b
<1>5. p = q
  BY <1>1, <1>2, <1>3, <1>4
<1>6. a = b
  BY <1>5 DEF a, b
<1>. QED BY <1>1, <1>2, <1>5, <1>6 DEF p, s

-------------------------------------------------------------------------------
(* The accumulated time of a list of segments or of pattern steps.         *)

(* The recursion of Elapsed, up to the n-th element.                       *)
AddsUp(f, n, s) ==
  f = [k \in 0..n |-> IF k = 0 THEN 0 ELSE f[k - 1] + s[k].durationMs]

(* It has a solution of every length.                                      *)
LEMMA AddsUpExists ==
  ASSUME NEW s
  PROVE  \A n \in Nat : \E f : AddsUp(f, n, s)
<1> DEFINE T == {n \in Nat : \E f : AddsUp(f, n, s)}
<1>1. 0 \in T
  <2>1. AddsUp([k \in 0..0 |-> 0], 0, s)
    BY DEF AddsUp
  <2>. QED BY <2>1
<1>2. ASSUME NEW n \in T PROVE n + 1 \in T
  <2>1. PICK f : AddsUp(f, n, s)
    OBVIOUS
  <2> DEFINE last == f[n] + s[n + 1].durationMs
             g == [k \in 0..(n + 1) |-> IF k = n + 1 THEN last ELSE f[k]]
  <2>2. \A k \in 0..n : f[k] = IF k = 0 THEN 0 ELSE f[k - 1] + s[k].durationMs
    BY <2>1 DEF AddsUp
  <2>3. g[n + 1] = last /\ \A k \in 0..n : g[k] = f[k]
    OBVIOUS
  <2>4. g = [k \in 0..(n + 1) |-> g[k]]
    OBVIOUS
  <2>. HIDE DEF g
  <2>5. \A k \in 0..(n + 1) : g[k] = IF k = 0 THEN 0 ELSE g[k - 1] + s[k].durationMs
    <3>. SUFFICES ASSUME NEW k \in 0..(n + 1)
                  PROVE  g[k] = IF k = 0 THEN 0 ELSE g[k - 1] + s[k].durationMs
      OBVIOUS
    <3>1. CASE k = n + 1
      <4>1. k # 0 /\ k - 1 = n /\ n \in 0..n
        BY <3>1
      <4>. QED BY <2>3, <3>1, <4>1
    <3>2. CASE k \in 0..n
      <4>1. k # 0 => k - 1 \in 0..n
        BY <3>2
      <4>. QED BY <2>2, <2>3, <3>2, <4>1
    <3>. QED BY <3>1, <3>2
  <2>6. AddsUp(g, n + 1, s)
    BY <2>4, <2>5 DEF AddsUp
  <2>. QED BY <2>6
<1>3. T = Nat
  <2> HIDE DEF T
  <2>1. T \in SUBSET Nat
    BY DEF T
  <2>. QED BY <1>1, <1>2, <2>1, Induction
<1>. QED BY <1>3

(* A list of things that all last some time.                               *)
Lasting(s) ==
  Len(s) \in Nat /\ \A k \in 1..Len(s) : s[k].durationMs \in Nat \ {0}

(* What the accumulated time is.                                           *)
LEMMA ElapsedIs ==
  ASSUME NEW s, Lasting(s)
  PROVE  /\ Elapsed(s)[0] = 0
         /\ \A k \in 0..Len(s) : Elapsed(s)[k] \in Nat
         /\ \A k \in 1..Len(s) : Elapsed(s)[k] = Elapsed(s)[k - 1] + s[k].durationMs
<1> DEFINE f == Elapsed(s)
           n == Len(s)
<1>1. AddsUp(f, n, s)
  <2>1. PICK g : AddsUp(g, n, s)
    BY AddsUpExists DEF Lasting
  <2>2. f = CHOOSE h : AddsUp(h, n, s)
    BY DEF Elapsed, AddsUp
  <2>. QED BY <2>1, <2>2
<1>2. n \in Nat /\ \A k \in 1..n : s[k].durationMs \in Nat \ {0}
  BY DEF Lasting
<1>. HIDE DEF f, n
<1>3. \A k \in 0..n : f[k] = IF k = 0 THEN 0 ELSE f[k - 1] + s[k].durationMs
  BY <1>1 DEF AddsUp
<1>4. f[0] = 0 /\ \A k \in 1..n : f[k] = f[k - 1] + s[k].durationMs
  BY <1>2, <1>3
<1> DEFINE T == {k \in Nat : k <= n => f[k] \in Nat}
<1>5. T = Nat
  <2>1. 0 \in T
    BY <1>4
  <2>2. ASSUME NEW k \in T PROVE k + 1 \in T
    <3>. SUFFICES ASSUME k + 1 <= n PROVE f[k + 1] \in Nat
      OBVIOUS
    <3>1. k + 1 \in 1..n /\ (k + 1) - 1 = k /\ f[k] \in Nat
      BY <1>2
    <3>. QED BY <1>2, <1>4, <3>1
  <2>3. T \in SUBSET Nat
    OBVIOUS
  <2>. HIDE DEF T
  <2>. QED BY <2>1, <2>2, <2>3, Induction
<1>6. \A k \in 0..n : f[k] \in Nat
  BY <1>2, <1>5
<1>. QED BY <1>4, <1>6 DEF f, n

(* It grows with every element.                                            *)
LEMMA ElapsedGrows ==
  ASSUME NEW s, Lasting(s), NEW j \in 0..Len(s), NEW k \in 0..Len(s), j < k
  PROVE  Elapsed(s)[j] < Elapsed(s)[k]
<1> DEFINE f == Elapsed(s)
           n == Len(s)
           T == {i \in Nat : j < i /\ i <= n => f[j] < f[i]}
<1>1. /\ n \in Nat /\ \A i \in 1..n : s[i].durationMs \in Nat \ {0}
      /\ \A i \in 0..n : f[i] \in Nat
      /\ \A i \in 1..n : f[i] = f[i - 1] + s[i].durationMs
  BY ElapsedIs DEF Lasting
<1>. HIDE DEF f, n
<1>. USE DEF n
<1>2. 0 \in T
  BY <1>1
<1>3. ASSUME NEW i \in T PROVE i + 1 \in T
  <2>. SUFFICES ASSUME j < i + 1, i + 1 <= n PROVE f[j] < f[i + 1]
    OBVIOUS
  <2>1. i \in Nat /\ i + 1 \in 1..n /\ (i + 1) - 1 = i /\ i \in 0..n /\ j \in 0..n
    BY <1>1
  <2>2. f[i + 1] = f[i] + s[i + 1].durationMs
    BY <1>1, <2>1
  <2>3. f[i] < f[i + 1] /\ f[i] \in Nat /\ f[j] \in Nat /\ f[i + 1] \in Nat
    BY <1>1, <2>1, <2>2
  <2>4. j < i => f[j] < f[i]
    BY <2>1
  <2>. QED BY <2>1, <2>3, <2>4
<1>4. T = Nat
  <2>1. T \in SUBSET Nat
    OBVIOUS
  <2>. HIDE DEF T
  <2>. QED BY <1>2, <1>3, <2>1, Induction
<1>5. k \in T
  BY <1>4
<1>. QED BY <1>5 DEF f

(* The element that a time is in.                                          *)
Within(s, k, x) == Elapsed(s)[k - 1] <= x /\ x < Elapsed(s)[k]

(* There is one, when the time is less than the whole.                     *)
LEMMA WithinSome ==
  ASSUME NEW s, Lasting(s), NEW x \in Nat, x < Duration(s)
  PROVE  \E k \in 1..Len(s) : Within(s, k, x)
<1> DEFINE T == {k \in 0..Len(s) : x < Elapsed(s)[k]}
<1>1. Len(s) \in Nat /\ Len(s) \in T
  BY DEF Duration, Lasting
<1>2. PICK k \in T : \A j \in T : k <= j
  <2>. HIDE DEF T
  <2>1. T \in SUBSET Nat
    BY DEF T
  <2>. QED BY <1>1, <2>1, LeastExists
<1>3. k # 0 /\ k - 1 \in 0..Len(s) /\ Elapsed(s)[k - 1] \in Nat
  <2>1. Elapsed(s)[0] = 0
    BY ElapsedIs
  <2>2. k # 0 /\ k \in 0..Len(s)
    BY <2>1
  <2>3. k - 1 \in 0..Len(s)
    BY <1>1, <2>2
  <2>. QED BY <2>2, <2>3, ElapsedIs
<1>4. ~(x < Elapsed(s)[k - 1])
  BY <1>1, <1>2, <1>3
<1>5. k \in 1..Len(s) /\ x < Elapsed(s)[k]
  BY <1>1, <1>3
<1>. QED BY <1>3, <1>4, <1>5 DEF Within

(* And only one.                                                           *)
LEMMA WithinOne ==
  ASSUME NEW s, Lasting(s), NEW x \in Nat, NEW j \in 1..Len(s), NEW k \in 1..Len(s),
         Within(s, j, x), Within(s, k, x)
  PROVE  j = k
<1>1. \A i \in 1..Len(s) : i - 1 \in 0..Len(s) /\ i \in 0..Len(s)
  BY DEF Lasting
<1>2. /\ Elapsed(s)[j] \in Nat /\ Elapsed(s)[j - 1] \in Nat
      /\ Elapsed(s)[k] \in Nat /\ Elapsed(s)[k - 1] \in Nat
  BY <1>1, ElapsedIs
<1>3. ASSUME NEW a \in 1..Len(s), NEW b \in 1..Len(s), a < b
      PROVE  Elapsed(s)[a] <= Elapsed(s)[b - 1]
  <2>1. a \in Nat /\ b \in Nat /\ (a = b - 1 \/ a < b - 1)
    BY <1>3 DEF Lasting
  <2>2. a < b - 1 => Elapsed(s)[a] < Elapsed(s)[b - 1]
    BY <1>1, ElapsedGrows
  <2>3. Elapsed(s)[a] \in Nat /\ Elapsed(s)[b - 1] \in Nat
    BY <1>1, ElapsedIs
  <2>. QED BY <2>1, <2>2, <2>3
<1>4. ~(j < k) /\ ~(k < j)
  BY <1>2, <1>3 DEF Within
<1>. QED BY <1>4 DEF Lasting

-------------------------------------------------------------------------------
(* Sequences put end to end: where the elements of each are found.         *)

(* The recursion of FlattenSeq, up to the n-th element.                    *)
Flattens(f, n, s) ==
  f = [i \in 1..n |-> IF i = 1 THEN s[i] ELSE f[i - 1] \o s[i]]

(* It has a solution of every length.                                      *)
LEMMA FlattensExists ==
  ASSUME NEW s
  PROVE  \A n \in Nat : \E f : Flattens(f, n, s)
<1> DEFINE T == {n \in Nat : \E f : Flattens(f, n, s)}
<1>1. 0 \in T
  <2>1. Flattens([i \in 1..0 |-> s[i]], 0, s)
    BY DEF Flattens
  <2>. QED BY <2>1
<1>2. ASSUME NEW n \in T PROVE n + 1 \in T
  <2>1. PICK f : Flattens(f, n, s)
    OBVIOUS
  <2> DEFINE last == IF n = 0 THEN s[n + 1] ELSE f[n] \o s[n + 1]
             g == [i \in 1..(n + 1) |-> IF i = n + 1 THEN last ELSE f[i]]
  <2>2. \A i \in 1..n : f[i] = IF i = 1 THEN s[i] ELSE f[i - 1] \o s[i]
    BY <2>1 DEF Flattens
  <2>3. g[n + 1] = last /\ \A i \in 1..n : g[i] = f[i]
    <3>. HIDE DEF last
    <3>. QED OBVIOUS
  <2>4. g = [i \in 1..(n + 1) |-> g[i]]
    OBVIOUS
  <2>. HIDE DEF g
  <2>5. ASSUME NEW i \in 1..(n + 1)
        PROVE  g[i] = IF i = 1 THEN s[i] ELSE g[i - 1] \o s[i]
    <3>1. CASE i = n + 1 /\ n = 0
      BY <2>3, <3>1
    <3>2. CASE i = n + 1 /\ n # 0
      <4>1. n \in 1..n /\ i - 1 = n /\ i # 1
        BY <3>2
      <4>2. last = f[n] \o s[n + 1]
        BY <3>2
      <4>. HIDE DEF last
      <4>3. g[i] = last /\ g[i - 1] = f[n]
        BY <2>3, <3>2, <4>1
      <4>. QED BY <3>2, <4>1, <4>2, <4>3
    <3>3. CASE i \in 1..n
      <4>1. i # 1 => i - 1 \in 1..n
        BY <3>3
      <4>. HIDE DEF last
      <4>. QED BY <2>2, <2>3, <3>3, <4>1
    <3>. QED BY <3>1, <3>2, <3>3
  <2>6. Flattens(g, n + 1, s)
    BY <2>4, <2>5 DEF Flattens
  <2>. QED BY <2>6
<1>3. T = Nat
  <2>. HIDE DEF T
  <2>1. T \in SUBSET Nat
    BY DEF T
  <2>. QED BY <1>1, <1>2, <2>1, Induction
<1>. QED BY <1>3

(* Of two sequences.                                                       *)
LEMMA ConcatAt ==
  ASSUME NEW S, NEW a \in Seq(S), NEW b \in Seq(S)
  PROVE  /\ a \o b \in Seq(S) /\ Len(a \o b) = Len(a) + Len(b)
         /\ \A j \in 1..Len(a) : (a \o b)[j] = a[j]
         /\ \A j \in 1..Len(b) : (a \o b)[Len(a) + j] = b[j]
<1>1. /\ Len(a) \in Nat /\ Len(b) \in Nat
      /\ a \o b \in Seq(S) /\ Len(a \o b) = Len(a) + Len(b)
      /\ \A i \in 1..(Len(a) + Len(b)) :
           (a \o b)[i] = IF i <= Len(a) THEN a[i] ELSE b[i - Len(a)]
  BY ConcatProperties, LenProperties
<1>2. ASSUME NEW j \in 1..Len(a) PROVE (a \o b)[j] = a[j]
  <2>1. j \in 1..(Len(a) + Len(b)) /\ j <= Len(a)
    BY <1>1
  <2>. QED BY <1>1, <2>1
<1>3. ASSUME NEW j \in 1..Len(b) PROVE (a \o b)[Len(a) + j] = b[j]
  <2>1. /\ Len(a) + j \in 1..(Len(a) + Len(b)) /\ ~(Len(a) + j <= Len(a))
        /\ (Len(a) + j) - Len(a) = j
    BY <1>1
  <2>. QED BY <1>1, <2>1
<1>. QED BY <1>1, <1>2, <1>3

(* e is where each of the sequences of s ends in all of them end to end.   *)
Ends(e, s) ==
  /\ e[0] = 0
  /\ \A k \in 0..Len(s) : e[k] \in Nat
  /\ \A k \in 1..Len(s) : e[k] = e[k - 1] + Len(s[k])

(* The j-th element of the k-th sequence follows the end of the sequence   *)
(* before.                                                                 *)
LEMMA FlattenAt ==
  ASSUME NEW S, NEW s \in Seq(Seq(S)), s # << >>, NEW e, Ends(e, s)
  PROVE  /\ Len(FlattenSeq(s)) = e[Len(s)]
         /\ \A k \in 1..Len(s) : \A j \in 1..Len(s[k]) :
              FlattenSeq(s)[e[k - 1] + j] = s[k][j]
<1> DEFINE n == Len(s)
<1>1. n \in Nat \ {0} /\ \A k \in 1..n : s[k] \in Seq(S) /\ Len(s[k]) \in Nat
  BY EmptySeq, LenProperties, ElementOfSeq
<1>2. PICK f : FlattenSeq(s) = f[n] /\ Flattens(f, n, s)
  <2>. DEFINE f == CHOOSE f : Flattens(f, n, s)
  <2>1. FlattenSeq(s) = f[n]
    BY <1>1 DEF FlattenSeq, Flattens
  <2>2. Flattens(f, n, s)
    BY <1>1, FlattensExists
  <2>. HIDE DEF f
  <2>. QED BY <2>1, <2>2
<1>3. \A i \in 1..n : f[i] = IF i = 1 THEN s[i] ELSE f[i - 1] \o s[i]
  BY <1>2 DEF Flattens
<1>4. /\ e[0] = 0
      /\ \A k \in 0..n : e[k] \in Nat
      /\ \A k \in 1..n : e[k] = e[k - 1] + Len(s[k])
  BY DEF Ends
<1>. HIDE DEF n
<1> DEFINE P(i) == /\ f[i] \in Seq(S) /\ Len(f[i]) = e[i]
                   /\ \A k \in 1..i : e[k] <= e[i]
                   /\ \A k \in 1..i : \A j \in 1..Len(s[k]) : f[i][e[k - 1] + j] = s[k][j]
           T == {i \in Nat : i \in 1..n => P(i)}
<1>5. P(1)
  <2>1. 1 \in 1..n /\ f[1] = s[1] /\ e[1] = Len(s[1]) /\ e[0] = 0 /\ 1 - 1 = 0
    BY <1>1, <1>3, <1>4
  <2>2. \A j \in 1..Len(s[1]) : e[1 - 1] + j = j
    BY <2>1
  <2>3. s[1] \in Seq(S) /\ e[1] <= e[1]
    BY <1>1, <2>1
  <2>4. \A k \in 1..1 : k = 1
    OBVIOUS
  <2>. QED BY <2>1, <2>2, <2>3, <2>4
<1>6. ASSUME NEW i \in 1..n, i + 1 \in 1..n, P(i) PROVE P(i + 1)
  <2>1. f[i + 1] = f[i] \o s[i + 1] /\ e[i + 1] = e[i] + Len(s[i + 1])
    <3>1. i + 1 # 1 /\ (i + 1) - 1 = i
      OBVIOUS
    <3>. QED BY <1>3, <1>4, <1>6, <3>1
  <2>2. /\ f[i] \in Seq(S) /\ s[i + 1] \in Seq(S) /\ Len(f[i]) = e[i]
        /\ e[i] \in Nat /\ Len(s[i + 1]) \in Nat
    BY <1>1, <1>4, <1>6
  <2>3. /\ f[i + 1] \in Seq(S) /\ Len(f[i + 1]) = e[i + 1]
        /\ \A l \in 1..Len(f[i]) : f[i + 1][l] = f[i][l]
        /\ \A l \in 1..Len(s[i + 1]) : f[i + 1][Len(f[i]) + l] = s[i + 1][l]
    <3> DEFINE a == f[i]
               b == s[i + 1]
    <3>1. a \in Seq(S) /\ b \in Seq(S) /\ f[i + 1] = a \o b /\ Len(a) = e[i]
          /\ e[i + 1] = e[i] + Len(b)
      BY <2>1, <2>2
    <3>. HIDE DEF a, b
    <3>2. /\ a \o b \in Seq(S) /\ Len(a \o b) = Len(a) + Len(b)
          /\ \A l \in 1..Len(a) : (a \o b)[l] = a[l]
          /\ \A l \in 1..Len(b) : (a \o b)[Len(a) + l] = b[l]
      <4>1. a \in Seq(S) /\ b \in Seq(S)
        BY <3>1
      <4>. QED BY ONLY <4>1, ConcatAt
    <3>3. /\ f[i + 1] \in Seq(S) /\ Len(f[i + 1]) = e[i + 1]
          /\ \A l \in 1..Len(a) : f[i + 1][l] = a[l]
          /\ \A l \in 1..Len(b) : f[i + 1][Len(a) + l] = b[l]
      BY <3>1, <3>2
    <3>. QED BY <3>3 DEF a, b
  <2>4. ASSUME NEW k \in 1..(i + 1) PROVE e[k] <= e[i + 1]
    <3>1. CASE k = i + 1
      BY <2>1, <2>2, <3>1
    <3>2. CASE k \in 1..i
      <4>1. e[k] <= e[i] /\ e[k] \in Nat
        BY <1>1, <1>4, <1>6, <3>2
      <4>. QED BY <2>1, <2>2, <4>1
    <3>. QED BY <3>1, <3>2
  <2>5. ASSUME NEW k \in 1..(i + 1), NEW j \in 1..Len(s[k])
        PROVE  f[i + 1][e[k - 1] + j] = s[k][j]
    <3>1. /\ k \in 1..n /\ k - 1 \in 0..n /\ Len(s[k]) \in Nat /\ e[k - 1] \in Nat
          /\ e[k] = e[k - 1] + Len(s[k])
      BY <1>1, <1>4, <1>6
    <3>2. CASE k = i + 1
      <4>1. e[k - 1] = Len(f[i]) /\ s[k] = s[i + 1]
        <5>1. k - 1 = i
          BY <3>2
        <5>. QED BY <2>2, <3>2, <5>1
      <4>. QED BY <2>3, <4>1
    <3>3. CASE k \in 1..i
      <4>1. e[k] <= e[i] /\ f[i][e[k - 1] + j] = s[k][j]
        BY <1>6, <3>3
      <4>2. e[k - 1] + j \in 1..Len(f[i])
        <5>1. j \in Nat /\ 1 <= j /\ j <= Len(s[k])
          BY <3>1
        <5> DEFINE x == e[k - 1]
                   y == e[k]
                   z == e[i]
                   l == Len(s[k])
        <5>2. x \in Nat /\ l \in Nat /\ y = x + l /\ y <= z /\ z \in Nat /\ j <= l
              /\ Len(f[i]) = z
          BY <2>2, <3>1, <4>1, <5>1
        <5>. HIDE DEF x, y, z, l
        <5>3. x + j \in 1..z
          BY <5>1, <5>2
        <5>. QED BY <5>2, <5>3 DEF x
      <4>. QED BY <2>3, <4>1, <4>2
    <3>. QED BY <3>2, <3>3
  <2>. QED BY <2>3, <2>4, <2>5
<1>7. T = Nat
  <2>1. 0 \in T
    OBVIOUS
  <2>2. ASSUME NEW i \in T PROVE i + 1 \in T
    <3>. SUFFICES ASSUME i + 1 \in 1..n PROVE P(i + 1)
      OBVIOUS
    <3>. HIDE DEF P
    <3>1. CASE i = 0
      BY <1>5, <3>1
    <3>2. CASE i # 0
      <4>1. i \in 1..n /\ P(i)
        BY <1>1, <3>2
      <4>. QED BY <1>6, <4>1
    <3>. QED BY <3>1, <3>2
  <2>3. T \in SUBSET Nat
    OBVIOUS
  <2>. HIDE DEF T
  <2>. QED BY <2>1, <2>2, <2>3, Induction
<1>8. P(n)
  <2>. HIDE DEF P
  <2>1. n \in T /\ n \in 1..n
    BY <1>1, <1>7
  <2>. QED BY <2>1
<1>. QED BY <1>2, <1>8 DEF n

-------------------------------------------------------------------------------
(* The queries of a configured blueprint.                                  *)

CycleLaid == \E s \in SegmentChoices : Fills(s) /\ timeline = Laid(s)

StepList == Seq([state : WindowState, durationMs : Int])

PatternsValid ==
  \A key \in DOMAIN modePatterns :
    modePatterns[key] \in StepList /\ ValidPattern(modePatterns[key])

(* A time of the cycle that is in the i-th segment.                        *)
In(i, x) == timeline[i].start <= x /\ x < timeline[i].end

(* The segments tile the cycle.                                            *)
LEMMA Tiles ==
  ASSUME CycleLaid
  PROVE  /\ Len(timeline) \in Nat \ {0} /\ DOMAIN timeline = 1..Len(timeline)
         /\ \A i \in DOMAIN timeline :
              /\ timeline[i].start \in Nat /\ timeline[i].end \in Nat
              /\ timeline[i].start < timeline[i].end /\ timeline[i].end <= CycleMs
              /\ timeline[i].mode \in Modes
         /\ \A x \in 0..(CycleMs - 1) : \E i \in DOMAIN timeline : In(i, x)
         /\ \A i, j \in DOMAIN timeline : \A x \in Nat : In(i, x) /\ In(j, x) => i = j
         /\ timeline[1].start = 0 /\ timeline[Len(timeline)].end = CycleMs
         /\ \A i \in DOMAIN timeline :
              i # Len(timeline) => timeline[i].end = timeline[i + 1].start
<1>1. PICK s \in SegmentChoices : Fills(s) /\ timeline = Laid(s)
  BY DEF CycleLaid
<1> DEFINE n == Len(s)
<1>2. /\ n \in Nat /\ DOMAIN s = 1..n
      /\ \A i \in 1..n : s[i].durationMs \in Int /\ s[i].mode \in Modes
  <2>1. s \in Seq([mode : Modes, durationMs : Int])
    BY CycleAssumption
  <2>2. \A i \in 1..n : s[i] \in [mode : Modes, durationMs : Int]
    BY <2>1, ElementOfSeq
  <2>3. n \in Nat /\ DOMAIN s = 1..n
    BY <2>1, LenProperties
  <2>. QED BY <2>2, <2>3
<1>3. Lasting(s) /\ Elapsed(s)[n] = CycleMs
  BY <1>1, <1>2 DEF Fills, Lasting, Duration
<1>4. /\ Elapsed(s)[0] = 0 /\ \A i \in 0..n : Elapsed(s)[i] \in Nat
      /\ \A i \in 1..n : Elapsed(s)[i] = Elapsed(s)[i - 1] + s[i].durationMs
  BY <1>3, ElapsedIs
<1>5. n # 0
  BY <1>3, <1>4, CycleAssumption
<1>6. /\ Len(timeline) = n /\ DOMAIN timeline = 1..n
      /\ \A i \in 1..n : timeline[i] = [mode |-> s[i].mode, start |-> Elapsed(s)[i - 1],
                                        end |-> Elapsed(s)[i]]
  <2>1. timeline = [i \in 1..n |-> [mode |-> s[i].mode, start |-> Elapsed(s)[i - 1],
                                    end |-> Elapsed(s)[i]]]
    BY <1>1, <1>2 DEF Laid
  <2>. QED BY <1>2, <2>1
<1>7. \A i \in 1..n : /\ timeline[i].start = Elapsed(s)[i - 1] /\ timeline[i].end = Elapsed(s)[i]
                      /\ timeline[i].mode = s[i].mode
  BY <1>6
<1>8. ASSUME NEW i \in 1..n
      PROVE  /\ timeline[i].start \in Nat /\ timeline[i].end \in Nat
             /\ timeline[i].start < timeline[i].end /\ timeline[i].end <= CycleMs
             /\ timeline[i].mode \in Modes
  <2>1. i - 1 \in 0..n /\ i \in 0..n /\ n \in 0..n /\ i - 1 < i /\ (i = n \/ i < n)
    <3>1. n \in Nat
      BY <1>2
    <3>. HIDE DEF n
    <3>. QED BY <3>1
  <2>2. Elapsed(s)[i - 1] < Elapsed(s)[i]
    BY <1>3, <2>1, ElapsedGrows
  <2>3. i < n => Elapsed(s)[i] < Elapsed(s)[n]
    BY <1>3, <2>1, ElapsedGrows
  <2>4. Elapsed(s)[i] <= CycleMs
    BY <1>3, <1>4, <2>1, <2>3
  <2>. QED BY <1>2, <1>4, <1>7, <2>1, <2>2, <2>4
<1>9. \A i \in 1..n, x \in Nat : In(i, x) <=> Within(s, i, x)
  BY <1>7 DEF In, Within
<1>10. ASSUME NEW x \in 0..(CycleMs - 1) PROVE \E i \in 1..n : In(i, x)
  <2>1. x \in Nat /\ x < Duration(s)
    BY <1>3, CycleAssumption DEF Duration
  <2>2. \E i \in 1..n : Within(s, i, x)
    BY <1>3, <2>1, WithinSome
  <2>. QED BY <1>9, <2>1, <2>2
<1>11. ASSUME NEW i \in 1..n, NEW j \in 1..n, NEW x \in Nat, In(i, x), In(j, x) PROVE i = j
  BY <1>3, <1>9, <1>11, WithinOne
<1>12. timeline[1].start = 0 /\ timeline[n].end = CycleMs
  <2>1. 1 \in 1..n /\ n \in 1..n /\ 1 - 1 = 0
    BY <1>2, <1>5
  <2>. QED BY <1>3, <1>4, <1>7, <2>1
<1>13. \A i \in 1..n : i # n => timeline[i].end = timeline[i + 1].start
  <2>. SUFFICES ASSUME NEW i \in 1..n, i # n PROVE timeline[i].end = timeline[i + 1].start
    OBVIOUS
  <2>1. i + 1 \in 1..n /\ (i + 1) - 1 = i
    <3>1. n \in Nat
      BY <1>2
    <3>. HIDE DEF n
    <3>. QED BY <3>1
  <2>. QED BY <1>7, <2>1
<1>. HIDE DEF n
<1>. QED BY <1>2, <1>5, <1>6, <1>8, <1>10, <1>11, <1>12, <1>13

(* The number of the segment that a time is in.                            *)
SegmentIndex(t) ==
  CHOOSE i \in DOMAIN timeline :
    TimeInCycle(t) >= timeline[i].start /\ TimeInCycle(t) < timeline[i].end

LEMMA SegmentFound ==
  ASSUME CycleLaid, NEW t \in Nat
  PROVE  /\ TimeInCycle(t) \in 0..(CycleMs - 1)
         /\ SegmentIndex(t) \in DOMAIN timeline
         /\ SegmentAt(t) = timeline[SegmentIndex(t)]
         /\ In(SegmentIndex(t), TimeInCycle(t))
         /\ \A i \in DOMAIN timeline : In(i, TimeInCycle(t)) => SegmentIndex(t) = i
<1>1. TimeInCycle(t) \in 0..(CycleMs - 1) /\ TimeInCycle(t) \in Nat
  BY Divided, CycleAssumption DEF TimeInCycle
<1>2. \E i \in DOMAIN timeline : In(i, TimeInCycle(t))
  BY <1>1, Tiles
<1>3. SegmentIndex(t) = CHOOSE i \in DOMAIN timeline : In(i, TimeInCycle(t))
  <2>1. \A i \in DOMAIN timeline :
          (TimeInCycle(t) >= timeline[i].start /\ TimeInCycle(t) < timeline[i].end)
            <=> In(i, TimeInCycle(t))
    BY <1>1, Tiles DEF In
  <2>. QED BY <2>1 DEF SegmentIndex
<1>4. SegmentIndex(t) \in DOMAIN timeline /\ In(SegmentIndex(t), TimeInCycle(t))
  BY <1>2, <1>3
<1>5. \A i \in DOMAIN timeline : In(i, TimeInCycle(t)) => SegmentIndex(t) = i
  BY <1>1, <1>4, Tiles
<1>. QED BY <1>1, <1>4, <1>5 DEF SegmentAt, SegmentIndex

(* A valid pattern lasts.                                                  *)
LEMMA PatternLasts ==
  ASSUME PatternsValid, NEW key \in DOMAIN modePatterns
  PROVE  /\ Lasting(modePatterns[key]) /\ modePatterns[key] \in StepList
         /\ DOMAIN modePatterns[key] = 1..Len(modePatterns[key])
         /\ Len(modePatterns[key]) \in Nat \ {0}
         /\ Duration(modePatterns[key]) \in Nat \ {0}
         /\ \A k \in 1..Len(modePatterns[key]) :
              modePatterns[key][k].state \in WindowState
<1> DEFINE p == modePatterns[key]
<1>1. p \in StepList /\ ValidPattern(p)
  BY DEF PatternsValid
<1>. HIDE DEF p
<1>2. /\ DOMAIN p = 1..Len(p) /\ Len(p) \in Nat \ {0}
      /\ \A k \in 1..Len(p) : p[k] \in [state : WindowState, durationMs : Int]
  BY <1>1, EmptySeq, LenProperties, ElementOfSeq DEF StepList, ValidPattern
<1>3. Lasting(p)
  BY <1>1, <1>2 DEF ValidPattern, Lasting
<1>4. Duration(p) \in Nat \ {0}
  <2>1. 0 \in 0..Len(p) /\ Len(p) \in 0..Len(p) /\ 0 < Len(p)
    BY <1>2
  <2>2. Elapsed(p)[0] < Elapsed(p)[Len(p)]
    BY <1>3, <2>1, ElapsedGrows
  <2>3. Elapsed(p)[0] = 0 /\ Elapsed(p)[Len(p)] \in Nat
    BY <1>3, <2>1, ElapsedIs
  <2>. QED BY <2>2, <2>3 DEF Duration
<1>. QED BY <1>1, <1>2, <1>3, <1>4 DEF p

(* The step that a time is in.                                             *)
LEMMA StepFound ==
  ASSUME CycleLaid, PatternsValid, NEW t \in Nat, NEW c, HasPattern(t, c)
  PROVE  /\ TimeInSegment(t) \in Nat
         /\ TimeInPattern(t, c) \in 0..(Duration(PatternAt(t, c)) - 1)
         /\ StepAt(t, c) \in 1..Len(PatternAt(t, c))
         /\ Within(PatternAt(t, c), StepAt(t, c), TimeInPattern(t, c))
         /\ StateAt(t, c) = PatternAt(t, c)[StepAt(t, c)].state
         /\ \A k \in 1..Len(PatternAt(t, c)) :
              Within(PatternAt(t, c), k, TimeInPattern(t, c)) => StepAt(t, c) = k
<1> DEFINE p == PatternAt(t, c)
           y == TimeInPattern(t, c)
<1>1. /\ Lasting(p) /\ DOMAIN p = 1..Len(p) /\ Duration(p) \in Nat \ {0}
  <2>1. <<SegmentAt(t).mode, c>> \in DOMAIN modePatterns
        /\ p = modePatterns[<<SegmentAt(t).mode, c>>]
    BY DEF HasPattern, PatternAt
  <2>. HIDE DEF p
  <2>. QED BY <2>1, PatternLasts
<1>2. TimeInSegment(t) \in Nat
  <2>1. /\ TimeInCycle(t) \in Nat /\ SegmentIndex(t) \in DOMAIN timeline
        /\ SegmentAt(t) = timeline[SegmentIndex(t)]
        /\ timeline[SegmentIndex(t)].start <= TimeInCycle(t)
    BY SegmentFound DEF In
  <2>2. timeline[SegmentIndex(t)].start \in Nat
    BY <2>1, Tiles
  <2>. QED BY <2>1, <2>2 DEF TimeInSegment
<1>3. y \in 0..(Duration(p) - 1) /\ y \in Nat /\ y < Duration(p)
  <2> DEFINE x == TimeInSegment(t)
             w == Duration(p)
  <2>1. x \in Nat /\ w \in Nat \ {0} /\ y = x % w
    BY <1>1, <1>2 DEF TimeInPattern
  <2>. HIDE DEF x, w, y
  <2>2. y \in 0..(w - 1) /\ y \in Nat /\ y < w
    BY <2>1, Divided
  <2>. QED BY <2>2 DEF w
<1>4. \E k \in DOMAIN p : Within(p, k, y)
  BY <1>1, <1>3, WithinSome
<1>5. StepAt(t, c) = CHOOSE k \in DOMAIN p : Within(p, k, y)
  <2>1. \A k \in DOMAIN p :
          (y < Elapsed(p)[k] /\ y >= Elapsed(p)[k - 1]) <=> Within(p, k, y)
    <3>. SUFFICES ASSUME NEW k \in DOMAIN p
                  PROVE  (y < Elapsed(p)[k] /\ y >= Elapsed(p)[k - 1]) <=> Within(p, k, y)
      OBVIOUS
    <3>1. k - 1 \in 0..Len(p) /\ k \in 0..Len(p)
      BY <1>1 DEF Lasting
    <3>2. Elapsed(p)[k - 1] \in Nat /\ Elapsed(p)[k] \in Nat
      BY <1>1, <3>1, ElapsedIs
    <3>. QED BY <1>3, <3>2 DEF Within
  <2>. QED BY <2>1 DEF StepAt
<1>6. StepAt(t, c) \in DOMAIN p /\ Within(p, StepAt(t, c), y)
  BY <1>4, <1>5
<1>7. \A k \in 1..Len(p) : Within(p, k, y) => StepAt(t, c) = k
  <2>. HIDE DEF p, y
  <2>. QED BY <1>1, <1>3, <1>6, WithinOne
<1>. QED BY <1>1, <1>2, <1>3, <1>6, <1>7 DEF StateAt

-------------------------------------------------------------------------------
(* The cycle unrolled.                                                     *)

(* The milliseconds of a pattern, one label each.                          *)
LEMMA StepsAre ==
  ASSUME PatternsValid, NEW key \in DOMAIN modePatterns
  PROVE  /\ Len(Steps(modePatterns[key])) = Duration(modePatterns[key])
         /\ \A k \in 1..Len(modePatterns[key]), x \in Nat :
              Within(modePatterns[key], k, x) =>
                Steps(modePatterns[key])[x + 1] =
                  [step |-> k, state |-> modePatterns[key][k].state]
<1> DEFINE p == modePatterns[key]
           S == [step : Nat, state : WindowState]
           block(k) == [j \in 1..p[k].durationMs |-> [step |-> k, state |-> p[k].state]]
           s == [k \in 1..Len(p) |-> block(k)]
           e == Elapsed(p)
<1>1. /\ Lasting(p) /\ DOMAIN p = 1..Len(p) /\ Len(p) \in Nat \ {0}
      /\ \A k \in 1..Len(p) : p[k].state \in WindowState /\ p[k].durationMs \in Nat
  BY PatternLasts DEF Lasting
<1>2. /\ e[0] = 0 /\ \A k \in 0..Len(p) : e[k] \in Nat
      /\ \A k \in 1..Len(p) : e[k] = e[k - 1] + p[k].durationMs
  BY <1>1, ElapsedIs
<1>3. Steps(p) = FlattenSeq(s)
  BY <1>1 DEF Steps
<1>. HIDE DEF p, e
<1>4. \A k \in 1..Len(p) : /\ block(k) \in Seq(S) /\ Len(block(k)) = p[k].durationMs
                           /\ \A j \in 1..p[k].durationMs :
                                block(k)[j] = [step |-> k, state |-> p[k].state]
  <2>. SUFFICES ASSUME NEW k \in 1..Len(p)
                PROVE  /\ block(k) \in Seq(S) /\ Len(block(k)) = p[k].durationMs
                       /\ \A j \in 1..p[k].durationMs :
                            block(k)[j] = [step |-> k, state |-> p[k].state]
    OBVIOUS
  <2> DEFINE m == p[k].durationMs
             l == [step |-> k, state |-> p[k].state]
  <2>1. m \in Nat /\ l \in S
    BY <1>1
  <2>2. block(k) = [j \in 1..m |-> l]
    OBVIOUS
  <2>. HIDE DEF m, l, block, S
  <2>3. block(k) \in Seq(S) /\ Len(block(k)) = m /\ \A j \in 1..m : block(k)[j] = l
    BY <2>1, <2>2
  <2>. QED BY <2>3 DEF m, l
<1>5. s \in Seq(Seq(S)) /\ Len(s) = Len(p) /\ \A k \in 1..Len(p) : s[k] = block(k)
  <2> DEFINE n == Len(p)
  <2>1. n \in Nat /\ \A k \in 1..n : block(k) \in Seq(S)
    BY <1>1, <1>4
  <2>2. s = [k \in 1..n |-> block(k)]
    OBVIOUS
  <2>. HIDE DEF block, S, n, s
  <2>3. s \in Seq(Seq(S)) /\ Len(s) = n /\ \A k \in 1..n : s[k] = block(k)
    BY <2>1, <2>2
  <2>. QED BY <2>3 DEF n
<1>6. s # << >>
  BY <1>1, <1>5, EmptySeq
<1>. HIDE DEF block, s, S
<1>7. Ends(e, s)
  BY <1>2, <1>4, <1>5 DEF Ends
<1>8. /\ Len(FlattenSeq(s)) = e[Len(s)]
      /\ \A k \in 1..Len(s) : \A j \in 1..Len(s[k]) : FlattenSeq(s)[e[k - 1] + j] = s[k][j]
  BY <1>5, <1>6, <1>7, FlattenAt
<1>9. Len(Steps(p)) = Duration(p)
  BY <1>3, <1>5, <1>8 DEF Duration, e
<1>10. ASSUME NEW k \in 1..Len(p), NEW x \in Nat, Within(p, k, x)
       PROVE  Steps(p)[x + 1] = [step |-> k, state |-> p[k].state]
  <2> DEFINE j == x + 1 - e[k - 1]
  <2>1. /\ k - 1 \in 0..Len(p) /\ k \in 0..Len(p) /\ p[k].durationMs \in Nat
        /\ e[k - 1] \in Nat /\ e[k] = e[k - 1] + p[k].durationMs
    BY <1>1, <1>2
  <2>2. e[k - 1] <= x /\ x < e[k]
    BY <1>10 DEF Within, e
  <2>3. j \in 1..p[k].durationMs /\ e[k - 1] + j = x + 1
    <3> DEFINE a == e[k - 1]
               b == e[k]
               d == p[k].durationMs
    <3>1. a \in Nat /\ d \in Nat /\ b = a + d /\ a <= x /\ x < b
      BY <2>1, <2>2
    <3>. HIDE DEF a, b, d
    <3>2. x + 1 - a \in 1..d /\ a + (x + 1 - a) = x + 1
      BY <3>1
    <3>. QED BY <3>2 DEF a, d
  <2>. HIDE DEF j
  <2>4. FlattenSeq(s)[e[k - 1] + j] = block(k)[j]
    <3>1. k \in 1..Len(s) /\ s[k] = block(k) /\ j \in 1..Len(s[k])
      BY <1>4, <1>5, <2>3
    <3>. QED BY <1>8, <3>1
  <2>. QED BY <1>3, <1>4, <2>3, <2>4
<1>. QED BY <1>9, <1>10 DEF p

(* The place of a time of the cycle in the layout.                         *)
LEMMA LayoutAt ==
  ASSUME CycleLaid, NEW c, NEW i \in DOMAIN timeline, NEW x \in Nat, In(i, x)
  PROVE  /\ x - timeline[i].start + 1 \in 1..(timeline[i].end - timeline[i].start)
         /\ Layout(c)[x + 1] = Unrolled(timeline[i], i, c)[x - timeline[i].start + 1]
<1> DEFINE n == Len(timeline)
           block(k) == Unrolled(timeline[k], k, c)
           S == {block(k)[j] : k \in 1..n, j \in 1..CycleMs}
           s == [k \in 1..n |-> block(k)]
           e == [k \in 0..n |-> IF k = 0 THEN 0 ELSE timeline[k].end]
           size(k) == timeline[k].end - timeline[k].start
<1>1. n \in Nat \ {0} /\ DOMAIN timeline = 1..n
  BY Tiles
<1>2. \A k \in 1..n : /\ timeline[k].start \in Nat /\ timeline[k].end \in Nat
                      /\ timeline[k].start < timeline[k].end /\ timeline[k].end <= CycleMs
  BY <1>1, Tiles
<1>3. Layout(c) = FlattenSeq(s)
  BY <1>1 DEF Layout
<1>. HIDE DEF n
<1>4. \A k \in 1..n : size(k) \in 1..CycleMs
  BY <1>2, CycleAssumption
<1>5. ASSUME NEW k \in 1..n PROVE block(k) \in Seq(S) /\ Len(block(k)) = size(k)
  <2>1. size(k) \in Nat /\ DOMAIN block(k) = 1..size(k) /\ \A j \in 1..size(k) : j \in 1..CycleMs
    BY <1>4, CycleAssumption DEF Unrolled
  <2>2. block(k) = [j \in 1..size(k) |-> block(k)[j]]
    BY DEF Unrolled
  <2>. HIDE DEF block, size
  <2>3. \A j \in 1..size(k) : block(k)[j] \in S
    BY <2>1
  <2>. HIDE DEF S
  <2>. QED BY <2>1, <2>2, <2>3, IsASeq
<1>. HIDE DEF block, S
<1>6. s \in Seq(Seq(S)) /\ Len(s) = n /\ \A k \in 1..n : s[k] = block(k)
  <2>1. \A k \in 1..n : block(k) \in Seq(S)
    BY <1>5
  <2>. QED BY <1>1, <2>1
<1>7. s # << >>
  BY <1>1, <1>6, EmptySeq
<1>8. e[0] = 0 /\ \A k \in 1..n : e[k] = timeline[k].end /\ e[k - 1] = timeline[k].start
  <2>1. e[0] = 0 /\ \A k \in 1..n : e[k] = timeline[k].end
    BY <1>1
  <2>2. ASSUME NEW k \in 1..n PROVE e[k - 1] = timeline[k].start
    <3>1. CASE k = 1
      <4>1. timeline[1].start = 0 /\ k - 1 = 0
        BY <3>1, Tiles
      <4>. QED BY <2>1, <3>1, <4>1
    <3>2. CASE k # 1
      <4>1. k - 1 \in 1..n /\ k - 1 # n /\ (k - 1) + 1 = k
        BY <1>1, <3>2
      <4>2. timeline[k - 1].end = timeline[k].start
        BY <1>1, <4>1, Tiles DEF n
      <4>. QED BY <2>1, <4>1, <4>2
    <3>. QED BY <3>1, <3>2
  <2>. QED BY <2>1, <2>2
<1>9. Ends(e, s)
  <2>1. \A k \in 0..n : e[k] \in Nat
    BY <1>2
  <2>. HIDE DEF e
  <2>2. ASSUME NEW k \in 1..n PROVE e[k] = e[k - 1] + Len(s[k])
    <3>1. Len(s[k]) = timeline[k].end - timeline[k].start
      BY <1>5, <1>6
    <3>. QED BY <1>2, <1>8, <3>1
  <2>. HIDE DEF s
  <2>. QED BY <1>6, <1>8, <2>1, <2>2 DEF Ends
<1>. HIDE DEF s
<1>10. \A k \in 1..n : \A j \in 1..Len(s[k]) : FlattenSeq(s)[e[k - 1] + j] = s[k][j]
  <2>. HIDE DEF e
  <2>1. s \in Seq(Seq(S))
    BY <1>6
  <2>2. \A k \in 1..Len(s) : \A j \in 1..Len(s[k]) : FlattenSeq(s)[e[k - 1] + j] = s[k][j]
    BY ONLY <2>1, <1>7, <1>9, FlattenAt
  <2>. QED BY <1>6, <2>2
<1>11. i \in 1..n /\ timeline[i].start <= x /\ x < timeline[i].end
  BY <1>1 DEF In
<1> DEFINE j == x - timeline[i].start + 1
<1>12. j \in 1..size(i) /\ timeline[i].start + j = x + 1
  <2>1. timeline[i].start \in Nat /\ timeline[i].end \in Nat
    BY <1>2, <1>11
  <2>. QED BY <1>11, <2>1
<1>. HIDE DEF j, e
<1>13. j \in 1..Len(s[i]) /\ s[i] = block(i) /\ e[i - 1] = timeline[i].start
  BY <1>5, <1>6, <1>8, <1>11, <1>12
<1>14. FlattenSeq(s)[timeline[i].start + j] = block(i)[j]
  BY <1>10, <1>11, <1>13
<1>. QED BY <1>3, <1>12, <1>14 DEF j, block

(* The label of a time, from the queries.                                  *)
Run(t, c) == TimeInSegment(t) \div Duration(PatternAt(t, c))

LEMMA LabelIs ==
  ASSUME CycleLaid, PatternsValid, NEW t \in Nat, NEW c
  PROVE  LabelAt(t, c) =
           << t \div CycleMs,
              IF HasPattern(t, c)
              THEN [segment |-> SegmentIndex(t), run |-> Run(t, c), step |-> StepAt(t, c),
                    state |-> StateAt(t, c)]
              ELSE [segment |-> SegmentIndex(t), run |-> 0, step |-> 0, state |-> NoState] >>
<1> DEFINE i == SegmentIndex(t)
           g == timeline[i]
           j == TimeInCycle(t) - g.start + 1
<1>1. /\ i \in DOMAIN timeline /\ In(i, TimeInCycle(t)) /\ SegmentAt(t) = g
      /\ TimeInCycle(t) \in Nat
  BY SegmentFound
<1>2. j \in 1..(g.end - g.start) /\ Layout(c)[TimeInCycle(t) + 1] = Unrolled(g, i, c)[j]
  BY <1>1, LayoutAt
<1>3. LabelAt(t, c) = << t \div CycleMs, Layout(c)[TimeInCycle(t) + 1] >>
  BY DEF LabelAt, TimeInCycle
<1>4. CASE ~HasPattern(t, c)
  <2>1. <<g.mode, c>> \notin DOMAIN modePatterns
    BY <1>1, <1>4 DEF HasPattern
  <2>. HIDE DEF i, g, j
  <2>2. Unrolled(g, i, c)[j] = [segment |-> i, run |-> 0, step |-> 0, state |-> NoState]
    BY <1>2, <2>1 DEF Unrolled
  <2>. QED BY <1>2, <1>3, <1>4, <2>2 DEF i
<1>5. CASE HasPattern(t, c)
  <2> DEFINE p == PatternAt(t, c)
             x == TimeInSegment(t)
             k == StepAt(t, c)
             ms == Steps(modePatterns[<<g.mode, c>>])
  <2>1. <<g.mode, c>> \in DOMAIN modePatterns /\ p = modePatterns[<<g.mode, c>>]
    BY <1>1, <1>5 DEF HasPattern, PatternAt
  <2>2. j - 1 = x
    <3>1. x = TimeInCycle(t) - g.start /\ x \in Nat
      BY <1>1, <1>5, StepFound DEF TimeInSegment
    <3>. HIDE DEF x
    <3>2. g.start \in Nat
      BY <1>1, Tiles
    <3>. QED BY <1>1, <3>1, <3>2
  <2>3. /\ x % Duration(p) \in Nat /\ k \in 1..Len(p) /\ Within(p, k, x % Duration(p))
        /\ StateAt(t, c) = p[k].state
    BY <1>5, StepFound DEF TimeInPattern
  <2>4. ms = Steps(p)
    BY <2>1
  <2>. HIDE DEF i, g, j, p, x, k, ms
  <2>5. Len(ms) = Duration(p) /\ ms[(x % Duration(p)) + 1] = [step |-> k, state |-> p[k].state]
    BY <2>1, <2>3, <2>4, StepsAre
  <2>6. Unrolled(g, i, c)[j] =
          [segment |-> i, run |-> (j - 1) \div Len(ms),
           step |-> ms[((j - 1) % Len(ms)) + 1].step, state |-> ms[((j - 1) % Len(ms)) + 1].state]
    BY <1>2, <2>1 DEF Unrolled, ms
  <2>7. Unrolled(g, i, c)[j] =
          [segment |-> i, run |-> x \div Duration(p), step |-> k, state |-> p[k].state]
    BY <2>2, <2>5, <2>6
  <2>. QED BY <1>2, <1>3, <1>5, <2>3, <2>7 DEF i, k, p, x, Run
<1>. QED BY <1>4, <1>5

-------------------------------------------------------------------------------
(* The next transition.                                                    *)

(* A time made of a cycle and a place in one of its segments.              *)
LEMMA AtPlace ==
  ASSUME CycleLaid, NEW q \in Nat, NEW i \in DOMAIN timeline, NEW x \in Nat, In(i, x),
         NEW u, u = q * CycleMs + x
  PROVE  /\ u \in Nat /\ u \div CycleMs = q /\ TimeInCycle(u) = x /\ SegmentIndex(u) = i
         /\ SegmentAt(u) = timeline[i] /\ TimeInSegment(u) = x - timeline[i].start
<1>1. x \in 0..(CycleMs - 1)
  <2>1. timeline[i].end \in Nat /\ timeline[i].end <= CycleMs
    BY Tiles
  <2>. QED BY <2>1, CycleAssumption DEF In
<1>2. u \in Nat
  BY CycleAssumption
<1>3. u \div CycleMs = q /\ TimeInCycle(u) = x
  BY <1>1, <1>2, DivideBy, CycleAssumption DEF TimeInCycle
<1>4. SegmentIndex(u) = i /\ SegmentAt(u) = timeline[i]
  BY <1>2, <1>3, SegmentFound
<1>. QED BY <1>2, <1>3, <1>4 DEF TimeInSegment

(* A time made of a run of the pattern and a place in one of its steps.    *)
LEMMA AtStep ==
  ASSUME CycleLaid, PatternsValid, NEW u \in Nat, NEW c, HasPattern(u, c),
         NEW r \in Nat, NEW y \in Nat, NEW k \in 1..Len(PatternAt(u, c)),
         Within(PatternAt(u, c), k, y), TimeInSegment(u) = r * Duration(PatternAt(u, c)) + y
  PROVE  Run(u, c) = r /\ TimeInPattern(u, c) = y /\ StepAt(u, c) = k
<1> DEFINE p == PatternAt(u, c)
           w == Duration(p)
<1>1. Lasting(p) /\ w \in Nat \ {0} /\ Len(p) \in Nat
  <2>1. <<SegmentAt(u).mode, c>> \in DOMAIN modePatterns
        /\ p = modePatterns[<<SegmentAt(u).mode, c>>]
    BY DEF HasPattern, PatternAt
  <2>. HIDE DEF p
  <2>. QED BY <2>1, PatternLasts
<1>2. y \in 0..(w - 1)
  <2>. HIDE DEF p
  <2>1. k \in 0..Len(p) /\ Len(p) \in 0..Len(p) /\ (k = Len(p) \/ k < Len(p))
    BY <1>1 DEF p
  <2>2. Elapsed(p)[k] <= w
    <3>1. Elapsed(p)[k] \in Nat /\ Elapsed(p)[Len(p)] \in Nat
      BY <1>1, <2>1, ElapsedIs
    <3>2. k < Len(p) => Elapsed(p)[k] < Elapsed(p)[Len(p)]
      BY <1>1, <2>1, ElapsedGrows
    <3>. QED BY <2>1, <3>1, <3>2 DEF Duration
  <2>3. Elapsed(p)[k] \in Nat /\ y < Elapsed(p)[k]
    BY <1>1, <2>1, ElapsedIs DEF Within, p
  <2>. QED BY <1>1, <2>2, <2>3
<1>3. TimeInSegment(u) \in Nat
  BY StepFound
<1>4. Run(u, c) = r /\ TimeInPattern(u, c) = y
  <2>1. TimeInSegment(u) = r * w + y
    OBVIOUS
  <2>. HIDE DEF p, w
  <2>2. TimeInSegment(u) \div w = r /\ TimeInSegment(u) % w = y
    BY <1>1, <1>2, <1>3, <2>1, DivideBy
  <2>. QED BY <2>2 DEF Run, TimeInPattern, w, p
<1>5. StepAt(u, c) = k
  BY <1>4, StepFound
<1>. QED BY <1>4, <1>5

(* u is in the step that t is in: the same one, not another run of it.     *)
Together(t, u, c) ==
  /\ u \in Nat
  /\ u \div CycleMs = t \div CycleMs /\ SegmentIndex(u) = SegmentIndex(t)
  /\ SegmentAt(u) = SegmentAt(t) /\ HasPattern(u, c) /\ PatternAt(u, c) = PatternAt(t, c)
  /\ Run(u, c) = Run(t, c) /\ StepAt(u, c) = StepAt(t, c)

(* n begins a segment, or the next step of the pattern that t is in, or a  *)
(* new run of that pattern.                                                *)
BeginsSegment(t, n, c) ==
  /\ n \div CycleMs # t \div CycleMs \/ SegmentIndex(n) # SegmentIndex(t)
  /\ TimeInSegment(n) = 0
  /\ StepEnd(t, c) >= SegmentAt(t).end - SegmentAt(t).start

BeginsStep(t, n, c) ==
  /\ SegmentIndex(n) = SegmentIndex(t) /\ HasPattern(n, c)
  /\ PatternAt(n, c) = PatternAt(t, c)
  /\ StepAt(n, c) = StepAt(t, c) + 1

BeginsRun(t, n, c) ==
  /\ SegmentIndex(n) = SegmentIndex(t) /\ HasPattern(n, c)
  /\ PatternAt(n, c) = PatternAt(t, c)
  /\ StepAt(t, c) = Len(PatternAt(t, c)) /\ StepAt(n, c) = 1 /\ Run(n, c) = Run(t, c) + 1

(* What t is made of.                                                      *)
LEMMA Places ==
  ASSUME CycleLaid, PatternsValid, NEW t \in Nat, NEW c, HasPattern(t, c)
  PROVE  /\ CycleStart(t) \in Nat /\ t \div CycleMs \in Nat
         /\ CycleStart(t) = (t \div CycleMs) * CycleMs
         /\ t = CycleStart(t) + TimeInCycle(t)
         /\ TimeInCycle(t) \in Nat /\ TimeInSegment(t) \in Nat
         /\ TimeInCycle(t) = SegmentAt(t).start + TimeInSegment(t)
         /\ SegmentAt(t).start \in Nat /\ SegmentAt(t).end \in Nat
         /\ TimeInCycle(t) < SegmentAt(t).end /\ SegmentAt(t).end <= CycleMs
         /\ Run(t, c) \in Nat /\ Run(t, c) * Duration(PatternAt(t, c)) \in Nat
         /\ TimeInSegment(t) = Run(t, c) * Duration(PatternAt(t, c)) + TimeInPattern(t, c)
         /\ TimeInPattern(t, c) \in Nat
         /\ StepEnd(t, c) = Run(t, c) * Duration(PatternAt(t, c))
                              + Elapsed(PatternAt(t, c))[StepAt(t, c)]
         /\ Elapsed(PatternAt(t, c))[StepAt(t, c)] \in Nat
         /\ TimeInPattern(t, c) < Elapsed(PatternAt(t, c))[StepAt(t, c)]
<1>1. /\ CycleStart(t) \in Nat /\ t \div CycleMs \in Nat
      /\ CycleStart(t) = (t \div CycleMs) * CycleMs
      /\ t = CycleStart(t) + TimeInCycle(t)
  BY Divided, CycleAssumption DEF CycleStart, TimeInCycle
<1>2. /\ TimeInCycle(t) \in Nat /\ TimeInSegment(t) \in Nat
      /\ TimeInCycle(t) = SegmentAt(t).start + TimeInSegment(t)
      /\ SegmentAt(t).start \in Nat /\ SegmentAt(t).end \in Nat
      /\ TimeInCycle(t) < SegmentAt(t).end /\ SegmentAt(t).end <= CycleMs
  <2>1. /\ SegmentIndex(t) \in DOMAIN timeline /\ SegmentAt(t) = timeline[SegmentIndex(t)]
        /\ TimeInCycle(t) \in Nat
        /\ SegmentAt(t).start <= TimeInCycle(t) /\ TimeInCycle(t) < SegmentAt(t).end
    BY SegmentFound DEF In
  <2>2. SegmentAt(t).start \in Nat /\ SegmentAt(t).end \in Nat /\ SegmentAt(t).end <= CycleMs
    BY <2>1, Tiles
  <2>3. TimeInSegment(t) = TimeInCycle(t) - SegmentAt(t).start
    BY DEF TimeInSegment
  <2>4. TimeInSegment(t) \in Nat
    BY StepFound
  <2>. QED BY <2>1, <2>2, <2>3, <2>4
<1> DEFINE p == PatternAt(t, c)
           w == Duration(p)
           x == TimeInSegment(t)
           k == StepAt(t, c)
<1>3. /\ Lasting(p) /\ w \in Nat \ {0} /\ Len(p) \in Nat
  <2>1. <<SegmentAt(t).mode, c>> \in DOMAIN modePatterns
        /\ p = modePatterns[<<SegmentAt(t).mode, c>>]
    BY DEF HasPattern, PatternAt
  <2>. HIDE DEF p
  <2>. QED BY <2>1, PatternLasts
<1>4. TimeInPattern(t, c) = x % w /\ Run(t, c) = x \div w
  BY DEF TimeInPattern, Run
<1>5. k \in 1..Len(p) /\ Within(p, k, TimeInPattern(t, c))
  BY StepFound
<1>6. StepEnd(t, c) = x - TimeInPattern(t, c) + Elapsed(p)[k]
  BY DEF StepEnd
<1>. HIDE DEF p, w, x, k
<1>7. /\ Run(t, c) \in Nat /\ Run(t, c) * w \in Nat /\ TimeInPattern(t, c) \in Nat
      /\ x = Run(t, c) * w + TimeInPattern(t, c)
  <2>1. x \in Nat
    BY <1>2 DEF x
  <2>2. x \div w \in Nat /\ x % w \in Nat /\ (x \div w) * w \in Nat /\ x = (x \div w) * w + (x % w)
    BY <1>3, <2>1, Divided
  <2>. QED BY <1>4, <2>2
<1>8. Elapsed(p)[k] \in Nat /\ TimeInPattern(t, c) < Elapsed(p)[k]
  <2>1. k \in 0..Len(p)
    BY <1>3, <1>5
  <2>. QED BY <1>3, <1>5, <2>1, ElapsedIs DEF Within
<1>9. StepEnd(t, c) = Run(t, c) * w + Elapsed(p)[k]
  <2> DEFINE b == Run(t, c) * w
             y == TimeInPattern(t, c)
             e == Elapsed(p)[k]
  <2>1. b \in Nat /\ y \in Nat /\ e \in Nat /\ x = b + y /\ StepEnd(t, c) = x - y + e
    BY <1>6, <1>7, <1>8
  <2>. HIDE DEF b, y, e
  <2>2. StepEnd(t, c) = b + e
    BY <2>1
  <2>. QED BY <2>2 DEF b, e
<1>. QED BY <1>1, <1>2, <1>7, <1>8, <1>9 DEF p, w, x, k

(* The time of the next transition, with both of its cases.                *)
LEMMA NextTime ==
  ASSUME CycleLaid, PatternsValid, NEW t \in Nat, NEW c, HasPattern(t, c)
  PROVE  /\ NextTransition(t, c) \in Nat /\ t < NextTransition(t, c)
         /\ NextTransition(t, c) <= CycleStart(t) + SegmentAt(t).start + StepEnd(t, c)
         /\ NextTransition(t, c) <= CycleStart(t) + SegmentAt(t).end
         /\ StepEnd(t, c) >= SegmentAt(t).end - SegmentAt(t).start =>
              NextTransition(t, c) = CycleStart(t) + SegmentAt(t).end
         /\ ~(StepEnd(t, c) >= SegmentAt(t).end - SegmentAt(t).start) =>
              NextTransition(t, c) = CycleStart(t) + SegmentAt(t).start + StepEnd(t, c)
<1> DEFINE a == CycleStart(t)
           s == SegmentAt(t).start
           e == SegmentAt(t).end
           x == TimeInSegment(t)
           b == Run(t, c) * Duration(PatternAt(t, c))
           y == TimeInPattern(t, c)
           l == Elapsed(PatternAt(t, c))[StepAt(t, c)]
           f == StepEnd(t, c)
           z == TimeInCycle(t)
           n == NextTransition(t, c)
<1>1. /\ a \in Nat /\ z \in Nat /\ x \in Nat /\ s \in Nat /\ e \in Nat /\ b \in Nat /\ y \in Nat
      /\ l \in Nat /\ t = a + z /\ z = s + x /\ z < e /\ x = b + y /\ f = b + l /\ y < l
  BY Places
<1>2. /\ f >= e - s => n = a + e
      /\ ~(f >= e - s) => n = a + s + f
  BY DEF NextTransition, NextModeTransition
<1>. HIDE DEF a, s, e, x, b, y, l, f, z, n
<1>3. n \in Nat /\ t < n /\ n <= a + s + f /\ n <= a + e
  BY <1>1, <1>2
<1>. QED BY <1>2, <1>3 DEF a, s, e, f, n

(* Up to then all stays as it is.                                          *)
LEMMA StaysTogether ==
  ASSUME CycleLaid, PatternsValid, NEW t \in Nat, NEW c, HasPattern(t, c),
         NEW u \in Nat, t <= u, u < NextTransition(t, c)
  PROVE  Together(t, u, c)
<1> DEFINE a == CycleStart(t)
           s == SegmentAt(t).start
           e == SegmentAt(t).end
           x == TimeInSegment(t)
           p == PatternAt(t, c)
           b == Run(t, c) * Duration(p)
           y == TimeInPattern(t, c)
           l == Elapsed(p)[StepAt(t, c)]
           f == StepEnd(t, c)
           z == TimeInCycle(t)
           n == NextTransition(t, c)
           d == u - t
<1>1. /\ a \in Nat /\ z \in Nat /\ x \in Nat /\ s \in Nat /\ e \in Nat /\ b \in Nat /\ y \in Nat
      /\ l \in Nat /\ t = a + z /\ z = s + x /\ z < e /\ x = b + y /\ f = b + l /\ y < l
  BY Places
<1>2. n \in Nat /\ n <= a + s + f /\ n <= a + e
  BY NextTime
<1>3. /\ SegmentIndex(t) \in DOMAIN timeline /\ SegmentAt(t) = timeline[SegmentIndex(t)]
      /\ t \div CycleMs \in Nat /\ a = (t \div CycleMs) * CycleMs
  BY SegmentFound, Places
<1>4. StepAt(t, c) \in 1..Len(p) /\ Within(p, StepAt(t, c), y) /\ Run(t, c) \in Nat
  BY StepFound, Places
<1>5. u = a + (z + d) /\ z + d \in Nat /\ s <= z + d /\ z + d < e /\ d \in Nat
      /\ z + d - s = b + (y + d) /\ y + d \in Nat /\ y <= y + d /\ y + d < l
  <2>. HIDE DEF a, s, e, x, p, b, y, l, f, z, n
  <2>1. u < n
    BY DEF n
  <2>. QED BY <1>1, <1>2, <2>1
<1>6. In(SegmentIndex(t), z + d)
  BY <1>3, <1>5 DEF In
<1>7. /\ u \div CycleMs = t \div CycleMs /\ SegmentIndex(u) = SegmentIndex(t)
      /\ SegmentAt(u) = SegmentAt(t) /\ TimeInSegment(u) = z + d - s
  <2> DEFINE v == z + d
  <2>1. v \in Nat /\ u = (t \div CycleMs) * CycleMs + v /\ In(SegmentIndex(t), v)
    BY <1>3, <1>5, <1>6
  <2>. HIDE DEF v, a, z, d
  <2>2. /\ u \div CycleMs = t \div CycleMs /\ SegmentIndex(u) = SegmentIndex(t)
        /\ SegmentAt(u) = timeline[SegmentIndex(t)]
        /\ TimeInSegment(u) = v - timeline[SegmentIndex(t)].start
    BY <1>3, <2>1, AtPlace
  <2>3. SegmentAt(u) = SegmentAt(t) /\ v - timeline[SegmentIndex(t)].start = v - s
    BY <1>3, <2>2
  <2>4. TimeInSegment(u) = v - s
    BY <2>2, <2>3
  <2>5. TimeInSegment(u) = z + d - s
    <3>1. z \in Nat /\ d \in Nat /\ s \in Nat
      BY <1>1, <1>5
    <3>. HIDE DEF s
    <3>. QED BY <2>4, <3>1 DEF v
  <2>6. SegmentAt(u) = SegmentAt(t)
    BY <2>3
  <2>7. u \div CycleMs = t \div CycleMs /\ SegmentIndex(u) = SegmentIndex(t)
    BY <2>2
  <2>. QED BY <2>5, <2>6, <2>7
<1>8. HasPattern(u, c) /\ PatternAt(u, c) = p
  BY <1>7 DEF HasPattern, PatternAt
<1>9. Within(p, StepAt(t, c), y + d)
  <2>1. Elapsed(p)[StepAt(t, c) - 1] <= y /\ Elapsed(p)[StepAt(t, c) - 1] \in Nat
    <3>1. Lasting(p)
      <4>1. <<SegmentAt(t).mode, c>> \in DOMAIN modePatterns
            /\ p = modePatterns[<<SegmentAt(t).mode, c>>]
        BY DEF HasPattern, PatternAt
      <4>. HIDE DEF p
      <4>. QED BY <4>1, PatternLasts
    <3>2. StepAt(t, c) - 1 \in 0..Len(p)
      BY <1>4, <3>1 DEF Lasting
    <3>. HIDE DEF p
    <3>. QED BY <1>4, <3>1, <3>2, ElapsedIs DEF Within
  <2>. HIDE DEF p, y, d
  <2>. QED BY <1>1, <1>5, <2>1 DEF Within
<1>10. Run(u, c) = Run(t, c) /\ StepAt(u, c) = StepAt(t, c)
  <2> DEFINE v == y + d
  <2>1. /\ TimeInSegment(u) = Run(t, c) * Duration(PatternAt(u, c)) + v
        /\ StepAt(t, c) \in 1..Len(PatternAt(u, c)) /\ Within(PatternAt(u, c), StepAt(t, c), v)
        /\ v \in Nat /\ Run(t, c) \in Nat /\ HasPattern(u, c)
    BY <1>4, <1>5, <1>7, <1>8, <1>9
  <2>. HIDE DEF v
  <2>. QED BY <2>1, AtStep
<1>. QED BY <1>7, <1>8, <1>10 DEF Together

(* Then the segment, the step or the run is another one.                   *)
LEMMA Turns ==
  ASSUME CycleLaid, PatternsValid, NEW t \in Nat, NEW c, HasPattern(t, c)
  PROVE  LET n == NextTransition(t, c)
         IN  BeginsSegment(t, n, c) \/ BeginsStep(t, n, c) \/ BeginsRun(t, n, c)
<1> DEFINE n == NextTransition(t, c)
           g == SegmentAt(t)
           i == SegmentIndex(t)
           q == t \div CycleMs
           p == PatternAt(t, c)
           w == Duration(p)
           r == Run(t, c)
           k == StepAt(t, c)
           l == Elapsed(p)[k]
           f == StepEnd(t, c)
<1>. SUFFICES BeginsSegment(t, n, c) \/ BeginsStep(t, n, c) \/ BeginsRun(t, n, c)
  OBVIOUS
<1>1. /\ i \in DOMAIN timeline /\ g = timeline[i] /\ q \in Nat /\ CycleStart(t) = q * CycleMs
      /\ q * CycleMs \in Nat /\ g.start \in Nat /\ g.end \in Nat /\ g.end <= CycleMs
      /\ f = r * w + l /\ l \in Nat /\ r * w \in Nat /\ r \in Nat
  BY SegmentFound, Places
<1>2. /\ f >= g.end - g.start => n = q * CycleMs + g.end
      /\ ~(f >= g.end - g.start) => n = q * CycleMs + g.start + f
  BY <1>1, NextTime
<1>. HIDE DEF n, g, i, q, r, k, l, f
<1>3. CASE f >= g.end - g.start /\ i # Len(timeline)
  <2>1. i + 1 \in DOMAIN timeline /\ timeline[i + 1].start = g.end
        /\ timeline[i + 1].start < timeline[i + 1].end /\ i + 1 # i
    BY <1>1, <1>3, Tiles
  <2>2. In(i + 1, g.end)
    BY <1>1, <2>1 DEF In
  <2>3. SegmentIndex(n) = i + 1 /\ TimeInSegment(n) = g.end - timeline[i + 1].start
    <3> DEFINE j == i + 1
               v == g.end
    <3>1. j \in DOMAIN timeline /\ v \in Nat /\ In(j, v) /\ n = q * CycleMs + v
      BY <1>1, <1>2, <1>3, <2>1, <2>2
    <3>. HIDE DEF j, v
    <3>2. SegmentIndex(n) = j /\ TimeInSegment(n) = v - timeline[j].start
      BY <1>1, <3>1, AtPlace
    <3>. QED BY <3>2 DEF j, v
  <2>4. TimeInSegment(n) = 0
    BY <1>1, <2>1, <2>3
  <2>. QED BY <1>3, <2>1, <2>3, <2>4 DEF BeginsSegment, i, f, g
<1>4. CASE f >= g.end - g.start /\ i = Len(timeline)
  <2>1. /\ g.end = CycleMs /\ 1 \in DOMAIN timeline /\ timeline[1].start = 0
        /\ 0 < timeline[1].end
    <3>1. /\ Len(timeline) \in Nat \ {0} /\ DOMAIN timeline = 1..Len(timeline)
          /\ timeline[1].start = 0 /\ timeline[Len(timeline)].end = CycleMs
      BY Tiles
    <3>2. 1 \in DOMAIN timeline
      BY <3>1
    <3>3. timeline[1].start < timeline[1].end
      BY <3>2, Tiles
    <3>. QED BY <1>1, <1>4, <3>1, <3>2, <3>3
  <2>2. In(1, 0)
    BY <2>1 DEF In
  <2>3. n = (q + 1) * CycleMs + 0 /\ q + 1 \in Nat
    <3>1. (q + 1) * CycleMs = q * CycleMs + CycleMs
      BY <1>1, CycleAssumption
    <3>. QED BY <1>1, <1>2, <1>4, <2>1, <3>1, CycleAssumption
  <2>4. n \div CycleMs = q + 1 /\ TimeInSegment(n) = 0 - timeline[1].start
    <3> DEFINE m == q + 1
    <3>1. m \in Nat /\ n = m * CycleMs + 0 /\ 0 \in Nat /\ In(1, 0) /\ 1 \in DOMAIN timeline
      BY <2>1, <2>2, <2>3
    <3>. HIDE DEF m
    <3>2. n \div CycleMs = m /\ TimeInSegment(n) = 0 - timeline[1].start
      BY <3>1, AtPlace
    <3>. QED BY <3>2 DEF m
  <2>5. n \div CycleMs # q /\ TimeInSegment(n) = 0
    BY <1>1, <2>1, <2>4
  <2>. QED BY <1>4, <2>5 DEF BeginsSegment, q, f, g
<1>5. CASE ~(f >= g.end - g.start)
  <2>1. n = q * CycleMs + (g.start + f) /\ f \in Nat /\ g.start + f \in Nat /\ In(i, g.start + f)
    <3> DEFINE a == q * CycleMs
               b == r * w
               s == g.start
               e == g.end
    <3>1. /\ a \in Nat /\ b \in Nat /\ s \in Nat /\ e \in Nat /\ f = b + l /\ l \in Nat
          /\ n = a + s + f /\ ~(f >= e - s)
      BY <1>1, <1>2, <1>5
    <3>. HIDE DEF a, b, s, e
    <3>2. n = a + (s + f) /\ f \in Nat /\ s + f \in Nat /\ s <= s + f /\ s + f < e
      BY <3>1
    <3>. QED BY <1>1, <3>2 DEF In, a, s, e
  <2>2. /\ n \in Nat /\ SegmentIndex(n) = i /\ SegmentAt(n) = g
        /\ TimeInSegment(n) = g.start + f - g.start
    <3> DEFINE v == g.start + f
    <3>1. v \in Nat /\ In(i, v) /\ n = q * CycleMs + v
      BY <2>1
    <3>. HIDE DEF v
    <3>2. /\ n \in Nat /\ SegmentIndex(n) = i /\ SegmentAt(n) = timeline[i]
          /\ TimeInSegment(n) = v - timeline[i].start
      BY <1>1, <3>1, AtPlace
    <3>. QED BY <1>1, <3>2 DEF v
  <2>3. TimeInSegment(n) = r * w + l
    BY <1>1, <2>1, <2>2
  <2>4. HasPattern(n, c) /\ PatternAt(n, c) = p
    BY <2>2 DEF HasPattern, PatternAt, g
  <2>5. Lasting(p) /\ w \in Nat \ {0} /\ Len(p) \in Nat \ {0}
    <3>1. <<SegmentAt(t).mode, c>> \in DOMAIN modePatterns
          /\ p = modePatterns[<<SegmentAt(t).mode, c>>]
      BY DEF HasPattern, PatternAt
    <3>. HIDE DEF p
    <3>. QED BY <3>1, PatternLasts
  <2>6. k \in 1..Len(p)
    BY StepFound DEF k
  <2>. HIDE DEF p
  <2>7. CASE k # Len(p)
    <3>1. k + 1 \in 1..Len(p) /\ k \in 0..Len(p) /\ k + 1 \in 0..Len(p) /\ k < k + 1
          /\ (k + 1) - 1 = k
      BY <2>5, <2>6, <2>7
    <3>2. Within(p, k + 1, l)
      <4>1. Elapsed(p)[k] < Elapsed(p)[k + 1]
        BY <2>5, <3>1, ElapsedGrows
      <4>. QED BY <1>1, <3>1, <4>1 DEF Within, l
    <3>3. StepAt(n, c) = k + 1
      <4> DEFINE j == k + 1
      <4>1. /\ j \in 1..Len(PatternAt(n, c)) /\ Within(PatternAt(n, c), j, l)
            /\ TimeInSegment(n) = r * Duration(PatternAt(n, c)) + l
        BY <2>3, <2>4, <3>1, <3>2
      <4>. HIDE DEF j
      <4>2. StepAt(n, c) = j
        BY <1>1, <2>2, <2>4, <4>1, AtStep
      <4>. QED BY <4>2 DEF j
    <3>. QED BY <2>2, <2>4, <3>3 DEF BeginsStep, i, k, p
  <2>8. CASE k = Len(p)
    <3>1. l = w
      BY <2>8 DEF l, Duration
    <3>2. TimeInSegment(n) = (r + 1) * w + 0 /\ r + 1 \in Nat
      <4>1. (r + 1) * w = r * w + w
        BY <1>1, <2>5
      <4>. QED BY <1>1, <2>3, <2>5, <3>1, <4>1
    <3>3. 1 \in 1..Len(p) /\ Within(p, 1, 0)
      <4>1. 1 \in 1..Len(p) /\ 0 \in 0..Len(p) /\ 1 \in 0..Len(p) /\ 1 - 1 = 0
        BY <2>5
      <4>2. Elapsed(p)[0] = 0 /\ Elapsed(p)[0] < Elapsed(p)[1]
        BY <2>5, <4>1, ElapsedIs, ElapsedGrows
      <4>. QED BY <4>1, <4>2 DEF Within
    <3>4. StepAt(n, c) = 1 /\ Run(n, c) = r + 1
      <4> DEFINE m == r + 1
      <4>1. /\ 1 \in 1..Len(PatternAt(n, c)) /\ Within(PatternAt(n, c), 1, 0) /\ 0 \in Nat
            /\ TimeInSegment(n) = m * Duration(PatternAt(n, c)) + 0 /\ m \in Nat
        BY <2>4, <3>2, <3>3
      <4>. HIDE DEF m
      <4>2. StepAt(n, c) = 1 /\ Run(n, c) = m
        BY <2>2, <2>4, <4>1, AtStep
      <4>. QED BY <4>2 DEF m
    <3>. QED BY <2>2, <2>4, <2>8, <3>4 DEF BeginsRun, i, k, p, r
  <2>. QED BY <2>7, <2>8
<1>. QED BY <1>3, <1>4, <1>5

-------------------------------------------------------------------------------
(* The queries against the cycle unrolled.                                 *)

(* The state a query returns is the one the unrolled cycle holds.          *)
LEMMA StateIsLabelled ==
  ASSUME CycleLaid, PatternsValid, NEW t \in Nat, NEW c
  PROVE  StateAt(t, c) = LabelAt(t, c)[2].state
<1>1. CASE HasPattern(t, c)
  BY <1>1, LabelIs
<1>2. CASE ~HasPattern(t, c)
  BY <1>2, LabelIs DEF StateAt
<1>. QED BY <1>1, <1>2

(* Times that are together have one label, and one state.                  *)
LEMMA TogetherLabel ==
  ASSUME CycleLaid, PatternsValid, NEW t \in Nat, NEW u, NEW c, HasPattern(t, c),
         Together(t, u, c)
  PROVE  LabelAt(u, c) = LabelAt(t, c) /\ StateAt(u, c) = StateAt(t, c)
<1>1. /\ u \in Nat /\ u \div CycleMs = t \div CycleMs /\ SegmentIndex(u) = SegmentIndex(t)
      /\ HasPattern(u, c) /\ PatternAt(u, c) = PatternAt(t, c)
      /\ Run(u, c) = Run(t, c) /\ StepAt(u, c) = StepAt(t, c)
  BY DEF Together
<1>2. StateAt(u, c) = StateAt(t, c)
  BY <1>1, StepFound
<1>. QED BY <1>1, <1>2, LabelIs

(* A turn has another label.                                               *)
LEMMA TurnLabel ==
  ASSUME CycleLaid, PatternsValid, NEW t \in Nat, NEW c, HasPattern(t, c)
  PROVE  LabelAt(NextTransition(t, c), c) # LabelAt(t, c)
<1> DEFINE n == NextTransition(t, c)
<1>1. n \in Nat
  BY NextTime
<1>2. BeginsSegment(t, n, c) \/ BeginsStep(t, n, c) \/ BeginsRun(t, n, c)
  BY Turns
<1>3. StepAt(t, c) \in Nat /\ Run(t, c) \in Nat
  <2>1. StepAt(t, c) \in 1..Len(PatternAt(t, c)) /\ Run(t, c) \in Nat
    BY StepFound, Places
  <2>. QED BY <2>1
<1>. HIDE DEF n
<1>4. /\ LabelAt(n, c)[1] = n \div CycleMs /\ LabelAt(t, c)[1] = t \div CycleMs
      /\ LabelAt(n, c)[2].segment = SegmentIndex(n)
      /\ LabelAt(t, c)[2].segment = SegmentIndex(t)
  <2>1. LabelAt(t, c)[1] = t \div CycleMs /\ LabelAt(t, c)[2].segment = SegmentIndex(t)
    BY LabelIs
  <2>2. CASE HasPattern(n, c)
    BY <1>1, <2>1, <2>2, LabelIs
  <2>3. CASE ~HasPattern(n, c)
    BY <1>1, <2>1, <2>3, LabelIs
  <2>. QED BY <2>2, <2>3
<1>5. HasPattern(n, c) => /\ LabelAt(n, c)[2].step = StepAt(n, c)
                          /\ LabelAt(n, c)[2].run = Run(n, c)
  BY <1>1, LabelIs
<1>6. LabelAt(t, c)[2].step = StepAt(t, c) /\ LabelAt(t, c)[2].run = Run(t, c)
  BY LabelIs
<1>7. LabelAt(n, c) # LabelAt(t, c)
  BY <1>2, <1>3, <1>4, <1>5, <1>6 DEF BeginsSegment, BeginsStep, BeginsRun
<1>. QED BY <1>7 DEF n

(* A transition is where the label changes, and not before.                *)
LEMMA NextIsChange ==
  ASSUME CycleLaid, PatternsValid, NEW t \in Nat, NEW c, HasPattern(t, c)
  PROVE  /\ NextTransition(t, c) > t
         /\ LabelAt(NextTransition(t, c), c) # LabelAt(t, c)
         /\ \A u \in t..(NextTransition(t, c) - 1) :
              LabelAt(u, c) = LabelAt(t, c) /\ StateAt(u, c) = StateAt(t, c)
<1>1. NextTransition(t, c) \in Nat /\ t < NextTransition(t, c)
  BY NextTime
<1>2. ASSUME NEW u \in t..(NextTransition(t, c) - 1)
      PROVE  LabelAt(u, c) = LabelAt(t, c) /\ StateAt(u, c) = StateAt(t, c)
  <2>1. u \in Nat /\ t <= u /\ u < NextTransition(t, c)
    BY <1>1
  <2>. QED BY <2>1, StaysTogether, TogetherLabel
<1>. QED BY <1>1, <1>2, TurnLabel
-------------------------------------------------------------------------------
(* Configuration keeps its rules.                                          *)

TypeInv ==
  /\ phase \in {"configuring", "running", Aborted, Inconsistent}
  /\ now \in Nat
  /\ currentState \in [Classes -> NodeState]
  /\ queued \in [Classes -> SUBSET [time : Nat, state : WindowState]]

ConfigInv ==
  /\ timeline # << >> => CycleLaid
  /\ phase = "running" => timeline # << >>
  /\ PatternsValid
  /\ phase = "configuring" => now = 0 /\ \A c \in Classes : currentState[c] = "Sleeping"

(* With segments and patterns left alone, so is what the queries return.   *)
LEMMA Frame ==
  ASSUME timeline' = timeline, modePatterns' = modePatterns
  PROVE  /\ CycleLaid' <=> CycleLaid
         /\ PatternsValid' <=> PatternsValid
         /\ \A t, c : /\ HasPattern(t, c)' <=> HasPattern(t, c)
                      /\ StateAt(t, c)' = StateAt(t, c)
                      /\ NextTransition(t, c)' = NextTransition(t, c)
                      /\ CutAt(t, c)' <=> CutAt(t, c)
         /\ \A c : WellFormed(c)' <=> WellFormed(c)
<1>1. \A t : SegmentAt(t)' = SegmentAt(t)
  BY DEF SegmentAt, TimeInCycle
<1>2. \A t, c : (HasPattern(t, c)' <=> HasPattern(t, c)) /\ PatternAt(t, c)' = PatternAt(t, c)
  BY <1>1 DEF HasPattern, PatternAt
<1>3. \A t, c : TimeInSegment(t)' = TimeInSegment(t) /\ TimeInPattern(t, c)' = TimeInPattern(t, c)
  BY <1>1, <1>2 DEF TimeInSegment, TimeInPattern, TimeInCycle
<1>4. \A t, c : StepAt(t, c)' = StepAt(t, c)
  BY DEF StepAt, PatternAt, TimeInPattern, TimeInSegment, TimeInCycle, SegmentAt
<1>5. \A t, c : StateAt(t, c)' = StateAt(t, c)
  BY <1>2, <1>4 DEF StateAt
<1>6. \A t, c : NextTransition(t, c)' = NextTransition(t, c)
  <2>. SUFFICES ASSUME NEW t, NEW c PROVE NextTransition(t, c)' = NextTransition(t, c)
    OBVIOUS
  <2>1. StepEnd(t, c)' = StepEnd(t, c)
    <3>1. /\ TimeInSegment(t)' = TimeInSegment(t) /\ TimeInPattern(t, c)' = TimeInPattern(t, c)
          /\ PatternAt(t, c)' = PatternAt(t, c) /\ StepAt(t, c)' = StepAt(t, c)
      BY <1>2, <1>3, <1>4
    <3>. QED BY <3>1 DEF StepEnd
  <2>2. SegmentAt(t)' = SegmentAt(t) /\ (HasPattern(t, c)' <=> HasPattern(t, c))
    BY <1>1, <1>2
  <2>3. NextModeTransition(t)' = NextModeTransition(t)
    BY <2>2 DEF NextModeTransition, CycleStart
  <2>. QED BY <2>1, <2>2, <2>3 DEF NextTransition, CycleStart
<1>7. \A t, c : CutAt(t, c)' <=> CutAt(t, c)
  BY <1>1 DEF CutAt, TimeInCycle
<1>8. \A c : WellFormed(c)' <=> WellFormed(c)
  BY DEF WellFormed
<1>9. (CycleLaid' <=> CycleLaid) /\ (PatternsValid' <=> PatternsValid)
  BY DEF CycleLaid, PatternsValid
<1>. QED BY <1>2, <1>5, <1>6, <1>7, <1>8, <1>9

-------------------------------------------------------------------------------
(* Sleep and windows alternate, as long as no segment cuts a pattern.      *)

(* The state of a well formed schedule tells the parity of the step.       *)
LEMMA StepParity ==
  ASSUME CycleLaid, PatternsValid, NEW c \in Classes, WellFormed(c),
         NEW t \in Nat, HasPattern(t, c)
  PROVE  /\ Len(PatternAt(t, c)) \in Nat /\ Len(PatternAt(t, c)) % 2 = 0
         /\ StepAt(t, c) \in 1..Len(PatternAt(t, c))
         /\ StepAt(t, c) % 2 = 1 => StateAt(t, c) = "CanSleep"
         /\ StepAt(t, c) % 2 # 1 => StateAt(t, c) \in Windows(c)
<1> DEFINE p == PatternAt(t, c)
           m == SegmentAt(t).mode
<1>1. m \in Modes
  BY SegmentFound, Tiles
<1>2. <<m, c>> \in DOMAIN modePatterns /\ p = modePatterns[<<m, c>>]
  BY DEF HasPattern, PatternAt
<1>3. StepAt(t, c) \in 1..Len(p) /\ StateAt(t, c) = p[StepAt(t, c)].state
  BY StepFound
<1>. HIDE DEF p, m
<1>4. Alternates(p, c)
  BY <1>1, <1>2 DEF WellFormed
<1>5. DOMAIN p = 1..Len(p) /\ Len(p) \in Nat
  BY <1>2, PatternLasts
<1>6. p[StepAt(t, c)].state \in IF StepAt(t, c) % 2 = 1 THEN {"CanSleep"} ELSE Windows(c)
  BY <1>3, <1>4, <1>5 DEF Alternates
<1>7. Len(p) % 2 = 0
  BY <1>4 DEF Alternates
<1>. QED BY <1>3, <1>5, <1>6, <1>7 DEF p

(* Where a segment ends and cuts no pattern, a pattern ends.               *)
LEMMA EndsWhole ==
  ASSUME CycleLaid, PatternsValid, NEW c \in Classes, NEW t \in Nat, HasPattern(t, c),
         BeginsSegment(t, NextTransition(t, c), c), ~CutAt(NextTransition(t, c), c)
  PROVE  StepAt(t, c) = Len(PatternAt(t, c))
<1> DEFINE n == NextTransition(t, c)
           s == SegmentAt(t).start
           e == SegmentAt(t).end
           x == TimeInSegment(t)
           p == PatternAt(t, c)
           w == Duration(p)
           r == Run(t, c)
           y == TimeInPattern(t, c)
           k == StepAt(t, c)
           l == Elapsed(p)[k]
<1>1. /\ TimeInCycle(t) \in Nat /\ x \in Nat /\ s \in Nat /\ e \in Nat /\ r \in Nat
      /\ r * w \in Nat /\ y \in Nat /\ l \in Nat
      /\ TimeInCycle(t) = s + x /\ TimeInCycle(t) < e /\ x = r * w + y
      /\ StepEnd(t, c) = r * w + l
  BY Places
<1>2. /\ StepEnd(t, c) >= e - s /\ TimeInSegment(n) = 0
  BY DEF BeginsSegment
<1>3. n \in Nat /\ n - 1 \in Nat /\ t <= n - 1 /\ n - 1 < n
  <2>1. n \in Nat /\ t < n
    BY NextTime
  <2>. HIDE DEF n
  <2>. QED BY <2>1
<1>4. SegmentAt(n - 1) = SegmentAt(t)
  <2>. DEFINE u == n - 1
  <2>1. u \in Nat /\ t <= u /\ u < NextTransition(t, c)
    BY <1>3
  <2>. HIDE DEF u, n
  <2>2. SegmentAt(u) = SegmentAt(t)
    BY <2>1, StaysTogether DEF Together
  <2>. QED BY <2>2 DEF u
<1>5. TimeInCycle(n) = SegmentAt(n).start
  <2>. HIDE DEF n
  <2>1. TimeInCycle(n) \in Nat /\ SegmentAt(n).start \in Nat
    <3>1. /\ TimeInCycle(n) \in Nat /\ SegmentIndex(n) \in DOMAIN timeline
          /\ SegmentAt(n) = timeline[SegmentIndex(n)]
      BY <1>3, SegmentFound
    <3>. QED BY <3>1, Tiles
  <2>. QED BY <1>2, <2>1 DEF TimeInSegment
<1>6. (e - s) % w = 0
  <2>1. <<SegmentAt(t).mode, c>> \in DOMAIN modePatterns
        /\ p = modePatterns[<<SegmentAt(t).mode, c>>]
    BY DEF HasPattern, PatternAt
  <2>. HIDE DEF n, p
  <2>2. n > 0
    BY <1>3
  <2>3. (SegmentAt(n - 1).end - SegmentAt(n - 1).start)
           % Duration(modePatterns[<<SegmentAt(n - 1).mode, c>>]) = 0
    BY <1>5, <2>2 DEF CutAt, n
  <2>. QED BY <1>4, <2>1, <2>3
<1>7. Lasting(p) /\ w \in Nat \ {0} /\ Len(p) \in Nat \ {0} /\ k \in 1..Len(p)
  <2>1. <<SegmentAt(t).mode, c>> \in DOMAIN modePatterns
        /\ p = modePatterns[<<SegmentAt(t).mode, c>>]
    BY DEF HasPattern, PatternAt
  <2>2. k \in 1..Len(p)
    BY StepFound
  <2>. HIDE DEF p
  <2>. QED BY <2>1, <2>2, PatternLasts
<1>. HIDE DEF n, s, e, x, p, r, y, k
<1>8. PICK m \in Nat : e - s = m * w
  <2> DEFINE d == e - s
  <2>1. d \in Nat
    BY <1>1
  <2>. HIDE DEF d, w
  <2>2. d = (d \div w) * w + (d % w) /\ d \div w \in Nat /\ (d \div w) * w \in Nat
    BY <1>7, <2>1, Divided
  <2>3. d % w = 0
    BY <1>6 DEF d
  <2>. QED BY <2>2, <2>3 DEF d
<1>9. m * w \in Nat
  BY <1>7, <1>8
<1>10. r < m
  <2>. SUFFICES ASSUME m <= r PROVE FALSE
    BY <1>1, <1>8
  <2>1. m * w <= r * w
    <3>1. CASE m = r
      BY <1>1, <3>1
    <3>2. CASE m < r
      <4>1. m * w + w <= r * w
        <5>. HIDE DEF w
        <5>. QED BY <1>1, <1>7, <1>8, <3>2, ProductApart
      <4> DEFINE a == m * w
                 b == r * w
      <4>2. a \in Nat /\ b \in Nat /\ w \in Nat /\ a + w <= b
        BY <1>1, <1>7, <1>9, <4>1
      <4>. HIDE DEF a, b, w
      <4>3. a <= b
        BY <4>2
      <4>. QED BY <4>3 DEF a, b
    <3>. QED BY <1>1, <1>8, <3>1, <3>2
  <2> DEFINE a == m * w
             b == r * w
  <2>2. a \in Nat /\ b \in Nat /\ a <= b /\ e - s = a /\ x = b + y
    BY <1>1, <1>8, <1>9, <2>1
  <2>. HIDE DEF a, b
  <2>. QED BY <1>1, <2>2
<1>11. r * w + w <= m * w
  <2>. HIDE DEF w
  <2>. QED BY <1>1, <1>7, <1>8, <1>10, ProductApart
<1>12. w <= l
  <2> DEFINE a == m * w
             b == r * w
  <2>1. a \in Nat /\ b \in Nat /\ b + w <= a /\ e - s = a /\ b + l >= e - s
    BY <1>1, <1>2, <1>8, <1>9, <1>11
  <2>. HIDE DEF a, b, w, l
  <2>. QED BY <1>1, <1>7, <2>1
<1>13. k = Len(p)
  <2>. SUFFICES ASSUME k # Len(p) PROVE FALSE
    OBVIOUS
  <2>1. k \in 0..Len(p) /\ Len(p) \in 0..Len(p) /\ k < Len(p)
    BY <1>7
  <2>2. l < w
    BY <1>7, <2>1, ElapsedGrows DEF l, w, Duration
  <2>. HIDE DEF l, w
  <2>. QED BY <1>1, <1>7, <1>12, <2>2
<1>. QED BY <1>13 DEF k, p

(* A segment begins with the first step of its pattern.                    *)
LEMMA FirstStep ==
  ASSUME CycleLaid, PatternsValid, NEW t \in Nat, NEW c, HasPattern(t, c),
         TimeInSegment(t) = 0
  PROVE  StepAt(t, c) = 1
<1> DEFINE p == PatternAt(t, c)
<1>1. Lasting(p) /\ Len(p) \in Nat \ {0} /\ Duration(p) \in Nat \ {0}
  <2>1. <<SegmentAt(t).mode, c>> \in DOMAIN modePatterns
        /\ p = modePatterns[<<SegmentAt(t).mode, c>>]
    BY DEF HasPattern, PatternAt
  <2>. HIDE DEF p
  <2>. QED BY <2>1, PatternLasts
<1>2. 1 \in 1..Len(p) /\ Within(p, 1, 0)
  <2>. HIDE DEF p
  <2>1. 1 \in 1..Len(p) /\ 0 \in 0..Len(p) /\ 1 \in 0..Len(p) /\ 1 - 1 = 0
    BY <1>1
  <2>2. Elapsed(p)[0] = 0 /\ Elapsed(p)[0] < Elapsed(p)[1]
    BY <1>1, <2>1, ElapsedIs, ElapsedGrows
  <2>. QED BY <2>1, <2>2 DEF Within
<1>3. TimeInPattern(t, c) = 0
  <2> DEFINE w == Duration(p)
  <2>1. w \in Nat \ {0} /\ TimeInPattern(t, c) = 0 % w
    BY <1>1 DEF TimeInPattern
  <2>. HIDE DEF w
  <2>2. 0 % w = 0
    BY <2>1
  <2>. QED BY <2>1, <2>2
<1>. QED BY <1>2, <1>3, StepFound

(* A transition that cuts nothing goes from sleep to a window or back.     *)
LEMMA Alternation ==
  ASSUME CycleLaid, PatternsValid, NEW c \in Classes, WellFormed(c),
         NEW t \in Nat, HasPattern(t, c),
         HasPattern(NextTransition(t, c), c), ~CutAt(NextTransition(t, c), c)
  PROVE  \/ StateAt(t, c) = "CanSleep" /\ StateAt(NextTransition(t, c), c) \in Windows(c)
         \/ StateAt(t, c) \in Windows(c) /\ StateAt(NextTransition(t, c), c) = "CanSleep"
<1> DEFINE n == NextTransition(t, c)
           k == StepAt(t, c)
           j == StepAt(n, c)
<1>1. n \in Nat /\ HasPattern(n, c)
  BY NextTime
<1>2. BeginsSegment(t, n, c) \/ BeginsStep(t, n, c) \/ BeginsRun(t, n, c)
  BY Turns
<1>3. BeginsSegment(t, n, c) => k = Len(PatternAt(t, c))
  BY EndsWhole
<1>. HIDE DEF n
<1>4. /\ k \in Nat /\ j \in Nat
      /\ k % 2 = 1 => StateAt(t, c) = "CanSleep"
      /\ k % 2 # 1 => StateAt(t, c) \in Windows(c)
      /\ j % 2 = 1 => StateAt(n, c) = "CanSleep"
      /\ j % 2 # 1 => StateAt(n, c) \in Windows(c)
      /\ Len(PatternAt(t, c)) % 2 = 0
  BY <1>1, StepParity
<1>5. BeginsSegment(t, n, c) => j = 1
  BY <1>1, FirstStep DEF BeginsSegment
<1>6. \/ k % 2 = 1 /\ j % 2 # 1
      \/ k % 2 # 1 /\ j % 2 = 1
  <2>1. CASE BeginsStep(t, n, c)
    <3>1. j = k + 1
      BY <2>1 DEF BeginsStep
    <3>. HIDE DEF j, k
    <3>. QED BY <1>4, <3>1
  <2>2. CASE BeginsRun(t, n, c) \/ BeginsSegment(t, n, c)
    <3>1. k = Len(PatternAt(t, c)) /\ j = 1
      BY <1>3, <1>5, <2>2 DEF BeginsRun
    <3>. HIDE DEF j, k
    <3>. QED BY <1>4, <3>1
  <2>. QED BY <1>2, <2>1, <2>2
<1>. QED BY <1>4, <1>6 DEF n

-------------------------------------------------------------------------------
(* The chain of transitions.                                               *)

(* The transition that follows time t.                                     *)
Follows(t, c) ==
  [time |-> NextTransition(t, c), state |-> StateAt(NextTransition(t, c), c)]

(* The transition of c that is queued was queued at time t, and its node   *)
(* is in the state of the window of t, or asleep.                          *)
Chained(t, c) ==
  /\ t \in Nat /\ t <= now
  /\ HasPattern(t, c) /\ HasPattern(NextTransition(t, c), c)
  /\ queued[c] = {Follows(t, c)} /\ now <= NextTransition(t, c)
  /\ currentState[c] \in {"Sleeping", Wakeful(StateAt(t, c))}

(* The node is in the state of that window; a C2 node may have slept on.   *)
Kept(t, c) ==
  \/ currentState[c] = Wakeful(StateAt(t, c))
  \/ c = "C2" /\ currentState[c] = "Sleeping"

(* No segment has cut a pattern of c yet.                                  *)
Uncut(c) ==
  /\ WellFormed(c) /\ HasPattern(0, c)
  /\ \A t \in 1..now : ~CutAt(t, c)

(* The chain of c goes on, or a segment has cut a pattern of c.            *)
ChainOf(c) ==
  \/ queued[c] = {} /\ ~Uncut(c)
  \/ \E t \in Nat : Chained(t, c) /\ (Uncut(c) => Kept(t, c))

ChainInv == phase = "running" => \A c \in Classes : ChainOf(c)

IInv == TypeInv /\ ConfigInv /\ ChainInv

LEMMA InitEstablishes == Init => IInv
<1>. SUFFICES ASSUME Init PROVE IInv
  OBVIOUS
<1>1. TypeInv
  BY DEF Init, TypeInv, NodeState
<1>2. DOMAIN modePatterns = {}
  BY DEF Init
<1>3. ConfigInv
  BY <1>2 DEF Init, ConfigInv, PatternsValid
<1>4. ChainInv
  BY DEF Init, ChainInv
<1>. QED BY <1>1, <1>3, <1>4 DEF IInv

LEMMA DefinePreserves ==
  ASSUME IInv, NEW segments \in SegmentChoices, DefineMasterCycle(segments)
  PROVE  IInv'
<1>1. /\ phase = "configuring" /\ phase' \in {"configuring", Aborted}
      /\ modePatterns' = modePatterns /\ now' = now /\ currentState' = currentState
      /\ queued' = queued
      /\ timeline' = timeline \/ (Fills(segments) /\ timeline' = Laid(segments))
  BY DEF DefineMasterCycle
<1>2. phase' # "running"
  BY <1>1 DEF Aborted
<1>3. TypeInv'
  BY <1>1 DEF IInv, TypeInv
<1>4. timeline' # << >> => CycleLaid'
  <2>1. CASE timeline' = timeline
    BY <2>1 DEF IInv, ConfigInv, CycleLaid
  <2>2. CASE Fills(segments) /\ timeline' = Laid(segments)
    BY <2>2 DEF CycleLaid
  <2>. QED BY <1>1, <2>1, <2>2
<1>5. PatternsValid'
  BY <1>1 DEF IInv, ConfigInv, PatternsValid
<1>6. phase' = "configuring" => now' = 0 /\ \A c \in Classes : currentState'[c] = "Sleeping"
  BY <1>1 DEF IInv, ConfigInv
<1>7. ConfigInv'
  BY <1>2, <1>4, <1>5, <1>6 DEF ConfigInv
<1>8. ChainInv'
  BY <1>2 DEF ChainInv
<1>. QED BY <1>3, <1>7, <1>8 DEF IInv

LEMMA SetPatternPreserves ==
  ASSUME IInv, NEW mode \in Modes, NEW c \in Classes, NEW pattern \in PatternChoices[mode, c],
         SetPatternForMode(mode, c, pattern)
  PROVE  IInv'
<1>1. /\ phase = "configuring" /\ phase' \in {"configuring", Aborted}
      /\ timeline' = timeline /\ now' = now /\ currentState' = currentState /\ queued' = queued
      /\ \/ modePatterns' = modePatterns
         \/ /\ ValidPattern(pattern)
            /\ modePatterns' = [k \in DOMAIN modePatterns \cup {<<mode, c>>} |->
                                  IF k = <<mode, c>> THEN pattern ELSE modePatterns[k]]
  BY DEF SetPatternForMode
<1>2. phase' # "running"
  BY <1>1 DEF Aborted
<1>3. TypeInv'
  BY <1>1 DEF IInv, TypeInv
<1>4. timeline' # << >> => CycleLaid'
  BY <1>1 DEF IInv, ConfigInv, CycleLaid
<1>5. PatternsValid'
  <2>1. CASE modePatterns' = modePatterns
    BY <2>1 DEF IInv, ConfigInv, PatternsValid
  <2>2. CASE /\ ValidPattern(pattern)
             /\ modePatterns' = [k \in DOMAIN modePatterns \cup {<<mode, c>>} |->
                                   IF k = <<mode, c>> THEN pattern ELSE modePatterns[k]]
    <3>1. pattern \in StepList
      <4>1. PatternChoices[<<mode, c>>] \subseteq StepList /\ pattern \in PatternChoices[<<mode, c>>]
        BY CycleAssumption DEF StepList
      <4>. QED BY <4>1
    <3>2. \A key \in DOMAIN modePatterns :
            modePatterns[key] \in StepList /\ ValidPattern(modePatterns[key])
      BY DEF IInv, ConfigInv, PatternsValid
    <3>3. DOMAIN modePatterns' = DOMAIN modePatterns \cup {<<mode, c>>}
      BY <2>2
    <3>4. ASSUME NEW key \in DOMAIN modePatterns'
          PROVE  modePatterns'[key] \in StepList /\ ValidPattern(modePatterns'[key])
      <4>1. CASE key = <<mode, c>>
        <5>1. modePatterns'[key] = pattern
          BY <2>2, <3>3, <4>1
        <5>. QED BY <2>2, <3>1, <5>1
      <4>2. CASE key # <<mode, c>>
        <5>1. key \in DOMAIN modePatterns /\ modePatterns'[key] = modePatterns[key]
          BY <2>2, <3>3, <4>2
        <5>. QED BY <3>2, <5>1
      <4>. QED BY <4>1, <4>2
    <3>. QED BY <3>4 DEF PatternsValid
  <2>. QED BY <1>1, <2>1, <2>2
<1>6. phase' = "configuring" => now' = 0 /\ \A d \in Classes : currentState'[d] = "Sleeping"
  BY <1>1 DEF IInv, ConfigInv
<1>7. ConfigInv'
  BY <1>2, <1>4, <1>5, <1>6 DEF ConfigInv
<1>8. ChainInv'
  BY <1>2 DEF ChainInv
<1>. QED BY <1>3, <1>7, <1>8 DEF IInv

(* What is scheduled at a time that has a pattern, unless it throws.       *)
LEMMA ScheduledIs ==
  ASSUME CycleLaid, PatternsValid, NEW t \in Nat, NEW c \in Classes, ~Throws(t, c)
  PROVE  /\ HasPattern(t, c) => /\ Scheduled(t, c) = {Follows(t, c)}
                                /\ HasPattern(NextTransition(t, c), c)
                                /\ Follows(t, c) \in [time : Nat, state : WindowState]
         /\ ~HasPattern(t, c) => Scheduled(t, c) = {}
<1>1. CASE HasPattern(t, c)
  <2>1. NextTransition(t, c) \in Nat /\ NextTransition(t, c) # NoTime
    BY <1>1, NextTime DEF NoTime
  <2>2. Scheduled(t, c) = {Follows(t, c)}
    BY <2>1 DEF Scheduled, Follows
  <2>3. StateAt(NextTransition(t, c), c) # NoState
    BY <2>1 DEF Throws
  <2>4. HasPattern(NextTransition(t, c), c)
    BY <2>3 DEF StateAt
  <2>5. StateAt(NextTransition(t, c), c) \in WindowState
    <3> DEFINE n == NextTransition(t, c)
               p == PatternAt(n, c)
    <3>1. StepAt(n, c) \in 1..Len(p) /\ StateAt(n, c) = p[StepAt(n, c)].state
      BY <2>1, <2>4, StepFound
    <3>2. <<SegmentAt(n).mode, c>> \in DOMAIN modePatterns
          /\ p = modePatterns[<<SegmentAt(n).mode, c>>]
      BY <2>4 DEF HasPattern, PatternAt
    <3>. HIDE DEF n, p
    <3>3. StateAt(n, c) \in WindowState
      BY <3>1, <3>2, PatternLasts
    <3>. QED BY <3>3 DEF n
  <2>. QED BY <1>1, <2>1, <2>2, <2>4, <2>5 DEF Follows
<1>2. CASE ~HasPattern(t, c)
  BY <1>2 DEF Scheduled, NextTransition
<1>. QED BY <1>1, <1>2

-------------------------------------------------------------------------------
(* What a transition function leaves the node in: asleep, or in the state  *)
(* of the window it was told, which only a C2 node may decline.            *)
LEMMA OutcomeIs ==
  ASSUME NEW c \in Classes, NEW proposed \in WindowState, NEW from,
         NEW s \in Outcomes(c, proposed, from)
  PROVE  /\ s \in NodeState /\ s \in {"Sleeping", Wakeful(proposed)}
         /\ s = Wakeful(proposed) \/ (c = "C2" /\ s = "Sleeping")
BY DEF Outcomes, Wakeful, Classes, WindowState, NodeState

(* From sleep into a window and from a window to sleep it accepts.         *)
LEMMA Accepted ==
  ASSUME NEW c \in Classes, NEW held, NEW proposed, NEW from,
         from = Wakeful(held) \/ (c = "C2" /\ from = "Sleeping"),
         \/ held = "CanSleep" /\ proposed \in Windows(c)
         \/ held \in Windows(c) /\ proposed = "CanSleep"
  PROVE  Outcomes(c, proposed, from) # {}
<1>1. CASE c = "C2"
  <2>1. CASE held = "CanSleep" /\ proposed \in Windows(c)
    <3>1. proposed = "CanCommunicate" /\ from = "Sleeping"
      BY <1>1, <2>1 DEF Windows, Wakeful
    <3>. QED BY <1>1, <3>1 DEF Outcomes
  <2>2. CASE held \in Windows(c) /\ proposed = "CanSleep"
    <3>1. from \in {"Sleeping", "Communicating"}
      BY <1>1, <2>2 DEF Windows, Wakeful
    <3>. QED BY <1>1, <2>2, <3>1 DEF Outcomes
  <2>. QED BY <2>1, <2>2
<1>2. CASE c = "C3"
  <2>1. CASE held = "CanSleep" /\ proposed \in Windows(c)
    <3>1. proposed \in {"CanListen", "CanTransmit"} /\ from = "Sleeping"
      BY <1>2, <2>1 DEF Windows, Wakeful
    <3>. QED BY <1>2, <3>1 DEF Outcomes
  <2>2. CASE held \in Windows(c) /\ proposed = "CanSleep"
    <3>1. from \in {"Listening", "Transmitting"}
      BY <1>2, <2>2 DEF Windows, Wakeful
    <3>. QED BY <1>2, <2>2, <3>1 DEF Outcomes
  <2>. QED BY <2>1, <2>2
<1>. QED BY <1>1, <1>2 DEF Classes

(* The transition that is due was queued at some time before, and nothing  *)
(* is queued for an earlier time.                                          *)
LEMMA WhatIsDue ==
  ASSUME IInv, NEW c \in Classes, Due(c), NEW e \in queued[c]
  PROVE  /\ \E t \in Nat : /\ Chained(t, c) /\ (Uncut(c) => Kept(t, c))
                           /\ e = Follows(t, c) /\ t < e.time
         /\ CycleLaid /\ PatternsValid
         /\ e.time \in Nat /\ now \in Nat /\ now <= e.time /\ e.state \in WindowState
         /\ \A d \in Classes : \A f \in queued[d] : e.time <= f.time
         /\ queued[c] = {e}
<1>1. phase = "running" /\ queued[c] # {} /\ ChainOf(c)
  BY DEF Due, IInv, ChainInv
<1>2. PICK t \in Nat : Chained(t, c) /\ (Uncut(c) => Kept(t, c))
  BY <1>1 DEF ChainOf
<1>3. queued[c] = {Follows(t, c)} /\ now <= NextTransition(t, c) /\ HasPattern(t, c)
  BY <1>2 DEF Chained
<1>4. e = Follows(t, c) /\ e.time = NextTransition(t, c)
  BY <1>3 DEF Follows
<1>5. CycleLaid /\ PatternsValid
  BY <1>1 DEF IInv, ConfigInv
<1>6. t < e.time
  BY <1>3, <1>4, <1>5, NextTime
<1>7. now \in Nat /\ e \in [time : Nat, state : WindowState]
  BY DEF IInv, TypeInv
<1>8. \A d \in Classes : \A f \in queued[d] : e.time <= f.time
  <2>1. PICK g \in queued[c] : \A d \in Classes : \A f \in queued[d] : g.time <= f.time
    BY DEF Due
  <2>2. g = e
    BY <1>3, <1>4, <2>1
  <2>. QED BY <2>1, <2>2
<1>. QED BY <1>2, <1>3, <1>4, <1>5, <1>6, <1>7, <1>8

(* As time passes a cut stays a cut.                                       *)
LEMMA CutStays ==
  ASSUME timeline' = timeline, modePatterns' = modePatterns,
         now \in Nat, now' \in Nat, now <= now', NEW c, Uncut(c)'
  PROVE  Uncut(c) /\ WellFormed(c) /\ \A t \in 1..now' : ~CutAt(t, c)
<1>1. WellFormed(c)' /\ HasPattern(0, c)' /\ \A t \in 1..now' : ~CutAt(t, c)'
  BY DEF Uncut
<1>2. WellFormed(c) /\ HasPattern(0, c) /\ \A t \in 1..now' : ~CutAt(t, c)
  BY <1>1, Frame
<1>3. \A t \in 1..now : t \in 1..now'
  OBVIOUS
<1>. QED BY <1>2, <1>3 DEF Uncut

(* The other node waits on.                                                *)
LEMMA Waits ==
  ASSUME IInv, phase = "running", timeline' = timeline, modePatterns' = modePatterns,
         now' \in Nat, now <= now', NEW d \in Classes, \A f \in queued[d] : now' <= f.time,
         queued'[d] = queued[d], currentState'[d] = currentState[d]
  PROVE  ChainOf(d)'
<1>1. ChainOf(d) /\ now \in Nat
  BY DEF IInv, TypeInv, ChainInv
<1>2. Uncut(d)' => Uncut(d)
  BY <1>1, CutStays
<1>3. CASE queued[d] = {} /\ ~Uncut(d)
  BY <1>2, <1>3 DEF ChainOf
<1>4. ASSUME NEW t \in Nat, Chained(t, d), Uncut(d) => Kept(t, d)
      PROVE  ChainOf(d)'
  <2>1. /\ t <= now /\ HasPattern(t, d) /\ HasPattern(NextTransition(t, d), d)
        /\ queued[d] = {Follows(t, d)}
        /\ currentState[d] \in {"Sleeping", Wakeful(StateAt(t, d))}
    BY <1>4 DEF Chained
  <2>2. now' <= NextTransition(t, d)
    BY <2>1 DEF Follows
  <2>3. /\ NextTransition(t, d)' = NextTransition(t, d) /\ StateAt(t, d)' = StateAt(t, d)
        /\ HasPattern(t, d)' /\ Follows(t, d)' = Follows(t, d)
        /\ HasPattern(NextTransition(t, d), d)'
    <3>1. /\ NextTransition(t, d)' = NextTransition(t, d) /\ StateAt(t, d)' = StateAt(t, d)
          /\ HasPattern(t, d)'
      BY <2>1, Frame
    <3> DEFINE n == NextTransition(t, d)
    <3>2. n' = n
      BY <3>1
    <3>3. (StateAt(n, d))' = StateAt(n, d) /\ (HasPattern(n, d))'
      <4>1. \A u : (HasPattern(u, d)' <=> HasPattern(u, d)) /\ StateAt(u, d)' = StateAt(u, d)
        BY Frame
      <4>. QED BY <2>1, <3>2, <4>1
    <3>. QED BY <3>1, <3>3 DEF Follows
  <2>4. Chained(t, d)'
    BY <1>1, <2>1, <2>2, <2>3 DEF Chained
  <2>5. Uncut(d)' => Kept(t, d)'
    BY <1>2, <1>4, <2>3 DEF Kept
  <2>. QED BY <2>4, <2>5 DEF ChainOf
<1>. QED BY <1>1, <1>3, <1>4 DEF ChainOf

(* A node that has just scheduled its next transition.                     *)
LEMMA Begins ==
  ASSUME CycleLaid, PatternsValid, timeline' = timeline, modePatterns' = modePatterns,
         NEW t \in Nat, now' = t, NEW c \in Classes, ~Throws(t, c),
         HasPattern(t, c), queued'[c] = Scheduled(t, c),
         currentState'[c] \in {"Sleeping", Wakeful(StateAt(t, c))},
         Uncut(c)' => \/ currentState'[c] = Wakeful(StateAt(t, c))
                      \/ c = "C2" /\ currentState'[c] = "Sleeping"
  PROVE  ChainOf(c)'
<1> DEFINE n == NextTransition(t, c)
<1>1. queued'[c] = {Follows(t, c)} /\ HasPattern(n, c)
  BY ScheduledIs
<1>2. n \in Nat /\ t < n
  BY NextTime
<1>3. /\ n' = n /\ StateAt(t, c)' = StateAt(t, c) /\ HasPattern(t, c)'
  BY Frame
<1>4. Follows(t, c)' = Follows(t, c) /\ (HasPattern(n, c))'
  <2>1. \A u : (HasPattern(u, c)' <=> HasPattern(u, c)) /\ StateAt(u, c)' = StateAt(u, c)
    BY Frame
  <2>2. (StateAt(n, c))' = StateAt(n, c) /\ (HasPattern(n, c))'
    BY <1>1, <1>3, <2>1
  <2>. QED BY <1>3, <2>2 DEF Follows
<1>5. Chained(t, c)'
  BY <1>1, <1>2, <1>3, <1>4 DEF Chained
<1>6. Uncut(c)' => Kept(t, c)'
  BY <1>3 DEF Kept
<1>. QED BY <1>5, <1>6 DEF ChainOf

(* Time moves to a transition that is due; segments and patterns stay.     *)
LEMMA ConfigStays ==
  ASSUME IInv, phase = "running", phase' # "configuring",
         timeline' = timeline, modePatterns' = modePatterns
  PROVE  ConfigInv'
<1>1. CycleLaid' /\ PatternsValid' /\ timeline' # << >>
  BY Frame DEF IInv, ConfigInv
<1>. QED BY <1>1 DEF ConfigInv

LEMMA RegisterPreserves ==
  ASSUME IInv, RegisterAllNodeFirstEvent
  PROVE  IInv'
<1>1. /\ phase = "configuring" /\ timeline # << >> /\ timeline' = timeline
      /\ modePatterns' = modePatterns /\ now' = now /\ currentState' = currentState
      /\ \/ phase' = Inconsistent /\ queued' = queued
         \/ /\ \A c \in Classes : ~Throws(0, c)
            /\ phase' = "running" /\ queued' = [c \in Classes |-> Scheduled(0, c)]
  BY DEF RegisterAllNodeFirstEvent
<1>2. CycleLaid /\ PatternsValid /\ now = 0 /\ \A c \in Classes : currentState[c] = "Sleeping"
  BY <1>1 DEF IInv, ConfigInv
<1>3. CycleLaid' /\ PatternsValid'
  BY <1>1, <1>2, Frame
<1>4. phase' # "configuring"
  BY <1>1 DEF Inconsistent
<1>5. ConfigInv'
  BY <1>1, <1>3, <1>4 DEF ConfigInv
<1>6. CASE phase' = Inconsistent /\ queued' = queued
  <2>1. TypeInv'
    BY <1>1, <1>6 DEF IInv, TypeInv
  <2>2. ChainInv'
    BY <1>6 DEF ChainInv, Inconsistent
  <2>. QED BY <1>5, <2>1, <2>2 DEF IInv
<1>7. CASE /\ \A c \in Classes : ~Throws(0, c)
           /\ phase' = "running" /\ queued' = [c \in Classes |-> Scheduled(0, c)]
  <2>1. ASSUME NEW c \in Classes
        PROVE  Scheduled(0, c) \in SUBSET [time : Nat, state : WindowState]
    BY <1>2, <1>7, ScheduledIs
  <2>2. TypeInv'
    BY <1>1, <1>7, <2>1 DEF IInv, TypeInv
  <2>3. ASSUME NEW c \in Classes PROVE ChainOf(c)'
    <3>1. queued'[c] = Scheduled(0, c) /\ currentState'[c] = "Sleeping" /\ ~Throws(0, c)
      BY <1>1, <1>2, <1>7
    <3>2. CASE ~HasPattern(0, c)
      <4>1. queued'[c] = {}
        BY <1>2, <3>1, <3>2, ScheduledIs
      <4>2. ~HasPattern(0, c)'
        BY <1>1, <3>2, Frame
      <4>3. ~Uncut(c)'
        BY <4>2 DEF Uncut
      <4>. QED BY <4>1, <4>3 DEF ChainOf
    <3>3. CASE HasPattern(0, c)
      <4>1. WellFormed(c) => StateAt(0, c) = "CanSleep"
        <5>1. TimeInSegment(0) = 0
          <6>1. TimeInCycle(0) = 0
            BY CycleAssumption DEF TimeInCycle
          <6>2. /\ SegmentIndex(0) \in DOMAIN timeline
                /\ SegmentAt(0) = timeline[SegmentIndex(0)] /\ In(SegmentIndex(0), 0)
            BY <1>2, <6>1, SegmentFound
          <6>3. SegmentAt(0).start \in Nat /\ SegmentAt(0).start <= 0
            BY <1>2, <6>2, Tiles DEF In
          <6>. QED BY <6>1, <6>3 DEF TimeInSegment
        <5>2. StepAt(0, c) = 1
          BY <1>2, <3>3, <5>1, FirstStep
        <5>. QED BY <1>2, <3>3, <5>2, StepParity
      <4>2. Uncut(c)' => WellFormed(c)
        BY <1>1, Frame DEF Uncut
      <4>3. Uncut(c)' => currentState'[c] = Wakeful(StateAt(0, c))
        BY <3>1, <4>1, <4>2 DEF Wakeful
      <4>. QED BY <1>1, <1>2, <3>1, <3>3, <4>3, Begins
    <3>. QED BY <3>2, <3>3
  <2>4. ChainInv'
    BY <2>3 DEF ChainInv
  <2>. QED BY <1>5, <2>2, <2>4 DEF IInv
<1>. QED BY <1>1, <1>6, <1>7

LEMMA NoHandlerPreserves ==
  ASSUME IInv, NEW c \in Classes, NoHandler(c)
  PROVE  IInv'
<1>1. PICK e \in queued[c] : now' = e.time
  BY DEF NoHandler
<1>2. /\ Due(c) /\ phase = "running" /\ phase' = Aborted /\ timeline' = timeline
      /\ modePatterns' = modePatterns /\ currentState' = currentState /\ queued' = queued
  BY DEF NoHandler, Due
<1>3. now' \in Nat
  BY <1>1, <1>2, WhatIsDue
<1>4. TypeInv'
  BY <1>2, <1>3 DEF IInv, TypeInv
<1>5. ConfigInv'
  BY <1>2, ConfigStays DEF Aborted
<1>6. ChainInv'
  BY <1>2 DEF ChainInv, Aborted
<1>. QED BY <1>4, <1>5, <1>6 DEF IInv

LEMMA RefusePreserves ==
  ASSUME IInv, NEW c \in Classes, Refuse(c)
  PROVE  IInv'
<1>1. PICK e \in queued[c] : Outcomes(c, e.state, currentState[c]) = {} /\ now' = e.time
  BY DEF Refuse
<1>2. /\ Due(c) /\ phase = "running" /\ phase' = phase /\ timeline' = timeline
      /\ modePatterns' = modePatterns /\ currentState' = currentState
      /\ queued' = [queued EXCEPT ![c] = {}]
  BY DEF Refuse, Due
<1>3. PICK t \in Nat : /\ Chained(t, c) /\ (Uncut(c) => Kept(t, c))
                       /\ e = Follows(t, c) /\ t < e.time
  BY <1>2, WhatIsDue
<1>4. /\ CycleLaid /\ PatternsValid /\ now \in Nat /\ now' \in Nat /\ now <= now'
      /\ \A d \in Classes : \A f \in queued[d] : now' <= f.time
  BY <1>1, <1>2, WhatIsDue
<1>5. /\ queued \in [Classes -> SUBSET [time : Nat, state : WindowState]]
      /\ queued'[c] = {} /\ \A d \in Classes : d # c => queued'[d] = queued[d]
  BY <1>2 DEF IInv, TypeInv
<1>6. ~Uncut(c)'
  <2>. SUFFICES ASSUME Uncut(c)' PROVE FALSE
    OBVIOUS
  <2> DEFINE n == NextTransition(t, c)
  <2>1. Uncut(c) /\ WellFormed(c) /\ \A u \in 1..now' : ~CutAt(u, c)
    BY <1>2, <1>4, CutStays
  <2>2. n = now' /\ e.state = StateAt(n, c)
    BY <1>1, <1>3 DEF Follows
  <2>3. ~CutAt(n, c)
    <3>1. now' \in 1..now'
      BY <1>1, <1>3, <1>4
    <3>. QED BY <2>1, <2>2, <3>1
  <2>4. HasPattern(t, c) /\ HasPattern(n, c)
    BY <1>3 DEF Chained
  <2>5. \/ StateAt(t, c) = "CanSleep" /\ StateAt(n, c) \in Windows(c)
        \/ StateAt(t, c) \in Windows(c) /\ StateAt(n, c) = "CanSleep"
    BY <1>4, <2>1, <2>3, <2>4, Alternation
  <2>6. \/ currentState[c] = Wakeful(StateAt(t, c))
        \/ c = "C2" /\ currentState[c] = "Sleeping"
    BY <1>3, <2>1 DEF Kept
  <2>. HIDE DEF n
  <2>7. Outcomes(c, StateAt(n, c), currentState[c]) # {}
    BY <2>5, <2>6, Accepted
  <2>. QED BY <1>1, <2>2, <2>7
<1>7. ChainOf(c)'
  BY <1>5, <1>6 DEF ChainOf
<1>8. ASSUME NEW d \in Classes, d # c PROVE ChainOf(d)'
  <2>1. queued'[d] = queued[d] /\ currentState'[d] = currentState[d]
    BY <1>2, <1>5, <1>8
  <2>. QED BY <1>2, <1>4, <2>1, Waits
<1>9. ChainInv'
  BY <1>7, <1>8 DEF ChainInv
<1>10. TypeInv'
  BY <1>2, <1>4 DEF IInv, TypeInv
<1>11. ConfigInv'
  BY <1>2, ConfigStays
<1>. QED BY <1>9, <1>10, <1>11 DEF IInv

LEMMA AcceptPreserves ==
  ASSUME IInv, NEW c \in Classes, Accept(c)
  PROVE  IInv'
<1>1. PICK e \in queued[c] :
        /\ \E s \in Outcomes(c, e.state, currentState[c]) :
             currentState' = [currentState EXCEPT ![c] = s]
        /\ now' = e.time
        /\ IF Throws(e.time, c)
           THEN phase' = Inconsistent /\ queued' = [queued EXCEPT ![c] = {}]
           ELSE phase' = phase /\ queued' = [queued EXCEPT ![c] = Scheduled(e.time, c)]
  BY DEF Accept
<1>2. PICK s \in Outcomes(c, e.state, currentState[c]) :
        currentState' = [currentState EXCEPT ![c] = s]
  BY <1>1
<1>3. /\ Due(c) /\ phase = "running" /\ timeline' = timeline /\ modePatterns' = modePatterns
  BY DEF Accept, Due
<1>4. PICK t \in Nat : Chained(t, c) /\ e = Follows(t, c)
  BY <1>3, WhatIsDue
<1>5. /\ CycleLaid /\ PatternsValid /\ now \in Nat /\ now' \in Nat /\ now <= now'
      /\ e.time \in Nat /\ e.state \in WindowState
      /\ \A d \in Classes : \A f \in queued[d] : now' <= f.time
  BY <1>1, <1>3, WhatIsDue
<1>6. /\ queued \in [Classes -> SUBSET [time : Nat, state : WindowState]]
      /\ currentState \in [Classes -> NodeState]
  BY DEF IInv, TypeInv
<1>7. /\ s \in NodeState /\ s \in {"Sleeping", Wakeful(e.state)}
      /\ s = Wakeful(e.state) \/ (c = "C2" /\ s = "Sleeping")
  BY <1>5, OutcomeIs
<1>8. ConfigInv'
  BY <1>1, <1>3, ConfigStays DEF Inconsistent
<1>9. CASE Throws(e.time, c)
  <2>1. phase' = Inconsistent /\ queued' = [queued EXCEPT ![c] = {}]
    BY <1>1, <1>9
  <2>2. TypeInv'
    BY <1>2, <1>5, <1>6, <1>7, <2>1 DEF TypeInv
  <2>3. ChainInv'
    BY <2>1 DEF ChainInv, Inconsistent
  <2>. QED BY <1>8, <2>2, <2>3 DEF IInv
<1>10. CASE ~Throws(e.time, c)
  <2>1. phase' = phase /\ queued' = [queued EXCEPT ![c] = Scheduled(e.time, c)]
    BY <1>1, <1>10
  <2>2. HasPattern(e.time, c) /\ e.state = StateAt(e.time, c)
    BY <1>4 DEF Chained, Follows
  <2>3. Scheduled(e.time, c) \in SUBSET [time : Nat, state : WindowState]
    BY <1>5, <1>10, <2>2, ScheduledIs
  <2>4. TypeInv'
    BY <1>2, <1>3, <1>5, <1>6, <1>7, <2>1, <2>3 DEF TypeInv
  <2>5. queued'[c] = Scheduled(e.time, c) /\ currentState'[c] = s
    BY <1>2, <1>6, <2>1
  <2>6. ChainOf(c)'
    BY <1>1, <1>3, <1>5, <1>7, <1>10, <2>2, <2>5, Begins
  <2>7. ASSUME NEW d \in Classes, d # c PROVE ChainOf(d)'
    <3>1. queued'[d] = queued[d] /\ currentState'[d] = currentState[d]
      BY <1>2, <1>6, <2>1, <2>7
    <3>. QED BY <1>3, <1>5, <3>1, Waits
  <2>8. ChainInv'
    BY <2>6, <2>7 DEF ChainInv
  <2>. QED BY <1>8, <2>4, <2>8 DEF IInv
<1>. QED BY <1>9, <1>10
-------------------------------------------------------------------------------
(* The theorems.                                                           *)

LEMMA StepPreserves == IInv /\ [Next]_vars => IInv'
<1>. SUFFICES ASSUME IInv, [Next]_vars PROVE IInv'
  OBVIOUS
<1>1. CASE UNCHANGED vars
  <2>1. /\ phase' = phase /\ timeline' = timeline /\ modePatterns' = modePatterns
        /\ now' = now /\ currentState' = currentState /\ queued' = queued
    BY <1>1 DEF vars
  <2>2. TypeInv'
    BY <2>1 DEF IInv, TypeInv
  <2>3. ConfigInv'
    BY <2>1, Frame DEF IInv, ConfigInv
  <2>4. ASSUME NEW d \in Classes, phase = "running" PROVE ChainOf(d)'
    <3>1. now \in Nat
      BY DEF IInv, TypeInv
    <3>2. \A f \in queued[d] : now <= f.time
      <4>1. ChainOf(d)
        BY <2>4 DEF IInv, ChainInv
      <4>. QED BY <4>1 DEF ChainOf, Chained, Follows
    <3>. QED BY <2>1, <2>4, <3>1, <3>2, Waits
  <2>5. ChainInv'
    BY <2>1, <2>4 DEF ChainInv
  <2>. QED BY <2>2, <2>3, <2>5 DEF IInv
<1>2. ASSUME NEW segments \in SegmentChoices, DefineMasterCycle(segments) PROVE IInv'
  BY <1>2, DefinePreserves
<1>3. ASSUME NEW m \in Modes, NEW c \in Classes, NEW p \in PatternChoices[m, c],
             SetPatternForMode(m, c, p)
      PROVE  IInv'
  BY <1>3, SetPatternPreserves
<1>4. CASE RegisterAllNodeFirstEvent
  BY <1>4, RegisterPreserves
<1>5. ASSUME NEW c \in Classes, NoHandler(c) \/ Refuse(c) \/ Accept(c) PROVE IInv'
  BY <1>5, NoHandlerPreserves, RefusePreserves, AcceptPreserves
<1>. QED BY <1>1, <1>2, <1>3, <1>4, <1>5 DEF Next

THEOREM InductiveAlways == Spec => []IInv
<1>1. Init => IInv
  BY InitEstablishes
<1>2. IInv /\ [Next]_vars => IInv'
  BY StepPreserves
<1>. QED BY <1>1, <1>2, PTL DEF Spec

(* Whatever the cycle, its segments and its patterns, a node is told for   *)
(* any time the state the unrolled cycle holds there (tryGetStateAt).      *)
THEOREM StateMatchesLayoutAlways == Spec => []StateMatchesLayout
<1>1. IInv => StateMatchesLayout
  <2>. SUFFICES ASSUME IInv, phase = "running", NEW c \in Classes, NEW t \in 0..(2 * CycleMs)
                PROVE  StateAt(t, c) = LabelAt(t, c)[2].state
    BY DEF StateMatchesLayout, Started
  <2>1. CycleLaid /\ PatternsValid
    BY DEF IInv, ConfigInv
  <2>2. t \in Nat
    BY CycleAssumption
  <2>. QED BY <2>1, <2>2, StateIsLabelled
<1>. QED BY <1>1, InductiveAlways, PTL

(* The next transition is the first change of label of the unrolled cycle: *)
(* no boundary is jumped over or invented (tryGetNextTransitionTime).      *)
THEOREM NextMatchesLayoutAlways == Spec => []NextMatchesLayout
<1>1. IInv => NextMatchesLayout
  <2>. SUFFICES ASSUME IInv, phase = "running", NEW c \in Classes,
                       NEW t \in 0..(2 * CycleMs), HasPattern(t, c)
                PROVE  /\ NextTransition(t, c) > t
                       /\ LabelAt(NextTransition(t, c), c) # LabelAt(t, c)
                       /\ \A u \in t..(NextTransition(t, c) - 1) :
                            LabelAt(u, c) = LabelAt(t, c)
    BY DEF NextMatchesLayout, Started
  <2>1. CycleLaid /\ PatternsValid
    BY DEF IInv, ConfigInv
  <2>2. t \in Nat
    BY CycleAssumption
  <2>. QED BY <2>1, <2>2, NextIsChange
<1>. QED BY <1>1, InductiveAlways, PTL

(* Between its transitions a node is asleep or in the state of the window  *)
(* the schedule gives its class now (onTimeChange and the uplink handlers).*)
THEOREM AwakeInOwnWindowAlways == Spec => []AwakeInOwnWindowOnly
<1>1. IInv => AwakeInOwnWindowOnly
  <2>. SUFFICES ASSUME IInv, NEW c \in Classes, phase = "running", queued[c] # {}, ~Due(c)
                PROVE  currentState[c] \in {"Sleeping", Wakeful(StateAt(now, c))}
    BY DEF AwakeInOwnWindowOnly
  <2>1. PICK t \in Nat : Chained(t, c)
    BY DEF IInv, ChainInv, ChainOf
  <2> DEFINE n == NextTransition(t, c)
  <2>2. /\ t <= now /\ HasPattern(t, c) /\ queued[c] = {Follows(t, c)}
        /\ currentState[c] \in {"Sleeping", Wakeful(StateAt(t, c))}
    BY <2>1 DEF Chained
  <2>3. Follows(t, c) \in queued[c] /\ Follows(t, c).time = n
    BY <2>2 DEF Follows
  <2>4. now \in Nat /\ CycleLaid /\ PatternsValid
    BY DEF IInv, TypeInv, ConfigInv
  <2>5. n \in Nat
    BY <2>2, <2>4, NextTime
  <2>6. now < n
    <3>1. PICK d \in Classes : \E f \in queued[d] : ~(Follows(t, c).time <= f.time)
      BY <2>3 DEF Due
    <3>2. PICK f \in queued[d] : ~(Follows(t, c).time <= f.time)
      BY <3>1
    <3>3. PICK u \in Nat : Chained(u, d)
      BY <3>2 DEF IInv, ChainInv, ChainOf
    <3>4. now <= f.time /\ f.time \in Nat
      <4>1. f.time = NextTransition(u, d) /\ now <= NextTransition(u, d) /\ HasPattern(u, d)
        BY <3>2, <3>3 DEF Chained, Follows
      <4>2. NextTransition(u, d) \in Nat
        BY <2>4, <4>1, NextTime
      <4>. QED BY <4>1, <4>2
    <3>. HIDE DEF n
    <3>. QED BY <2>3, <2>4, <2>5, <3>2, <3>4
  <2>7. now \in t..(n - 1)
    <3>. HIDE DEF n
    <3>. QED BY <2>2, <2>4, <2>5, <2>6
  <2>8. StateAt(now, c) = StateAt(t, c)
    BY <2>2, <2>4, <2>7, NextIsChange
  <2>. QED BY <2>2, <2>8
<1>. QED BY <1>1, InductiveAlways, PTL

(* The chain of a node whose patterns alternate sleep and window ends only *)
(* where a segment cuts a pattern short: nothing else makes a transition   *)
(* function refuse, and only a refusal leaves the queue empty.             *)
THEOREM RefusedOnlyAtCutAlways == Spec => []RefusedOnlyAtCut
<1>1. IInv => RefusedOnlyAtCut
  <2>. SUFFICES ASSUME IInv, NEW c \in Classes, phase = "running", WellFormed(c),
                       HasPattern(0, c), queued[c] = {}
                PROVE  \E t \in 1..now : CutAt(t, c)
    BY DEF RefusedOnlyAtCut
  <2>1. ChainOf(c)
    BY DEF IInv, ChainInv
  <2>2. ~Uncut(c)
    BY <2>1 DEF ChainOf, Chained
  <2>. QED BY <2>2 DEF Uncut
<1>. QED BY <1>1, InductiveAlways, PTL

(* Every segment is a whole number of patterns, as the 24 h of             *)
(* SimonV1Factory are of its 3200 ms.                                      *)
Whole(c) ==
  \A i \in DOMAIN timeline :
    /\ <<timeline[i].mode, c>> \in DOMAIN modePatterns
    /\ (timeline[i].end - timeline[i].start)
          % Duration(modePatterns[<<timeline[i].mode, c>>]) = 0

(* The chain of a node with such a schedule never ends, over any number of *)
(* cycles (onTimeChange queues nothing after a refusal; there is none).    *)
THEOREM WholeSchedulesGoOn ==
  Spec => [](\A c \in Classes :
               phase = "running" /\ WellFormed(c) /\ Whole(c) => queued[c] # {})
<1>1. ASSUME IInv, RefusedOnlyAtCut, NEW c \in Classes,
             phase = "running", WellFormed(c), Whole(c)
      PROVE  queued[c] # {}
  <2>1. CycleLaid /\ now \in Nat
    BY <1>1 DEF IInv, ConfigInv, TypeInv
  <2>2. \A t \in Nat : \E i \in DOMAIN timeline : SegmentAt(t) = timeline[i]
    BY <2>1, SegmentFound
  <2>3. HasPattern(0, c)
    BY <1>1, <2>2 DEF HasPattern, Whole
  <2>4. ASSUME NEW t \in 1..now PROVE ~CutAt(t, c)
    <3>1. t - 1 \in Nat
      BY <2>1
    <3>2. PICK i \in DOMAIN timeline : SegmentAt(t - 1) = timeline[i]
      BY <2>2, <3>1
    <3>. QED BY <1>1, <3>2 DEF CutAt, Whole
  <2>. QED BY <1>1, <2>3, <2>4 DEF RefusedOnlyAtCut
<1>2. IInv /\ RefusedOnlyAtCut =>
        \A c \in Classes : phase = "running" /\ WellFormed(c) /\ Whole(c) => queued[c] # {}
  BY <1>1
<1>. QED BY <1>2, InductiveAlways, RefusedOnlyAtCutAlways, PTL

-------------------------------------------------------------------------------
(***************************************************************************)
(* Classes in step.  SimonV1Factory gives C2 and C3 patterns of the same   *)
(* durations; the uplink model has one step for all nodes because of that. *)
(***************************************************************************)
SamePace ==
  \A key \in DOMAIN modePatterns, c \in Classes :
    /\ <<key[1], c>> \in DOMAIN modePatterns
    /\ Len(modePatterns[<<key[1], c>>]) = Len(modePatterns[key])
    /\ \A k \in 1..Len(modePatterns[key]) :
         modePatterns[<<key[1], c>>][k].durationMs = modePatterns[key][k].durationMs

(* The transitions that two classes have queued are at the same time, or   *)
(* one of them is due now and the other class has made that one already.   *)
StepsTogether ==
  phase = "running" /\ SamePace =>
    \A c, d \in Classes : c # d =>
      \A e \in queued[c], f \in queued[d] : e.time <= f.time =>
        \/ f.time = e.time
        \/ e.time = now /\ f.time = NextTransition(now, d)

(* The accumulated time is one of the durations only.                      *)
LEMMA ElapsedSame ==
  ASSUME NEW s, NEW r, Lasting(s), Lasting(r), Len(r) = Len(s),
         \A k \in 1..Len(s) : r[k].durationMs = s[k].durationMs
  PROVE  \A k \in 0..Len(s) : Elapsed(r)[k] = Elapsed(s)[k]
<1> DEFINE f == Elapsed(s)
           h == Elapsed(r)
           n == Len(s)
           T == {k \in Nat : k <= n => h[k] = f[k]}
<1>1. /\ n \in Nat /\ f[0] = 0 /\ h[0] = 0
      /\ \A k \in 1..n : f[k] = f[k - 1] + s[k].durationMs
      /\ \A k \in 1..n : h[k] = h[k - 1] + s[k].durationMs
  BY ElapsedIs DEF Lasting
<1>. HIDE DEF f, h, n
<1>2. 0 \in T
  BY <1>1
<1>3. ASSUME NEW k \in T PROVE k + 1 \in T
  <2>. SUFFICES ASSUME k + 1 <= n PROVE h[k + 1] = f[k + 1]
    OBVIOUS
  <2>1. k \in Nat /\ k + 1 \in 1..n /\ (k + 1) - 1 = k /\ h[k] = f[k]
    BY <1>1
  <2>. QED BY <1>1, <2>1
<1>4. T = Nat
  <2>1. T \in SUBSET Nat
    OBVIOUS
  <2>. HIDE DEF T
  <2>. QED BY <1>2, <1>3, <2>1, Induction
<1>5. \A k \in 0..n : h[k] = f[k]
  BY <1>1, <1>4
<1>. QED BY <1>5 DEF f, h, n

(* At the same pace two classes are in the same step and turn at the same  *)
(* time.                                                                   *)
LEMMA SameTurn ==
  ASSUME CycleLaid, PatternsValid, SamePace, NEW t \in Nat, NEW c \in Classes, NEW d \in Classes
  PROVE  /\ HasPattern(t, d) <=> HasPattern(t, c)
         /\ HasPattern(t, c) => StepAt(t, d) = StepAt(t, c)
         /\ NextTransition(t, d) = NextTransition(t, c)
<1> DEFINE m == SegmentAt(t).mode
           p == PatternAt(t, c)
           q == PatternAt(t, d)
<1>1. HasPattern(t, d) <=> HasPattern(t, c)
  <2>1. <<m, c>>[1] = m /\ <<m, d>>[1] = m
    OBVIOUS
  <2>. QED BY <2>1 DEF SamePace, HasPattern
<1>2. CASE ~HasPattern(t, c)
  BY <1>1, <1>2 DEF NextTransition
<1>3. CASE HasPattern(t, c)
  <2>1. <<m, c>> \in DOMAIN modePatterns /\ <<m, d>> \in DOMAIN modePatterns
        /\ p = modePatterns[<<m, c>>] /\ q = modePatterns[<<m, d>>] /\ <<m, c>>[1] = m
    BY <1>1, <1>3 DEF HasPattern, PatternAt
  <2>2. Lasting(p) /\ Lasting(q)
    BY <2>1, PatternLasts
  <2>3. Len(q) = Len(p) /\ \A k \in 1..Len(p) : q[k].durationMs = p[k].durationMs
    BY <2>1 DEF SamePace
  <2>. HIDE DEF m, p, q
  <2>4. \A k \in 0..Len(p) : Elapsed(q)[k] = Elapsed(p)[k]
    BY <2>2, <2>3, ElapsedSame
  <2>5. Len(p) \in Nat /\ Duration(q) = Duration(p)
    BY <2>2, <2>3, <2>4 DEF Duration, Lasting
  <2>6. TimeInPattern(t, d) = TimeInPattern(t, c)
    BY <2>5 DEF TimeInPattern, p, q
  <2>7. StepAt(t, c) \in 1..Len(p) /\ Within(p, StepAt(t, c), TimeInPattern(t, c))
    BY <1>3, StepFound DEF p
  <2>8. Within(q, StepAt(t, c), TimeInPattern(t, d))
    <3>1. StepAt(t, c) - 1 \in 0..Len(p) /\ StepAt(t, c) \in 0..Len(p)
      BY <2>5, <2>7
    <3>. QED BY <2>4, <2>6, <2>7, <3>1 DEF Within
  <2>9. StepAt(t, d) = StepAt(t, c)
    BY <1>1, <1>3, <2>3, <2>7, <2>8, StepFound DEF q
  <2>10. StepEnd(t, d) = StepEnd(t, c)
    <3>1. StepAt(t, c) \in 0..Len(p)
      BY <2>5, <2>7
    <3>2. Elapsed(q)[StepAt(t, d)] = Elapsed(p)[StepAt(t, c)]
      BY <2>4, <2>9, <3>1
    <3>. QED BY <2>6, <3>2 DEF StepEnd, p, q
  <2>. QED BY <1>1, <2>9, <2>10 DEF NextTransition
<1>. QED BY <1>1, <1>2, <1>3

(* Whatever is queued at a time t is the next transition.                  *)
LEMMA ScheduledTime ==
  ASSUME CycleLaid, PatternsValid, NEW t \in Nat, NEW c, NEW e \in Scheduled(t, c)
  PROVE  e.time = NextTransition(t, c) /\ e.time \in Nat /\ t < e.time
<1>1. e.time = NextTransition(t, c) /\ NextTransition(t, c) # NoTime
  BY DEF Scheduled
<1>2. HasPattern(t, c)
  BY <1>1 DEF NextTransition
<1>. QED BY <1>1, <1>2, NextTime

(* With segments and patterns left alone, only the time moves the turn.    *)
LEMMA TurnsFrame ==
  ASSUME timeline' = timeline, modePatterns' = modePatterns
  PROVE  \A x \in Classes : NextTransition(now, x)' = NextTransition(now', x)
BY DEF NextTransition, HasPattern, StepEnd, StepAt, PatternAt, TimeInPattern, TimeInSegment,
   TimeInCycle, SegmentAt, NextModeTransition, CycleStart

LEMMA TogetherAtStart ==
  ASSUME IInv, RegisterAllNodeFirstEvent
  PROVE  StepsTogether'
<1>. SUFFICES ASSUME phase' = "running", SamePace', NEW c \in Classes, NEW d \in Classes,
                     NEW e \in queued'[c], NEW f \in queued'[d]
              PROVE  f.time = e.time
  BY DEF StepsTogether
<1>1. queued' = [x \in Classes |-> Scheduled(0, x)] /\ timeline # << >>
      /\ timeline' = timeline /\ modePatterns' = modePatterns
  BY DEF RegisterAllNodeFirstEvent, Inconsistent
<1>2. CycleLaid /\ PatternsValid /\ SamePace
  BY <1>1 DEF IInv, ConfigInv, SamePace
<1>3. e.time = NextTransition(0, c) /\ f.time = NextTransition(0, d)
  BY <1>1, <1>2, ScheduledTime
<1>. QED BY <1>2, <1>3, SameTurn

LEMMA TogetherAfterAccept ==
  ASSUME IInv, StepsTogether, NEW c \in Classes, Accept(c)
  PROVE  StepsTogether'
<1>. SUFFICES ASSUME phase' = "running", SamePace' PROVE StepsTogether'
  BY DEF StepsTogether
<1>1. PICK e \in queued[c] : now' = e.time /\ (~Throws(e.time, c) =>
                                 queued' = [queued EXCEPT ![c] = Scheduled(e.time, c)])
                              /\ (Throws(e.time, c) => phase' = Inconsistent)
  BY DEF Accept
<1>2. /\ Due(c) /\ phase = "running" /\ timeline' = timeline /\ modePatterns' = modePatterns
  BY DEF Accept, Due
<1>3. /\ CycleLaid /\ PatternsValid /\ now \in Nat /\ e.time \in Nat
      /\ \A d \in Classes : \A f \in queued[d] : e.time <= f.time /\ f.time \in Nat
  <2>1. \A d \in Classes : \A f \in queued[d] : f.time \in Nat
    BY DEF IInv, TypeInv
  <2>. QED BY <1>1, <1>2, <2>1, WhatIsDue
<1>4. SamePace
  BY <1>2 DEF SamePace
<1>5. queued'[c] = Scheduled(e.time, c) /\ \A d \in Classes : d # c => queued'[d] = queued[d]
  BY <1>1 DEF IInv, TypeInv, Inconsistent
<1>6. ASSUME NEW d \in Classes, d # c, NEW g \in queued'[c], NEW f \in queued'[d]
      PROVE  \/ f.time = g.time
             \/ f.time = now' /\ f.time < g.time /\ g.time = NextTransition(now', c)
  <2>1. f \in queued[d] /\ g \in Scheduled(e.time, c)
    BY <1>5, <1>6
  <2>2. g.time = NextTransition(e.time, c) /\ e.time < g.time
    BY <1>3, <2>1, ScheduledTime
  <2>3. CASE f.time = e.time
    BY <1>1, <2>2, <2>3
  <2>4. CASE e.time = now /\ f.time = NextTransition(now, d)
    BY <1>3, <1>4, <2>2, <2>4, SameTurn
  <2>. QED BY <1>2, <1>3, <1>4, <1>6, <2>1, <2>3, <2>4 DEF StepsTogether
<1>7. \A x, y \in Classes : x # y => x = c \/ y = c
  BY DEF Classes
<1>8. ASSUME NEW x \in Classes, NEW y \in Classes, x # y,
             NEW g \in queued'[x], NEW f \in queued'[y], g.time <= f.time
      PROVE  f.time = g.time \/ (g.time = now' /\ f.time = NextTransition(now', y))
  <2>1. \A d \in Classes : \A h \in queued'[d] : h.time \in Nat
    <3>1. \A h \in queued'[c] : h.time \in Nat
      BY <1>3, <1>5, ScheduledTime
    <3>. QED BY <1>3, <1>5, <3>1
  <2>2. f.time \in Nat /\ g.time \in Nat
    BY <2>1
  <2>3. CASE x = c
    BY <1>6, <1>8, <2>2, <2>3
  <2>4. CASE y = c
    BY <1>6, <1>8, <2>2, <2>4
  <2>. QED BY <1>7, <1>8, <2>3, <2>4
<1>9. \A x \in Classes : NextTransition(now, x)' = NextTransition(now', x)
  BY <1>2, TurnsFrame
<1>. QED BY <1>8, <1>9 DEF StepsTogether

(* Two classes at the same pace, as those of SimonV1Factory, stay in step  *)
(* as long as neither chain has ended: no class makes a transition before  *)
(* the other has made the one before it (onTimeChange,                     *)
(* tryGetNextTransitionTime).                                              *)
THEOREM ClassesStepTogether == Spec => []StepsTogether
<1>1. Init => StepsTogether
  BY DEF Init, StepsTogether
<1>2. ASSUME IInv, StepsTogether, [Next]_vars PROVE StepsTogether'
  <2>1. CASE UNCHANGED vars
    <3>1. /\ phase' = phase /\ timeline' = timeline /\ modePatterns' = modePatterns
          /\ now' = now /\ queued' = queued
      BY <2>1 DEF vars
    <3>2. \A x \in Classes : NextTransition(now, x)' = NextTransition(now, x)
      BY <3>1, TurnsFrame
    <3>. QED BY <1>2, <3>1, <3>2 DEF StepsTogether, SamePace
  <2>2. ASSUME NEW segments, DefineMasterCycle(segments) PROVE StepsTogether'
    BY <2>2 DEF DefineMasterCycle, StepsTogether, Aborted
  <2>3. ASSUME NEW m, NEW c, NEW p, SetPatternForMode(m, c, p) PROVE StepsTogether'
    BY <2>3 DEF SetPatternForMode, StepsTogether, Aborted
  <2>4. ASSUME NEW c \in Classes, NoHandler(c) PROVE StepsTogether'
    BY <2>4 DEF NoHandler, StepsTogether, Aborted
  <2>5. ASSUME NEW c \in Classes, Refuse(c) PROVE StepsTogether'
    <3>1. queued'[c] = {} /\ \A x, y \in Classes : x # y => x = c \/ y = c
      BY <1>2, <2>5 DEF Refuse, IInv, TypeInv, Classes
    <3>. QED BY <3>1 DEF StepsTogether
  <2>. QED BY <1>2, <2>1, <2>2, <2>3, <2>4, <2>5, TogetherAtStart, TogetherAfterAccept DEF Next
<1>. QED BY <1>1, <1>2, InductiveAlways, PTL DEF Spec
===============================================================================
