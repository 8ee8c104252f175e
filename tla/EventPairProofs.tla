---------------------------- MODULE EventPairProofs ----------------------------
(***************************************************************************)
(* Proofs about what a run is made of, for every scenario, every grid and  *)
(* every draw: the distances, the network, the cell that serves a point, and *)
(* the record and the truth of an event.  Nothing here steps; the run's own *)
(* proofs (SimulatorRunProofs) rest on it.                                 *)
(*                                                                         *)
(* The argument.  What is computed by recursion is shown by counterexample: *)
(* a set of indices at which a value is wrong has a least one (NatLeast), and *)
(* the equation there says that an earlier value is wrong.  The equation   *)
(* itself holds because it has a solution (Recursion), which is put together *)
(* from the solutions up to each index.  Least and greatest elements exist *)
(* because finite sets are well-founded under inclusion (SmallestSet).     *)
(*                                                                         *)
(* The network.  A search that halves its bounds keeps one distance that   *)
(* gives too many sites and one that does not (ISDFits), whatever the counts *)
(* between them; Cover lists the nodes of the disk, each once (CoverIsDisk); *)
(* so the inventory has the sites its scenario asks for, with cells of     *)
(* different names on them.  A range is a distance at which a sector is heard *)
(* and one metre further is not (RangeIsEdge), and an agent lives and works *)
(* where one is heard (AgentsPlaced), because it is placed by trying.      *)
(*                                                                         *)
(* The labels.  A covered point is served by a sector whose distance is what *)
(* the record's Timing Advance tells, ring by ring; a manipulation changes *)
(* the one field its rule names and leaves the others; the rule is drawn from *)
(* 1 to 5.  The events of a tick carry agent, tick and number, so no two are *)
(* the same, and what the sequences of the agents are joined to holds every *)
(* event of each of them once (Spells).                                    *)
(***************************************************************************)
EXTENDS EventPair, FiniteSetTheorems, TLAPS

-----------------------------------------------------------------------------
(* Least, greatest and smallest.                                           *)

\* Among finite sets one has no other one below it.
LEMMA SmallestSet ==
  ASSUME NEW C, C # {}, \A T \in C : IsFiniteSet(T)
  PROVE  \E T \in C : \A V \in C : V \subseteq T => V = T
<1> DEFINE U == UNION C
           R == StrictSubsetOrdering(U)
<1>1. IsWellFoundedOn(R, FiniteSubsetsOf(U))
  BY FS_StrictSubsetOrderingWellFounded
<1>2. C \subseteq FiniteSubsetsOf(U)
  BY DEF FiniteSubsetsOf
<1>3. PICK T \in C : \A V \in C : ~ (<<V, T>> \in R)
  <2> HIDE DEF R, U
  <2> QED
    BY <1>1, <1>2, WFMin
<1> SUFFICES ASSUME NEW V \in C, V \subseteq T, V # T PROVE FALSE
  OBVIOUS
<1>4. <<V, T>> \in (SUBSET U) \X (SUBSET U)
  OBVIOUS
<1>5. <<V, T>> \in R
  BY <1>4 DEF StrictSubsetOrdering
<1> QED
  BY <1>3, <1>5

\* A set of natural numbers has a least element.
LEMMA NatLeast ==
  ASSUME NEW S \in SUBSET Nat, S # {}
  PROVE  \E m \in S : \A n \in S : m <= n
<1> DEFINE C == {0..n : n \in S}
<1>1. C # {} /\ \A T \in C : IsFiniteSet(T)
  <2>1. \A n \in S : IsFiniteSet(0..n)
    BY FS_Interval
  <2> QED
    BY <2>1
<1>2. PICK T \in C : \A V \in C : V \subseteq T => V = T
  <2> HIDE DEF C
  <2> QED
    BY <1>1, SmallestSet
<1>3. PICK m \in S : T = 0..m
  OBVIOUS
<1>4. ASSUME NEW n \in S, n < m
      PROVE  FALSE
  <2>1. 0..n \in C /\ 0..n \subseteq T
    BY <1>3, <1>4
  <2>2. 0..n = T
    BY <1>2, <2>1
  <2>3. m \in 0..m /\ m \notin 0..n
    BY <1>4
  <2> QED
    BY <1>3, <2>2, <2>3
<1> QED
  BY <1>4

\* A finite set of integers has a greatest element, and what the library calls
\* its maximum and its minimum are in it.
LEMMA LargestExists ==
  ASSUME NEW S \in SUBSET Int, S # {}, IsFiniteSet(S)
  PROVE  \E m \in S : \A n \in S : n <= m
<1> DEFINE Above(x) == {y \in S : y > x}
           C == {Above(x) : x \in S}
<1>1. C # {} /\ \A T \in C : IsFiniteSet(T)
  <2>1. \A x \in S : IsFiniteSet(Above(x))
    <3>1. \A x \in S : Above(x) \in SUBSET S
      OBVIOUS
    <3> HIDE DEF Above
    <3> QED
      BY <3>1, FS_Subset
  <2> HIDE DEF Above
  <2> QED
    BY <2>1
<1>2. PICK T \in C : \A V \in C : V \subseteq T => V = T
  <2> HIDE DEF C
  <2> QED
    BY <1>1, SmallestSet
<1>3. PICK m \in S : T = Above(m)
  OBVIOUS
<1>4. ASSUME NEW n \in S, n > m
      PROVE  FALSE
  <2>1. Above(n) \in C
    OBVIOUS
  <2>4. \A y \in Above(n) : y \in Above(m)
    BY <1>4
  <2>2. Above(n) = T
    <3> HIDE DEF Above
    <3> QED
      BY <1>2, <1>3, <2>1, <2>4
  <2>3. n \in Above(m) /\ n \notin Above(n)
    BY <1>4
  <2> QED
    BY <1>3, <2>2, <2>3
<1> QED
  BY <1>4

\* The greatest member of a finite set of integers (FiniteSetsExt.Max).
LEMMA MaxOf ==
  ASSUME NEW S \in SUBSET Int, S # {}, IsFiniteSet(S)
  PROVE  Max(S) \in S /\ \A n \in S : n <= Max(S)
<1>1. \E m \in S : \A n \in S : m >= n
  BY LargestExists
<1> QED
  BY <1>1 DEF Max

\* The least one (FiniteSetsExt.Min).
LEMMA MinOf ==
  ASSUME NEW S \in SUBSET Int, S # {}, IsFiniteSet(S)
  PROVE  Min(S) \in S /\ \A n \in S : Min(S) <= n
<1> DEFINE neg == [x \in S |-> -x]
           N == {neg[x] : x \in S}
<1>1. N \in SUBSET Int /\ N # {}
  <2>1. \A x \in S : neg[x] \in Int
    OBVIOUS
  <2> QED
    BY <2>1
<1>2. IsFiniteSet(N)
  <2>1. neg \in Surjection(S, N)
    BY DEF Surjection
  <2> HIDE DEF neg, N
  <2> QED
    BY <2>1, FS_Surjection
<1>3. PICK m \in N : \A n \in N : n <= m
  <2> HIDE DEF N
  <2> QED
    BY <1>1, <1>2, LargestExists
<1>4. \E x \in S : \A y \in S : x <= y
  BY <1>3
<1> QED
  BY <1>4 DEF Min

\* Where elements are measured, one has the least measure.
LEMMA NatLeastElement ==
  ASSUME NEW m, NEW S, S # {}, \A x \in S : m[x] \in Nat
  PROVE  \E x \in S : \A y \in S : m[x] <= m[y]
<1> DEFINE I == {m[x] : x \in S}
<1>1. I \in SUBSET Nat /\ I # {}
  OBVIOUS
<1>2. PICK i \in I : \A j \in I : i <= j
  <2> HIDE DEF I
  <2> QED
    BY <1>1, NatLeast
<1> QED
  BY <1>2

-----------------------------------------------------------------------------
(* Recursion.                                                              *)

\* f solves the equations of G up to measure n.
Solves(f, S, G, m, n) == \A x \in S : m[x] < n => f[x] = G[<<x, f>>]

\* What G says at x depends on the values of smaller measure only.
Earlier(S, V, G, m) ==
  \A x \in S : \A f, g \in [S -> V] :
    (\A y \in S : m[y] < m[x] => f[y] = g[y]) => G[<<x, f>>] = G[<<x, g>>]

Recursive(S, V, G, m) ==
  V # {} /\ m \in [S -> Nat] /\ G \in [S \X [S -> V] -> V] /\ Earlier(S, V, G, m)

Solvable(S, V, G) == \E f \in [S -> V] : \A x \in S : f[x] = G[<<x, f>>]

\* Equations that refer to earlier values have a solution.
LEMMA Recursion ==
  ASSUME NEW S, NEW V, NEW G, NEW m, Recursive(S, V, G, m)
  PROVE  Solvable(S, V, G)
<1> V # {} /\ m \in [S -> Nat] /\ G \in [S \X [S -> V] -> V] /\ Earlier(S, V, G, m)
  BY DEF Recursive
<1> DEFINE Has(n) == \E f \in [S -> V] : Solves(f, S, G, m, n)
           Not == {n \in Nat : ~Has(n)}
<1>1. Has(0)
  <2>3. PICK v \in V : TRUE
    OBVIOUS
  <2>1. [x \in S |-> v] \in [S -> V]
    OBVIOUS
  <2>2. Solves([x \in S |-> v], S, G, m, 0)
    BY DEF Solves
  <2> QED
    BY <2>1, <2>2
<1>2. ASSUME NEW n \in Nat, Has(n)
      PROVE  Has(n + 1)
  <2>1. PICK f \in [S -> V] : Solves(f, S, G, m, n)
    BY <1>2
  <2> DEFINE g == [x \in S |-> IF m[x] < n THEN f[x] ELSE G[<<x, f>>]]
  <2>2. g \in [S -> V]
    OBVIOUS
  <2>3. ASSUME NEW x \in S, m[x] < n + 1
        PROVE  g[x] = G[<<x, g>>]
    <3>1. \A y \in S : m[y] < m[x] => f[y] = g[y]
      BY <2>3
    <3>2. G[<<x, f>>] = G[<<x, g>>]
      <4> HIDE DEF g
      <4> QED
        BY <2>2, <3>1 DEF Earlier
    <3>3. g[x] = G[<<x, f>>]
      BY <2>1 DEF Solves
    <3> QED
      BY <3>2, <3>3
  <2>4. Solves(g, S, G, m, n + 1)
    BY <2>3 DEF Solves
  <2> HIDE DEF g
  <2> QED
    BY <2>2, <2>4
<1>3. \A n \in Nat : Has(n)
  <2> SUFFICES ASSUME Not # {} PROVE FALSE
    OBVIOUS
  <2> HIDE DEF Has
  <2>1. PICK n \in Not : \A k \in Not : n <= k
    BY NatLeast
  <2>2. n \in Nat /\ n # 0 /\ n - 1 \in Nat /\ n - 1 \notin Not
    BY <1>1, <2>1
  <2> QED
    BY <1>2, <2>2
\* Two solutions agree as far as both are one.
<1>4. ASSUME NEW n \in Nat, NEW f \in [S -> V], NEW g \in [S -> V],
             Solves(f, S, G, m, n), Solves(g, S, G, m, n)
      PROVE  \A x \in S : m[x] < n => f[x] = g[x]
  <2> DEFINE D == {x \in S : m[x] < n /\ f[x] # g[x]}
  <2> SUFFICES ASSUME D # {} PROVE FALSE
    OBVIOUS
  <2>1. PICK x \in D : \A y \in D : m[x] <= m[y]
    <3>1. \A y \in D : m[y] \in Nat
      OBVIOUS
    <3> HIDE DEF D
    <3> QED
      BY <3>1, NatLeastElement
  <2>2. \A y \in S : m[y] < m[x] => f[y] = g[y]
    BY <2>1
  <2>3. G[<<x, f>>] = G[<<x, g>>]
    BY <2>2 DEF Earlier
  <2> QED
    BY <1>4, <2>3 DEF Solves
<1> DEFINE a == [n \in Nat |-> CHOOSE f \in [S -> V] : Solves(f, S, G, m, n)]
           F == [x \in S |-> a[m[x] + 1][x]]
<1>5. \A n \in Nat : a[n] \in [S -> V] /\ Solves(a[n], S, G, m, n)
  BY <1>3
<1>6. F \in [S -> V]
  <2> HIDE DEF a
  <2> QED
    BY <1>5
<1>7. ASSUME NEW x \in S
      PROVE  F[x] = G[<<x, F>>]
  <2> DEFINE h == a[m[x] + 1]
  <2>1. h \in [S -> V] /\ Solves(h, S, G, m, m[x] + 1)
    <3> HIDE DEF a
    <3> QED
      BY <1>5
  <2>2. ASSUME NEW y \in S, m[y] < m[x]
        PROVE  F[y] = h[y]
    <3> DEFINE k == m[y] + 1
    <3>4. k \in Nat /\ m[y] < k
      OBVIOUS
    <3>1. a[k] \in [S -> V] /\ Solves(a[k], S, G, m, k)
      <4> HIDE DEF a, k
      <4> QED
        BY <1>5, <3>4
    <3>2. Solves(h, S, G, m, k)
      <4> HIDE DEF a, h
      <4> QED
        BY <2>1, <2>2 DEF Solves
    <3>3. a[k][y] = h[y]
      <4> HIDE DEF a, h, k
      <4> QED
        BY <1>4, <2>1, <3>1, <3>2, <3>4
    <3> QED
      BY <3>3
  <2>3. F[x] = h[x]
    OBVIOUS
  <2> HIDE DEF h, F
  <2>4. G[<<x, F>>] = G[<<x, h>>]
    BY <1>6, <2>1, <2>2 DEF Earlier
  <2>5. h[x] = G[<<x, h>>]
    BY <2>1 DEF Solves
  <2> QED
    BY <2>3, <2>4, <2>5
<1> HIDE DEF F
<1> QED
  BY <1>6, <1>7 DEF Solvable

\* What can be shown of the elements before an element holds of all of them.
LEMMA ByMeasure ==
  ASSUME NEW S, NEW V, NEW C, NEW m \in [S -> Nat],
         \A x \in S : (\A y \in S : m[y] < m[x] => C[y] \in V) => C[x] \in V
  PROVE  \A x \in S : C[x] \in V
<1> DEFINE Bad == {x \in S : C[x] \notin V}
<1> SUFFICES ASSUME Bad # {} PROVE FALSE
  OBVIOUS
<1>1. PICK x \in Bad : \A y \in Bad : m[x] <= m[y]
  <2>1. \A y \in Bad : m[y] \in Nat
    OBVIOUS
  <2> HIDE DEF Bad
  <2> QED
    BY <2>1, NatLeastElement
<1>2. \A y \in S : m[y] < m[x] => C[y] \in V
  BY <1>1
<1> QED
  BY <1>2

-----------------------------------------------------------------------------
(* Halving.                                                                *)

\* The bounds of a search that halves them, and what is left of them.
Bounds == Nat \X Nat
Upper(b) == <<(b[1] + b[2]) \div 2, b[2]>>
Lower(b) == <<b[1], (b[1] + b[2]) \div 2>>

Turns == {"end", "upper", "lower"}

\* f searches: it turns at b where T says, and ends there with E.
Halves(f, T, E) ==
  \A b \in Bounds : f[b] = IF T[b] = "end" THEN E[b]
                           ELSE IF T[b] = "upper" THEN f[Upper(b)] ELSE f[Lower(b)]

\* It turns only where the bounds have something between them.
Narrows(T) == T \in [Bounds -> Turns] /\ \A b \in Bounds : T[b] # "end" => b[2] - b[1] > 1

Width == [b \in Bounds |-> IF b[2] > b[1] THEN b[2] - b[1] ELSE 0]

\* Where the bounds have something between them, both halves are bounds
\* and narrower, and the middle is strictly inside.
LEMMA HalfIsSmaller ==
  ASSUME NEW b \in Bounds, b[2] - b[1] > 1
  PROVE  /\ Upper(b) \in Bounds /\ Width[Upper(b)] < Width[b]
         /\ Lower(b) \in Bounds /\ Width[Lower(b)] < Width[b]
         /\ (b[1] + b[2]) \div 2 \in Nat /\ b[1] < (b[1] + b[2]) \div 2 /\ (b[1] + b[2]) \div 2 < b[2]
<1> DEFINE mid == (b[1] + b[2]) \div 2
<1>1. b[1] \in Nat /\ b[2] \in Nat
  BY DEF Bounds
<1>2. mid \in Nat /\ b[1] < mid /\ mid < b[2]
  BY <1>1
<1> HIDE DEF mid
<1>3. <<mid, b[2]>> \in Bounds /\ <<b[1], mid>> \in Bounds
  BY <1>1, <1>2 DEF Bounds
<1>4. Width[<<mid, b[2]>>] < Width[b] /\ Width[<<b[1], mid>>] < Width[b]
  BY <1>1, <1>2, <1>3 DEF Width
<1> QED
  BY <1>2, <1>3, <1>4 DEF Upper, Lower, mid

\* A search by halving has a value at all bounds.
LEMMA HalvingSolved ==
  ASSUME NEW V, NEW E \in [Bounds -> V], NEW T, Narrows(T)
  PROVE  \E f \in [Bounds -> V] : Halves(f, T, E)
<1> DEFINE G == [p \in Bounds \X [Bounds -> V] |->
                   IF T[p[1]] = "end" THEN E[p[1]]
                   ELSE IF T[p[1]] = "upper" THEN p[2][Upper(p[1])] ELSE p[2][Lower(p[1])]]
<1>1. V # {} /\ Width \in [Bounds -> Nat]
  <2>1. <<0, 0>> \in Bounds
    BY DEF Bounds
  <2>2. \A b \in Bounds : Width[b] \in Nat
    BY DEF Bounds, Width
  <2>3. E[<<0, 0>>] \in V
    BY <2>1
  <2> QED
    BY <2>2, <2>3 DEF Width
<1>2. ASSUME NEW b \in Bounds, NEW f \in [Bounds -> V]
      PROVE  G[<<b, f>>] = IF T[b] = "end" THEN E[b]
                           ELSE IF T[b] = "upper" THEN f[Upper(b)] ELSE f[Lower(b)]
  <2>1. <<b, f>> \in Bounds \X [Bounds -> V] /\ <<b, f>>[1] = b /\ <<b, f>>[2] = f
    OBVIOUS
  <2> QED
    BY <2>1
<1>3. G \in [Bounds \X [Bounds -> V] -> V]
  <2>1. ASSUME NEW p \in Bounds \X [Bounds -> V]
        PROVE  G[p] \in V
    <3>1. p = <<p[1], p[2]>> /\ p[1] \in Bounds /\ p[2] \in [Bounds -> V]
      OBVIOUS
    <3>2. T[p[1]] # "end" => Upper(p[1]) \in Bounds /\ Lower(p[1]) \in Bounds
      BY <3>1, HalfIsSmaller DEF Narrows
    <3>3. /\ T[p[1]] = "end" => E[p[1]] \in V
          /\ T[p[1]] # "end" => p[2][Upper(p[1])] \in V /\ p[2][Lower(p[1])] \in V
      BY <3>1, <3>2
    <3> QED
      BY <3>3
  <2> QED
    BY <2>1
<1> HIDE DEF G
<1>4. Earlier(Bounds, V, G, Width)
  <2> SUFFICES ASSUME NEW b \in Bounds, NEW f \in [Bounds -> V], NEW g \in [Bounds -> V],
                      \A c \in Bounds : Width[c] < Width[b] => f[c] = g[c]
               PROVE  G[<<b, f>>] = G[<<b, g>>]
    BY DEF Earlier
  <2>1. T[b] # "end" => f[Upper(b)] = g[Upper(b)] /\ f[Lower(b)] = g[Lower(b)]
    BY HalfIsSmaller DEF Narrows
  <2> QED
    BY <1>2, <2>1
<1>5. Solvable(Bounds, V, G)
  <2>1. Recursive(Bounds, V, G, Width)
    BY <1>1, <1>3, <1>4 DEF Recursive
  <2> QED
    BY <2>1, Recursion
<1>6. PICK f \in [Bounds -> V] : \A b \in Bounds : f[b] = G[<<b, f>>]
  BY <1>5 DEF Solvable
<1>7. Halves(f, T, E)
  BY <1>2, <1>6 DEF Halves
<1> QED
  BY <1>7

\* From the bounds of R it stays there, and ends in W.
EndsIn(T, E, R, W) ==
  /\ R \in SUBSET Bounds
  /\ \A b \in R : /\ T[b] = "end" => E[b] \in W
                  /\ T[b] = "upper" => Upper(b) \in R
                  /\ T[b] = "lower" => Lower(b) \in R

\* What a search finds, if it ends well wherever its turns may lead.
LEMMA HalvingFinds ==
  ASSUME NEW E, NEW T, Narrows(T), NEW f, Halves(f, T, E), NEW R, NEW W, EndsIn(T, E, R, W)
  PROVE  \A b \in R : f[b] \in W
<1> USE DEF EndsIn
<1> DEFINE m == [b \in R |-> Width[b]]
<1>1. m \in [R -> Nat]
  <2>1. \A b \in R : Width[b] \in Nat
    BY DEF Bounds, Width
  <2> QED
    BY <2>1
<1>2. ASSUME NEW b \in R, \A c \in R : m[c] < m[b] => f[c] \in W
      PROVE  f[b] \in W
  <2>1. CASE T[b] = "end"
    BY <2>1 DEF Halves
  <2>2. CASE T[b] = "upper"
    <3>1. Upper(b) \in R /\ Width[Upper(b)] < Width[b]
      BY <2>2, HalfIsSmaller DEF Narrows
    <3>2. f[b] = f[Upper(b)]
      BY <2>2 DEF Halves
    <3> QED
      BY <1>2, <3>1, <3>2
  <2>3. CASE T[b] = "lower"
    <3>1. Lower(b) \in R /\ Width[Lower(b)] < Width[b]
      BY <2>3, HalfIsSmaller DEF Narrows
    <3>2. f[b] = f[Lower(b)]
      BY <2>3 DEF Halves
    <3> QED
      BY <1>2, <3>1, <3>2
  <2>4. T[b] \in Turns
    BY DEF Narrows
  <2> QED
    BY <2>1, <2>2, <2>3, <2>4 DEF Turns
<1> HIDE DEF m
<1> QED
  BY <1>1, <1>2, ByMeasure

-----------------------------------------------------------------------------
(* Trying.                                                                 *)

\* f tries from i on: it ends with the value of the first that is good.
Tries(f, n, good, value) ==
  \A i \in 1 .. n + 1 : f[i] = IF i > n THEN None ELSE IF good[i] THEN value[i] ELSE f[i + 1]

\* Trying has a value at every try.
LEMMA TriesSolved ==
  ASSUME NEW n \in Nat, NEW good, NEW value
  PROVE  \E f \in [1 .. n + 1 -> {None} \cup {value[i] : i \in 1 .. n}] : Tries(f, n, good, value)
<1> DEFINE D == 1 .. n + 1
           V == {None} \cup {value[i] : i \in 1 .. n}
           m == [i \in D |-> n + 1 - i]
           G == [p \in D \X [D -> V] |->
                   IF p[1] > n THEN None ELSE IF good[p[1]] THEN value[p[1]] ELSE p[2][p[1] + 1]]
<1>1. V # {} /\ m \in [D -> Nat]
  OBVIOUS
<1>2. ASSUME NEW i \in D, NEW f \in [D -> V]
      PROVE  /\ G[<<i, f>>] = IF i > n THEN None ELSE IF good[i] THEN value[i] ELSE f[i + 1]
             /\ G[<<i, f>>] \in V
             /\ ~(i > n) => i + 1 \in D /\ m[i + 1] < m[i]
  <2>1. <<i, f>> \in D \X [D -> V] /\ <<i, f>>[1] = i /\ <<i, f>>[2] = f
    OBVIOUS
  <2>2. ~(i > n) => i \in 1 .. n /\ i + 1 \in D /\ m[i + 1] < m[i]
    OBVIOUS
  <2>3. None \in V /\ (i \in 1 .. n => value[i] \in V) /\ (i + 1 \in D => f[i + 1] \in V)
    <3>1. None \in V /\ (i \in 1 .. n => value[i] \in V)
      OBVIOUS
    <3> HIDE DEF V, D
    <3> QED
      BY <3>1
  <2> HIDE DEF D, V, m
  <2>4. G[<<i, f>>] = IF i > n THEN None ELSE IF good[i] THEN value[i] ELSE f[i + 1]
    BY <2>1
  <2> HIDE DEF G
  <2> QED
    BY <2>2, <2>3, <2>4
<1>3. G \in [D \X [D -> V] -> V]
  <2>1. ASSUME NEW p \in D \X [D -> V]
        PROVE  G[p] \in V
    <3>1. p = <<p[1], p[2]>> /\ p[1] \in D /\ p[2] \in [D -> V]
      OBVIOUS
    <3> HIDE DEF G, D, V
    <3> QED
      BY <1>2, <3>1
  <2>2. G = [p \in D \X [D -> V] |-> G[p]]
    OBVIOUS
  <2> HIDE DEF G, D, V
  <2> QED
    BY <2>1, <2>2
<1> HIDE DEF G, D, V, m
<1>4. Earlier(D, V, G, m)
  <2> SUFFICES ASSUME NEW i \in D, NEW f \in [D -> V], NEW g \in [D -> V],
                      \A k \in D : m[k] < m[i] => f[k] = g[k]
               PROVE  G[<<i, f>>] = G[<<i, g>>]
    BY DEF Earlier
  <2>1. ~(i > n) => f[i + 1] = g[i + 1]
    BY <1>2
  <2>2. /\ G[<<i, f>>] = IF i > n THEN None ELSE IF good[i] THEN value[i] ELSE f[i + 1]
        /\ G[<<i, g>>] = IF i > n THEN None ELSE IF good[i] THEN value[i] ELSE g[i + 1]
    BY <1>2
  <2> QED
    BY <2>1, <2>2
<1>5. PICK f \in [D -> V] : \A i \in D : f[i] = G[<<i, f>>]
  <2>1. Recursive(D, V, G, m)
    BY <1>1, <1>3, <1>4 DEF Recursive
  <2> QED
    BY <2>1, Recursion DEF Solvable
<1>6. Tries(f, n, good, value)
  BY <1>2, <1>5 DEF Tries, D
<1> QED
  BY <1>5, <1>6 DEF D, V

\* Trying yields the first good value, or None when no try is good.
LEMMA TriesFind ==
  ASSUME NEW n \in Nat, NEW good, NEW value, NEW f, Tries(f, n, good, value)
  PROVE  \/ \E k \in 1 .. n : good[k] /\ f[1] = value[k] /\ \A i \in 1 .. k - 1 : ~good[i]
         \/ f[1] = None /\ \A k \in 1 .. n : ~good[k]
<1> DEFINE Ends == {k \in 1 .. n + 1 : k > n \/ good[k]}
<1>1. PICK k \in Ends : \A i \in Ends : k <= i
  <2>1. Ends \in SUBSET Nat /\ n + 1 \in Ends
    OBVIOUS
  <2> HIDE DEF Ends
  <2> QED
    BY <2>1, NatLeast
<1>2. k \in 1 .. n + 1 /\ k \in Nat /\ \A i \in 1 .. k - 1 : i \in 1 .. n /\ ~good[i]
  BY <1>1
\* Up to the first end every value is the next one's.
<1>3. f[1] = f[k]
  <2> DEFINE Wrong == {i \in 1 .. k : f[1] # f[i]}
  <2> SUFFICES ASSUME Wrong # {} PROVE FALSE
    BY <1>2
  <2>1. PICK i \in Wrong : \A j \in Wrong : i <= j
    <3>1. Wrong \in SUBSET Nat
      BY <1>2
    <3> HIDE DEF Wrong
    <3> QED
      BY <3>1, NatLeast
  <2>2. i \in 1 .. k /\ i # 1 /\ i - 1 \in 1 .. k - 1 /\ i - 1 \notin Wrong
    BY <1>2, <2>1
  <2>3. f[1] = f[i - 1]
    BY <1>2, <2>2
  <2> DEFINE j == i - 1
  <2>4. j \in 1 .. n + 1 /\ ~(j > n) /\ ~good[j] /\ j + 1 = i
    BY <1>2, <2>2
  <2>5. f[j] = f[j + 1]
    <3> HIDE DEF j
    <3> QED
      BY <2>4 DEF Tries
  <2> QED
    BY <2>1, <2>3, <2>4, <2>5
<1>4. CASE k > n
  <2>1. f[k] = None
    BY <1>2, <1>4 DEF Tries
  <2>2. \A i \in 1 .. n : ~good[i]
    BY <1>2, <1>4
  <2> QED
    BY <1>3, <2>1, <2>2
<1>5. CASE ~(k > n)
  <2>1. k \in 1 .. n /\ good[k]
    BY <1>1, <1>5
  <2>2. f[k] = value[k]
    BY <1>2, <1>5, <2>1 DEF Tries
  <2> QED
    BY <1>2, <1>3, <2>1, <2>2
<1> QED
  BY <1>4, <1>5

-----------------------------------------------------------------------------
(* Sequences joined.                                                       *)

\* s holds the elements of the first n sequences of ss, each at one place.
Spells(s, ss, n, pos) ==
  /\ pos \in [DOMAIN s -> Nat \X Nat]
  /\ \A k \in DOMAIN s :
       /\ pos[k][1] \in 1..n /\ pos[k][2] \in DOMAIN ss[pos[k][1]]
       /\ s[k] = ss[pos[k][1]][pos[k][2]]
  /\ \A k, l \in DOMAIN s : pos[k] = pos[l] => k = l
  /\ \A i \in 1..n : \A j \in DOMAIN ss[i] : \E k \in DOMAIN s : pos[k] = <<i, j>>

\* One sequence spells itself.
LEMMA SpellOne ==
  ASSUME NEW S, NEW ss \in Seq(Seq(S)), Len(ss) # 0
  PROVE  ss[1] \in Seq(S) /\ \E pos : Spells(ss[1], ss, 1, pos)
<1> DEFINE s == ss[1]
           pos == [k \in DOMAIN s |-> <<1, k>>]
<1>1. s \in Seq(S)
  OBVIOUS
<1>2. \A k \in DOMAIN s : k \in Nat
  BY <1>1
<1> HIDE DEF s
<1>3. pos \in [DOMAIN s -> Nat \X Nat]
  BY <1>2
<1>4. \A k \in DOMAIN s : pos[k][1] = 1 /\ pos[k][2] = k /\ pos[k] = <<1, k>>
  OBVIOUS
<1> HIDE DEF pos
<1>5. Spells(s, ss, 1, pos)
  BY <1>3, <1>4 DEF Spells, s
<1> QED
  BY <1>1, <1>5 DEF s

\* What spells n sequences, with the next one appended, spells n + 1.
LEMMA SpellNext ==
  ASSUME NEW S, NEW ss \in Seq(Seq(S)), NEW n \in Nat, n + 1 \in DOMAIN ss,
         NEW s \in Seq(S), NEW pos, Spells(s, ss, n, pos)
  PROVE  s \o ss[n + 1] \in Seq(S) /\ \E q : Spells(s \o ss[n + 1], ss, n + 1, q)
<1> DEFINE t == ss[n + 1]
           u == s \o t
           q == [k \in DOMAIN u |-> IF k \in DOMAIN s THEN pos[k] ELSE <<n + 1, k - Len(s)>>]
<1>1. t \in Seq(S)
  OBVIOUS
<1> HIDE DEF t
<1>2. /\ u \in Seq(S) /\ Len(u) = Len(s) + Len(t) /\ Len(s) \in Nat /\ Len(t) \in Nat
      /\ DOMAIN u = 1..Len(s) + Len(t) /\ DOMAIN s = 1..Len(s) /\ DOMAIN t = 1..Len(t)
  BY <1>1
<1>3. \A k \in DOMAIN u : u[k] = IF k \in DOMAIN s THEN s[k] ELSE t[k - Len(s)]
  BY <1>1
<1> HIDE DEF u
<1>4. \A k \in DOMAIN u : k \notin DOMAIN s => k - Len(s) \in DOMAIN t /\ k - Len(s) \in Nat
  BY <1>2
<1>5. pos \in [DOMAIN s -> Nat \X Nat]
  BY DEF Spells
<1>6. q \in [DOMAIN u -> Nat \X Nat]
  BY <1>2, <1>4, <1>5
<1>7. \A k \in DOMAIN u : q[k] = IF k \in DOMAIN s THEN pos[k] ELSE <<n + 1, k - Len(s)>>
  OBVIOUS
<1> HIDE DEF q
<1>8. ASSUME NEW k \in DOMAIN u
      PROVE  /\ q[k][1] \in 1..n + 1 /\ q[k][2] \in DOMAIN ss[q[k][1]]
             /\ u[k] = ss[q[k][1]][q[k][2]]
  <2>1. CASE k \in DOMAIN s
    <3>1. q[k] = pos[k] /\ u[k] = s[k]
      BY <1>3, <1>7, <2>1
    <3>2. /\ pos[k][1] \in 1..n /\ pos[k][2] \in DOMAIN ss[pos[k][1]]
          /\ s[k] = ss[pos[k][1]][pos[k][2]]
      BY <2>1 DEF Spells
    <3>3. pos[k][1] \in 1..n + 1
      BY <3>2
    <3> QED
      BY <3>1, <3>2, <3>3
  <2>2. CASE k \notin DOMAIN s
    <3>1. q[k] = <<n + 1, k - Len(s)>>
      BY <1>7, <2>2
    <3>2. u[k] = t[k - Len(s)] /\ k - Len(s) \in DOMAIN t
      BY <1>3, <1>4, <2>2
    <3>3. n + 1 \in 1..n + 1
      OBVIOUS
    <3> QED
      BY <3>1, <3>2, <3>3 DEF t
  <2> QED
    BY <2>1, <2>2
<1>9. ASSUME NEW k \in DOMAIN u, NEW l \in DOMAIN u, q[k] = q[l]
      PROVE  k = l
  <2>1. \A i \in DOMAIN s : pos[i] \in Nat \X Nat /\ pos[i][1] \in 1..n
    BY DEF Spells
  <2>2. CASE k \in DOMAIN s /\ l \in DOMAIN s
    <3>1. pos[k] = pos[l]
      BY <1>7, <1>9, <2>2
    <3> QED
      BY <2>2, <3>1 DEF Spells
  <2>3. CASE k \notin DOMAIN s /\ l \notin DOMAIN s
    <3>1. <<n + 1, k - Len(s)>> = <<n + 1, l - Len(s)>>
      BY <1>7, <1>9, <2>3
    <3>2. k - Len(s) = l - Len(s) /\ k \in Nat /\ l \in Nat
      BY <1>2, <3>1
    <3> QED
      BY <1>2, <3>2
  <2>4. CASE ~(k \in DOMAIN s <=> l \in DOMAIN s)
    <3>1. \E i \in DOMAIN s : \E x : pos[i] = <<n + 1, x>>
      BY <1>7, <1>9, <2>4
    <3> QED
      BY <2>1, <3>1
  <2> QED
    BY <2>2, <2>3, <2>4
<1>10. ASSUME NEW i \in 1..n + 1, NEW j \in DOMAIN ss[i]
       PROVE  \E k \in DOMAIN u : q[k] = <<i, j>>
  <2>1. CASE i = n + 1
    <3>1. j \in DOMAIN t
      BY <2>1 DEF t
    <3>2. j + Len(s) \in DOMAIN u /\ j + Len(s) \notin DOMAIN s /\ (j + Len(s)) - Len(s) = j
      BY <1>2, <3>1
    <3> QED
      BY <1>7, <2>1, <3>2
  <2>2. CASE i # n + 1
    <3>1. i \in 1..n
      BY <2>2
    <3>2. PICK k \in DOMAIN s : pos[k] = <<i, j>>
      BY <3>1 DEF Spells
    <3>3. k \in DOMAIN u
      BY <1>2
    <3> QED
      BY <1>7, <3>2, <3>3
  <2> QED
    BY <2>1, <2>2
<1>11. Spells(u, ss, n + 1, q)
  BY <1>6, <1>8, <1>9, <1>10 DEF Spells
<1> QED
  BY <1>2, <1>11 DEF u, t

\* What the library defines: the last of the sequences joined one by one.
LEMMA FlattenIs ==
  ASSUME NEW S, NEW ss \in Seq(Seq(S)), Len(ss) # 0
  PROVE  FlattenSeq(ss) =
           (CHOOSE flats : flats = [i \in 1..Len(ss) |->
              IF i = 1 THEN ss[i] ELSE flats[i - 1] \o ss[i]])[Len(ss)]
BY DEF FlattenSeq

\* The equation FlattenSeq chooses a solution of has one.
LEMMA FlattenExists ==
  ASSUME NEW S, NEW ss \in Seq(Seq(S))
  PROVE  \E flats : flats = [i \in 1..Len(ss) |-> IF i = 1 THEN ss[i] ELSE flats[i - 1] \o ss[i]]
<1> DEFINE D == 1..Len(ss)
           V == Seq(S)
           m == [i \in D |-> i]
           G == [p \in D \X [D -> V] |-> IF p[1] = 1 THEN ss[p[1]] ELSE p[2][p[1] - 1] \o ss[p[1]]]
<1>1. V # {} /\ m \in [D -> Nat]
  OBVIOUS
<1>2. ASSUME NEW i \in D, NEW f \in [D -> V]
      PROVE  /\ G[<<i, f>>] = IF i = 1 THEN ss[i] ELSE f[i - 1] \o ss[i]
             /\ G[<<i, f>>] \in V
             /\ i # 1 => i - 1 \in D /\ m[i - 1] < m[i]
  <2>1. i # 1 => i - 1 \in D
    OBVIOUS
  <2>2. ss[i] \in V /\ (i # 1 => f[i - 1] \in V)
    <3>1. i \in DOMAIN ss
      OBVIOUS
    <3>2. ss[i] \in V
      BY <3>1
    <3> HIDE DEF V, D
    <3> QED
      BY <2>1, <3>2
  <2>3. <<i, f>> \in D \X [D -> V] /\ <<i, f>>[1] = i /\ <<i, f>>[2] = f
    OBVIOUS
  <2>4. G[<<i, f>>] = IF i = 1 THEN ss[i] ELSE f[i - 1] \o ss[i]
    <3> HIDE DEF D, V
    <3> QED
      BY <2>3
  <2>5. i # 1 => m[i - 1] < m[i]
    BY <2>1
  <2> QED
    BY <2>1, <2>2, <2>4, <2>5
<1>3. G \in [D \X [D -> V] -> V]
  <2>1. \A p \in D \X [D -> V] : G[p] \in V
    <3> SUFFICES ASSUME NEW p \in D \X [D -> V] PROVE G[p] \in V
      OBVIOUS
    <3>1. p = <<p[1], p[2]>> /\ p[1] \in D /\ p[2] \in [D -> V]
      OBVIOUS
    <3> HIDE DEF G, D, V
    <3> QED
      BY <1>2, <3>1
  <2>2. DOMAIN G = D \X [D -> V] /\ G = [p \in DOMAIN G |-> G[p]]
    OBVIOUS
  <2> HIDE DEF G, D, V
  <2> QED
    BY <2>1, <2>2
<1>4. Earlier(D, V, G, m)
  <2> HIDE DEF G, D, V, m
  <2> SUFFICES ASSUME NEW i \in D, NEW f \in [D -> V], NEW g \in [D -> V],
                      \A k \in D : m[k] < m[i] => f[k] = g[k]
               PROVE  G[<<i, f>>] = G[<<i, g>>]
    BY DEF Earlier
  <2>1. i # 1 => f[i - 1] = g[i - 1]
    BY <1>2
  <2>2. G[<<i, f>>] = IF i = 1 THEN ss[i] ELSE f[i - 1] \o ss[i]
    BY <1>2
  <2>3. G[<<i, g>>] = IF i = 1 THEN ss[i] ELSE g[i - 1] \o ss[i]
    BY <1>2
  <2> QED
    BY <2>1, <2>2, <2>3
<1>5. PICK f \in [D -> V] : \A i \in D : f[i] = G[<<i, f>>]
  <2> HIDE DEF G, D, V, m
  <2>1. Recursive(D, V, G, m)
    BY <1>1, <1>3, <1>4 DEF Recursive
  <2>2. Solvable(D, V, G)
    BY <2>1, Recursion
  <2> QED
    BY <2>2 DEF Solvable
<1>6. \A i \in D : f[i] = IF i = 1 THEN ss[i] ELSE f[i - 1] \o ss[i]
  <2> HIDE DEF G, D, V, m
  <2> QED
    BY <1>2, <1>5
<1>7. f = [i \in D |-> IF i = 1 THEN ss[i] ELSE f[i - 1] \o ss[i]]
  <2> HIDE DEF G, D, V, m
  <2> QED
    BY <1>6
<1> QED
  BY <1>7

\* What FlattenSeq makes of a sequence of sequences.
LEMMA Flatten ==
  ASSUME NEW S, NEW ss \in Seq(Seq(S))
  PROVE  FlattenSeq(ss) \in Seq(S) /\ \E pos : Spells(FlattenSeq(ss), ss, Len(ss), pos)
<1>1. CASE Len(ss) = 0
  <2>1. FlattenSeq(ss) = <<>>
    BY <1>1 DEF FlattenSeq
  <2>2. Spells(<<>>, ss, 0, <<>>)
    BY DEF Spells
  <2> QED
    BY <1>1, <2>1, <2>2
<1>2. CASE Len(ss) # 0
  <2> DEFINE F == CHOOSE flats : flats = [i \in 1..Len(ss) |->
                                   IF i = 1 THEN ss[i] ELSE flats[i - 1] \o ss[i]]
             OK(n) == F[n] \in Seq(S) /\ \E pos : Spells(F[n], ss, n, pos)
             Bad == {n \in 1..Len(ss) : ~OK(n)}
  <2>1. F = [i \in 1..Len(ss) |-> IF i = 1 THEN ss[i] ELSE F[i - 1] \o ss[i]]
    BY FlattenExists
  <2>2. FlattenSeq(ss) = F[Len(ss)]
    BY <1>2, FlattenIs
  <2> HIDE DEF F
  <2>3. OK(1)
    <3>1. F[1] = ss[1]
      BY <1>2, <2>1
    <3> QED
      BY <1>2, <3>1, SpellOne
  <2>4. ASSUME NEW n \in 1..Len(ss), n # 1, OK(n - 1)
        PROVE  OK(n)
    <3>1. n - 1 \in Nat /\ (n - 1) + 1 = n /\ n \in DOMAIN ss
      OBVIOUS
    <3>2. F[n] = F[n - 1] \o ss[n]
      BY <2>1, <2>4
    <3>3. F[n - 1] \in Seq(S)
      BY <2>4
    <3>4. PICK pos : Spells(F[n - 1], ss, n - 1, pos)
      BY <2>4
    <3> DEFINE k == n - 1
    <3>6. k \in Nat /\ k + 1 = n /\ k + 1 \in DOMAIN ss /\ F[k] \in Seq(S) /\ Spells(F[k], ss, k, pos)
      BY <3>1, <3>3, <3>4
    <3> HIDE DEF k
    <3>7. F[k] \o ss[k + 1] \in Seq(S) /\ \E q : Spells(F[k] \o ss[k + 1], ss, k + 1, q)
      BY <3>6, SpellNext
    <3>8. k + 1 = n /\ F[n] = F[k] \o ss[k + 1]
      BY <3>1, <3>2 DEF k
    <3> QED
      BY <3>7, <3>8
  <2>5. Bad = {}
    <3> SUFFICES ASSUME Bad # {} PROVE FALSE
      OBVIOUS
    <3>1. PICK n \in Bad : \A k \in Bad : n <= k
      <4>1. Bad \in SUBSET Nat
        OBVIOUS
      <4> HIDE DEF Bad
      <4> QED
        BY <4>1, NatLeast
    <3>2. n \in 1..Len(ss) /\ n # 1
      BY <2>3
    <3>3. n - 1 \in 1..Len(ss) /\ n - 1 < n
      BY <3>2
    <3> HIDE DEF OK
    <3>4. OK(n - 1)
      BY <3>1, <3>3
    <3> QED
      BY <2>4, <3>1, <3>2, <3>4
  <2>6. Len(ss) \in 1..Len(ss)
    BY <1>2
  <2>7. OK(Len(ss))
    <3> HIDE DEF OK
    <3> QED
      BY <2>5, <2>6
  <2> QED
    BY <2>2, <2>7
<1> QED
  BY <1>1, <1>2

\* A sequence that lists the elements of S, each once.
Lists(s, S) ==
  /\ s \in Seq(S)
  /\ \A a \in S : \E k \in DOMAIN s : s[k] = a
  /\ \A k, l \in DOMAIN s : s[k] = s[l] => k = l

\* Lists of sets that are apart, joined, list their union.
LEMMA ListsJoined ==
  ASSUME NEW n \in Nat, NEW ss, DOMAIN ss = 1 .. n, NEW P,
         \A i \in 1 .. n : Lists(ss[i], P[i]),
         \A i, j \in 1 .. n : i # j => P[i] \cap P[j] = {},
         ss = [i \in 1 .. n |-> ss[i]]
  PROVE  Lists(FlattenSeq(ss), UNION {P[i] : i \in 1 .. n})
<1> DEFINE S == UNION {P[i] : i \in 1 .. n}
           s == FlattenSeq(ss)
<1>1. ss \in Seq(Seq(S)) /\ Len(ss) = n
  <2>1. \A i \in 1 .. n : ss[i] \in Seq(S)
    <3> SUFFICES ASSUME NEW i \in 1 .. n PROVE ss[i] \in Seq(S)
      OBVIOUS
    <3>1. P[i] \subseteq S
      OBVIOUS
    <3>2. ss[i] \in Seq(P[i])
      BY DEF Lists
    <3> HIDE DEF S
    <3> QED
      BY <3>1, <3>2
  <2> HIDE DEF S
  <2>2. ss \in [1 .. n -> Seq(S)]
    BY <2>1
  <2> QED
    BY <2>2
<1>2. s \in Seq(S)
  <2> HIDE DEF S
  <2> QED
    BY <1>1, Flatten
<1>3. PICK pos : Spells(s, ss, n, pos)
  <2> HIDE DEF S
  <2> QED
    BY <1>1, Flatten
<1> HIDE DEF s
<1>4. ASSUME NEW k \in DOMAIN s
      PROVE  /\ pos[k][1] \in 1 .. n /\ pos[k][2] \in DOMAIN ss[pos[k][1]]
             /\ s[k] = ss[pos[k][1]][pos[k][2]] /\ pos[k] = <<pos[k][1], pos[k][2]>>
  BY <1>3 DEF Spells
<1>5. ASSUME NEW i \in 1 .. n, NEW j \in DOMAIN ss[i]
      PROVE  ss[i][j] \in P[i]
  <2> DEFINE t == ss[i]
  <2>1. t \in Seq(P[i])
    BY DEF Lists
  <2> HIDE DEF t
  <2>2. \A l \in DOMAIN t : t[l] \in P[i]
    BY <2>1
  <2> QED
    BY <2>2 DEF t
<1>6. ASSUME NEW a \in S
      PROVE  \E k \in DOMAIN s : s[k] = a
  <2>1. PICK i \in 1 .. n : a \in P[i]
    OBVIOUS
  <2>2. PICK j \in DOMAIN ss[i] : ss[i][j] = a
    BY <2>1 DEF Lists
  <2>3. PICK k \in DOMAIN s : pos[k] = <<i, j>>
    BY <1>3 DEF Spells
  <2> QED
    BY <1>4, <2>2, <2>3
<1>7. ASSUME NEW k \in DOMAIN s, NEW l \in DOMAIN s, s[k] = s[l]
      PROVE  k = l
  <2> DEFINE i == pos[k][1]
             j == pos[k][2]
             h == pos[l][1]
             g == pos[l][2]
  <2>1. /\ i \in 1 .. n /\ j \in DOMAIN ss[i] /\ h \in 1 .. n /\ g \in DOMAIN ss[h]
        /\ ss[i][j] = ss[h][g] /\ pos[k] = <<i, j>> /\ pos[l] = <<h, g>>
    BY <1>4, <1>7
  <2> HIDE DEF i, j, h, g
  <2>2. ss[i][j] \in P[i] /\ ss[h][g] \in P[h]
    BY <1>5, <2>1
  <2>3. i = h
    BY <2>1, <2>2
  <2>4. j = g
    BY <2>1, <2>3 DEF Lists
  <2>5. pos[k] = pos[l]
    BY <2>1, <2>3, <2>4
  <2> QED
    BY <1>3, <2>5 DEF Spells
<1> HIDE DEF S
<1>8. Lists(s, S)
  BY <1>2, <1>6, <1>7 DEF Lists
<1> QED
  BY <1>8 DEF s, S

-----------------------------------------------------------------------------
(* The root.                                                               *)

\* One digit: the largest that fits, or none.
LEMMA RefinedType ==
  ASSUME NEW n, NEW r \in Nat, NEW place \in Nat
  PROVE  /\ Refined(n, r, place) \in Nat
         /\ \E k \in 0..5 : /\ Refined(n, r, place) = r + k * place
                            /\ k = 0 \/ SquareFits(n, r + k * place)
                            /\ k = 5 \/ ~SquareFits(n, r + (k + 1) * place)
<1> DEFINE K == {0} \cup {k \in 1..5 : SquareFits(n, r + k * place)}
<1>1. K \in SUBSET Int /\ K # {} /\ K \in SUBSET (0..5) /\ 0 \in K
  OBVIOUS
<1>2. IsFiniteSet(K)
  <2>1. IsFiniteSet(0..5)
    <3>1. 0 \in Int /\ 5 \in Int
      OBVIOUS
    <3> QED
      BY ONLY <3>1, FS_Interval
  <2> HIDE DEF K
  <2> QED
    BY <1>1, <2>1, FS_Subset
<1>3. Max(K) \in K /\ \A k \in K : k <= Max(K)
  <2> HIDE DEF K
  <2> QED
    BY <1>1, <1>2, MaxOf
<1> DEFINE k == Max(K)
<1>4. k \in 0..5 /\ (k = 0 \/ SquareFits(n, r + k * place))
  BY <1>3
<1>5. k # 5 => ~SquareFits(n, r + (k + 1) * place)
  <2> SUFFICES ASSUME k # 5, SquareFits(n, r + (k + 1) * place) PROVE FALSE
    OBVIOUS
  <2>1. k + 1 \in K
    BY <1>4
  <2> QED
    BY <1>3, <1>4, <2>1
<1>6. Refined(n, r, place) = r + place * k
  BY DEF Refined
<1> HIDE DEF k, K
<1>7. r + place * k = r + k * place /\ r + place * k \in Nat
  BY <1>4
<1> QED
  BY <1>4, <1>5, <1>6, <1>7

\* A root is a natural number.
LEMMA RootType ==
  ASSUME NEW n
  PROVE  Root(n) \in Nat
<1> DEFINE a == Refined(n, 0, 7776)
           b == Refined(n, a, 1296)
           c == Refined(n, b, 216)
           d == Refined(n, c, 36)
           e == Refined(n, d, 6)
           x == Refined(n, e, 1)
<1>1. Root(n) = x
  BY DEF Root
<1>2. a \in Nat
  BY RefinedType
<1> HIDE DEF a
<1>3. b \in Nat
  BY <1>2, RefinedType
<1> HIDE DEF b
<1>4. c \in Nat
  BY <1>3, RefinedType
<1> HIDE DEF c
<1>5. d \in Nat
  BY <1>4, RefinedType
<1> HIDE DEF d
<1>6. e \in Nat
  BY <1>5, RefinedType
<1> HIDE DEF e
<1>7. x \in Nat
  BY <1>6, RefinedType
<1> HIDE DEF x
<1> QED
  BY <1>1, <1>7

\* A digit leaves less than its place: what fits below six times the place
\* fits, after it, below the place.
LEMMA RefinedFits ==
  ASSUME NEW n \in Nat, NEW r \in Nat, NEW place \in Nat,
         SquareFits(n, r), ~SquareFits(n, r + 6 * place)
  PROVE  /\ Refined(n, r, place) \in Nat
         /\ SquareFits(n, Refined(n, r, place)) /\ ~SquareFits(n, Refined(n, r, place) + place)
<1>1. PICK k \in 0..5 : /\ Refined(n, r, place) = r + k * place
                        /\ k = 0 \/ SquareFits(n, r + k * place)
                        /\ k = 5 \/ ~SquareFits(n, r + (k + 1) * place)
  BY RefinedType
<1>2. (r + k * place) + place = r + (k + 1) * place /\ (k = 0 => r + k * place = r)
      /\ (k = 5 => r + (k + 1) * place = r + 6 * place)
  OBVIOUS
<1> QED
  BY <1>1, <1>2, RefinedType

\* The distances of the model are exact: Root is the integer part of the
\* square root, for every number whose root can be as large as RootLimit.
THEOREM RootIsExact ==
  ASSUME NEW n \in Nat, n < Square(RootLimit + 1)
  PROVE  Root(n) \in Nat /\ Square(Root(n)) <= n /\ n < Square(Root(n) + 1)
<1> DEFINE a == Refined(n, 0, 7776)
           b == Refined(n, a, 1296)
           c == Refined(n, b, 216)
           d == Refined(n, c, 36)
           e == Refined(n, d, 6)
           x == Refined(n, e, 1)
<1>1. Root(n) = x
  BY DEF Root
<1>2. a \in Nat /\ SquareFits(n, a) /\ ~SquareFits(n, a + 6 * 1296)
  <2>1. SquareFits(n, 0) /\ ~SquareFits(n, 0 + 6 * 7776)
    BY DEF SquareFits, Square, RootLimit
  <2>2. a \in Nat /\ SquareFits(n, a) /\ ~SquareFits(n, a + 7776)
    BY <2>1, RefinedFits
  <2> QED
    BY <2>2
<1> HIDE DEF a
<1>3. b \in Nat /\ SquareFits(n, b) /\ ~SquareFits(n, b + 6 * 216)
  <2>1. b \in Nat /\ SquareFits(n, b) /\ ~SquareFits(n, b + 1296)
    BY <1>2, RefinedFits
  <2> QED
    BY <2>1
<1> HIDE DEF b
<1>4. c \in Nat /\ SquareFits(n, c) /\ ~SquareFits(n, c + 6 * 36)
  <2>1. c \in Nat /\ SquareFits(n, c) /\ ~SquareFits(n, c + 216)
    BY <1>3, RefinedFits
  <2> QED
    BY <2>1
<1> HIDE DEF c
<1>5. d \in Nat /\ SquareFits(n, d) /\ ~SquareFits(n, d + 6 * 6)
  <2>1. d \in Nat /\ SquareFits(n, d) /\ ~SquareFits(n, d + 36)
    BY <1>4, RefinedFits
  <2> QED
    BY <2>1
<1> HIDE DEF d
<1>6. e \in Nat /\ SquareFits(n, e) /\ ~SquareFits(n, e + 6 * 1)
  <2>1. e \in Nat /\ SquareFits(n, e) /\ ~SquareFits(n, e + 6)
    BY <1>5, RefinedFits
  <2> QED
    BY <2>1
<1> HIDE DEF e
<1>7. x \in Nat /\ SquareFits(n, x) /\ ~SquareFits(n, x + 1)
  BY <1>6, RefinedFits
<1> HIDE DEF x
<1>8. CASE x + 1 > RootLimit
  <2>1. x = RootLimit
    BY <1>7, <1>8 DEF SquareFits, RootLimit
  <2> QED
    BY <1>7, <1>1, <2>1 DEF SquareFits
<1>9. CASE x + 1 <= RootLimit
  <2>1. ~(Square(x + 1) <= n) /\ Square(x + 1) \in Int
    BY <1>7, <1>9 DEF SquareFits, Square
  <2> QED
    BY <1>7, <1>1, <2>1 DEF SquareFits
<1> QED
  BY <1>7, <1>8, <1>9 DEF RootLimit

\* So is a distance.
LEMMA DistanceType ==
  ASSUME NEW p, NEW o
  PROVE  Distance(p, o) \in Nat
BY RootType DEF Distance

-----------------------------------------------------------------------------
(* The disk.                                                               *)

\* A node whose centre is in the disk around the origin.
InDisk(d, radius, a) ==
  Square(d) * (Square(a.q) + a.q * a.r + Square(a.r)) <= Square(radius)

\* Of two natural numbers the one with the larger square is larger.
LEMMA SquareRises ==
  ASSUME NEW x \in Nat, NEW y \in Nat, Square(x) <= Square(y)
  PROVE  x <= y
<1> SUFFICES ASSUME x > y PROVE FALSE
  OBVIOUS
<1>1. x \in Nat /\ y \in Nat /\ x >= y + 1
  OBVIOUS
<1>2. (y + 1) * (y + 1) = y * y + 2 * y + 1
  OBVIOUS
<1>3. x * x >= (y + 1) * (y + 1)
  <2>1. x * x >= x * (y + 1)
    BY <1>1
  <2>2. x * (y + 1) >= (y + 1) * (y + 1)
    BY <1>1
  <2> QED
    BY <2>1, <2>2
<1>4. y * y \in Int /\ x * x \in Int
  OBVIOUS
<1> QED
  BY <1>2, <1>3, <1>4 DEF Square

\* How far from the origin a node of the disk can be, in rows and columns.
LEMMA DiskReach ==
  ASSUME NEW d \in Nat \ {0}, NEW radius \in Nat, NEW u \in Int, NEW v \in Int,
         Square(d) * (Square(u) + u * v + Square(v)) <= Square(radius)
  PROVE  u \in -((2 * radius) \div d) .. (2 * radius) \div d
<1> DEFINE w == IF u >= 0 THEN u ELSE -u
           k == (2 * radius) \div d
           form == Square(u) + u * v + Square(v)
<1>1. w \in Nat /\ Square(w) = Square(u)
  BY DEF Square
<1>2. Square(w) <= 4 * form /\ form \in Int
  <2>1. 4 * form = Square(2 * v + u) + 3 * Square(u)
    BY DEF Square
  <2>2. Square(2 * v + u) \in Nat /\ Square(u) \in Nat
    BY DEF Square
  <2>3. form \in Int
    BY DEF Square
  <2> HIDE DEF form
  <2> QED
    BY <1>1, <2>1, <2>2, <2>3
<1>3. Square(d * w) <= Square(2 * radius)
  <2>1. Square(d * w) = Square(d) * Square(w) /\ Square(2 * radius) = 4 * Square(radius)
    BY <1>1 DEF Square
  <2>2. Square(d) \in Nat /\ Square(w) \in Nat /\ Square(radius) \in Nat
    BY <1>1 DEF Square
  <2> DEFINE a == Square(d)
             b == Square(w)
             c == Square(radius)
  <2>3. a \in Nat /\ b \in Nat /\ c \in Nat /\ a * form <= c /\ b <= 4 * form
    BY <1>2, <2>2
  <2> HIDE DEF a, b, c, form
  <2>4. a * b <= a * (4 * form)
    BY <1>2, <2>3
  <2>5. a * (4 * form) = 4 * (a * form) /\ a * form \in Int
    BY <1>2, <2>3
  <2>6. a * b <= 4 * c
    BY <1>2, <2>3, <2>4, <2>5
  <2> QED
    BY <2>1, <2>6 DEF a, b, c
<1>4. d * w <= 2 * radius
  <2>1. d * w \in Nat /\ 2 * radius \in Nat
    BY <1>1
  <2> QED
    BY <1>3, <2>1, SquareRises
<1>5. k \in Nat /\ 2 * radius < d * (k + 1)
  OBVIOUS
<1> HIDE DEF w, k
<1>6. w <= k
  <2> SUFFICES ASSUME w >= k + 1 PROVE FALSE
    BY <1>1, <1>5
  <2>1. d * w >= d * (k + 1)
    BY <1>1, <1>5
  <2>2. d * w \in Int /\ d * (k + 1) \in Int
    BY <1>1, <1>5
  <2> QED
    BY <1>4, <1>5, <2>1, <2>2
<1>7. u \in -k .. k
  BY <1>1, <1>5, <1>6 DEF w
<1> QED
  BY <1>7 DEF k

\* The sites of a run stand on the nodes of the disk, on each once
\* (HexGrid.Cover): none is left out, none is counted twice.
THEOREM CoverIsDisk ==
  ASSUME NEW d \in Nat \ {0}, NEW radius \in Nat
  PROVE  Lists(Cover(d, radius), {a \in Node : InDisk(d, radius, a)})
<1> DEFINE reach == (2 * radius) \div d + 1
           n == 2 * reach + 1
           Inside(a) == Square(d) * (Square(a.q) + a.q * a.r + Square(a.r)) <= Square(radius)
           Here(q, r) == IF Inside(Axial(q, r)) THEN <<Axial(q, r)>> ELSE <<>>
           cells(r) == [i \in 1 .. n |-> Here(i - reach - 1, r)]
           Row(r) == FlattenSeq(cells(r))
           rows == [i \in 1 .. n |-> Row(i - reach - 1)]
           At(q, r) == {a \in Node : a.q = q /\ a.r = r /\ Inside(a)}
           InRow(r) == {a \in Node : a.r = r /\ Inside(a)}
           Disk == {a \in Node : Inside(a)}
<1>1. Cover(d, radius) = FlattenSeq(rows)
  BY DEF Cover
<1>2. reach \in Nat /\ n \in Nat
  OBVIOUS
<1>3. \A a \in Node : a.q \in Int /\ a.r \in Int /\ a = Axial(a.q, a.r)
  BY DEF Node, Axial
<1>4. ASSUME NEW a \in Node, Inside(a)
      PROVE  a.q \in -reach .. reach /\ a.r \in -reach .. reach
  <2> DEFINE k == (2 * radius) \div d
             u == a.q
             v == a.r
  <2>1. u \in Int /\ v \in Int /\ k \in Nat
    BY <1>3
  <2>2. Square(d) * (Square(u) + u * v + Square(v)) <= Square(radius)
    BY <1>4
  <2>3. Square(d) * (Square(v) + v * u + Square(u)) <= Square(radius)
    <3>1. Square(v) + v * u + Square(u) = Square(u) + u * v + Square(v)
      BY <2>1 DEF Square
    <3> HIDE DEF u, v
    <3> QED
      BY <2>2, <3>1
  <2> HIDE DEF u, v
  <2>4. u \in -k .. k
    BY <2>1, <2>2, DiskReach
  <2>5. v \in -k .. k
    BY <2>1, <2>3, DiskReach
  <2>6. reach = k + 1
    OBVIOUS
  <2> HIDE DEF k, reach
  <2>7. u \in -reach .. reach /\ v \in -reach .. reach
    BY <2>1, <2>4, <2>5, <2>6
  <2> QED
    BY <2>7 DEF u, v
<1> HIDE DEF reach, Inside
<1>5. ASSUME NEW i \in 1 .. n
      PROVE  i - reach - 1 \in Int
  BY <1>2
<1>6. \A x \in -reach .. reach : x + reach + 1 \in 1 .. n /\ (x + reach + 1) - reach - 1 = x
  BY <1>2
<1>7. ASSUME NEW q \in Int, NEW r \in Int
      PROVE  Lists(Here(q, r), At(q, r))
  <2> DEFINE a == Axial(q, r)
  <2>1. a \in Node /\ a.q = q /\ a.r = r /\ \A b \in Node : b.q = q /\ b.r = r => b = a
    BY <1>3 DEF Axial, Node
  <2> HIDE DEF a
  <2>2. CASE Inside(a)
    <3>1. At(q, r) = {a} /\ Here(q, r) = <<a>>
      BY <2>1, <2>2 DEF a
    <3>2. Lists(<<a>>, {a})
      BY DEF Lists
    <3> QED
      BY <3>1, <3>2
  <2>3. CASE ~Inside(a)
    <3>1. At(q, r) = {} /\ Here(q, r) = <<>>
      BY <2>1, <2>3 DEF a
    <3>2. Lists(<<>>, {})
      BY DEF Lists
    <3> QED
      BY <3>1, <3>2
  <2> QED
    BY <2>2, <2>3
<1> HIDE DEF Here
<1>8. ASSUME NEW r \in Int
      PROVE  Lists(Row(r), InRow(r))
  <2> DEFINE P == [i \in 1 .. n |-> At(i - reach - 1, r)]
             ss == cells(r)
  <2>1. DOMAIN ss = 1 .. n /\ ss = [i \in 1 .. n |-> ss[i]]
    OBVIOUS
  <2>2. \A i \in 1 .. n : Lists(ss[i], P[i])
    <3> HIDE DEF n, At
    <3> QED
      BY <1>5, <1>7
  <2>3. \A i, j \in 1 .. n : i # j => P[i] \cap P[j] = {}
    BY <1>2
  <2>4. UNION {P[i] : i \in 1 .. n} = InRow(r)
    <3>1. ASSUME NEW a \in InRow(r)
          PROVE  \E i \in 1 .. n : a \in P[i]
      <4>1. a \in Node /\ a.q \in -reach .. reach
        BY <1>4
      <4>2. a.q + reach + 1 \in 1 .. n /\ (a.q + reach + 1) - reach - 1 = a.q
        BY <1>6, <4>1
      <4> DEFINE i == a.q + reach + 1
      <4>3. a \in At(i - reach - 1, r) /\ i \in 1 .. n
        BY <4>1, <4>2
      <4> HIDE DEF At, i
      <4> QED
        BY <4>3
    <3>2. \A i \in 1 .. n : P[i] \subseteq InRow(r)
      OBVIOUS
    <3> HIDE DEF P, InRow
    <3> QED
      BY <3>1, <3>2
  <2> HIDE DEF P, n, ss, At, InRow
  <2>5. Lists(FlattenSeq(ss), UNION {P[i] : i \in 1 .. n})
    BY <1>2, <2>1, <2>2, <2>3, ListsJoined
  <2> QED
    BY <2>4, <2>5 DEF ss
<1> HIDE DEF Row
<1> DEFINE P == [i \in 1 .. n |-> InRow(i - reach - 1)]
<1>9. DOMAIN rows = 1 .. n /\ rows = [i \in 1 .. n |-> rows[i]]
  OBVIOUS
<1>10. \A i \in 1 .. n : Lists(rows[i], P[i])
  <2> HIDE DEF n, InRow
  <2> QED
    BY <1>5, <1>8
<1>11. \A i, j \in 1 .. n : i # j => P[i] \cap P[j] = {}
  BY <1>2
<1>12. UNION {P[i] : i \in 1 .. n} = Disk
  <2>1. ASSUME NEW a \in Disk
        PROVE  \E i \in 1 .. n : a \in P[i]
    <3>1. a \in Node /\ a.r \in -reach .. reach
      BY <1>4
    <3>2. a.r + reach + 1 \in 1 .. n /\ (a.r + reach + 1) - reach - 1 = a.r
      BY <1>6, <3>1
    <3> DEFINE i == a.r + reach + 1
    <3>3. a \in InRow(i - reach - 1) /\ i \in 1 .. n
      BY <3>1, <3>2
    <3> HIDE DEF InRow, i
    <3> QED
      BY <3>3
  <2>2. \A i \in 1 .. n : P[i] \subseteq Disk
    OBVIOUS
  <2> HIDE DEF P, Disk
  <2> QED
    BY <2>1, <2>2
<1> HIDE DEF P, n, rows
<1>13. Lists(FlattenSeq(rows), UNION {P[i] : i \in 1 .. n})
  BY <1>2, <1>9, <1>10, <1>11, ListsJoined
<1>14. Disk = {a \in Node : InDisk(d, radius, a)}
  BY DEF InDisk, Inside
<1> HIDE DEF Disk
<1> QED
  BY <1>1, <1>12, <1>13, <1>14

-----------------------------------------------------------------------------
(* The sites.                                                              *)

\* A lattice distance is one whose count of sites fits, or 0, whatever the
\* counts of the distances between: they need not be monotone.
LEMMA ISDFits ==
  ASSUME NEW radius, NEW target, NEW least, NEW most
  PROVE  \/ EffectiveISD(radius, target, least, most) = 0
         \/ /\ EffectiveISD(radius, target, least, most) \in Nat
            /\ Len(Cover(EffectiveISD(radius, target, least, most), radius)) \in least .. most
<1> DEFINE FitsAt(d) == Len(Cover(d, radius)) \in least .. most
           More(d) == Len(Cover(d, radius)) > target
           Mid(lo, hi) == (lo + hi) \div 2
           Narrow(f, lo, hi) == IF hi - lo <= 1 THEN 0
                               ELSE IF FitsAt(Mid(lo, hi)) THEN Mid(lo, hi)
                               ELSE IF More(Mid(lo, hi)) THEN f[<<Mid(lo, hi), hi>>]
                               ELSE f[<<lo, Mid(lo, hi)>>]
           search == CHOOSE s : s = [b \in Nat \X Nat |-> Narrow(s, b[1], b[2])]
           start == AnalyticISD(radius, target)
           W == {0} \cup {d \in Nat : FitsAt(d)}
           T == [b \in Bounds |-> IF b[2] - b[1] <= 1 \/ FitsAt(Mid(b[1], b[2])) THEN "end"
                                  ELSE IF More(Mid(b[1], b[2])) THEN "upper" ELSE "lower"]
           E == [b \in Bounds |-> IF b[2] - b[1] <= 1 THEN 0 ELSE Mid(b[1], b[2])]
<1>1. EffectiveISD(radius, target, least, most) =
        IF FitsAt(start) THEN start ELSE search[<<start \div 4, start * 4>>]
  BY DEF EffectiveISD
<1>2. start \in Nat
  BY RootType DEF AnalyticISD
<1> HIDE DEF start
<1>3. \A b \in Bounds : b[1] \in Nat /\ b[2] \in Nat /\ Mid(b[1], b[2]) \in Nat
  <2>1. \A x, y \in Nat : (x + y) \div 2 \in Nat
    OBVIOUS
  <2> QED
    BY <2>1 DEF Bounds
<1> HIDE DEF FitsAt, More
<1>4. Narrows(T)
  <2> HIDE DEF Mid
  <2> QED
    BY <1>3 DEF Narrows, Turns
<1>5. E \in [Bounds -> Nat]
  <2> HIDE DEF Mid
  <2> QED
    BY <1>3
<1>6. ASSUME NEW f
      PROVE  Halves(f, T, E) <=> \A b \in Bounds : f[b] = Narrow(f, b[1], b[2])
  BY DEF Halves, Upper, Lower
<1>7. \E s : s = [b \in Nat \X Nat |-> Narrow(s, b[1], b[2])]
  <2> HIDE DEF T, E, Narrow
  <2>1. PICK f \in [Bounds -> Nat] : Halves(f, T, E)
    BY <1>4, <1>5, HalvingSolved
  <2>2. f = [b \in Bounds |-> Narrow(f, b[1], b[2])]
    BY <1>6, <2>1
  <2> QED
    BY <2>2 DEF Bounds
<1>8. Halves(search, T, E)
  <2>1. search = [b \in Nat \X Nat |-> Narrow(search, b[1], b[2])]
    BY <1>7
  <2> HIDE DEF T, E, Narrow, search
  <2>2. \A b \in Bounds : search[b] = Narrow(search, b[1], b[2])
    BY <2>1 DEF Bounds
  <2> QED
    BY <1>6, <2>2
<1>9. EndsIn(T, E, Bounds, W)
  <2>1. \A b \in Bounds : T[b] = "end" => E[b] \in W
    <3> HIDE DEF Mid
    <3> QED
      BY <1>3
  <2> HIDE DEF T
  <2>2. \A b \in Bounds : T[b] # "end" => b[2] - b[1] > 1
    BY <1>4 DEF Narrows
  <2> QED
    BY <2>1, <2>2, HalfIsSmaller DEF EndsIn
<1> HIDE DEF T, E, W, search
<1>10. \A b \in Bounds : search[b] \in W
  BY <1>4, <1>8, <1>9, HalvingFinds
<1>11. <<start \div 4, start * 4>> \in Bounds
  <2>1. start \div 4 \in Nat /\ start * 4 \in Nat
    BY <1>2
  <2> QED
    BY <2>1 DEF Bounds
<1>12. EffectiveISD(radius, target, least, most) \in W
  BY <1>1, <1>2, <1>10, <1>11 DEF W
<1> QED
  BY <1>12 DEF W, FitsAt

-----------------------------------------------------------------------------
(* The range.                                                              *)

\* The range of a sector is the edge of where it is heard: 0, or a distance at
\* which the power still reaches the sensitivity and one metre further does not
\* (rf.CoverageRangeM), whatever the path loss and the antenna do between.
THEOREM RangeIsEdge ==
  ASSUME NEW c, NEW sensitivity, c.height \in Nat, c.tilt # 0 => Tangent(c.tilt) \in Nat \ {0}
  PROVE  \/ CoverageRangeM(c, sensitivity) = 0
         \/ /\ RangeSpecValid(c, sensitivity)
            /\ CoverageRangeM(c, sensitivity) \in 1 .. MaxSearchRangeM - 1
            /\ ReceivedPowerDBm(c, CoverageRangeM(c, sensitivity)) >= sensitivity
            /\ ~(ReceivedPowerDBm(c, CoverageRangeM(c, sensitivity) + 1) >= sensitivity)
<1> DEFINE Heard(d) == ReceivedPowerDBm(c, d) >= sensitivity
           peak == BeamPeakDistanceM(c)
           start == IF peak > 0 THEN peak ELSE 1
           Mid(lo, hi) == (lo + hi) \div 2
           Narrow(f, lo, hi) == IF hi - lo <= 1 THEN lo
                               ELSE IF Heard(Mid(lo, hi)) THEN f[<<Mid(lo, hi), hi>>]
                               ELSE f[<<lo, Mid(lo, hi)>>]
           last == CHOOSE s : s = [b \in Nat \X Nat |-> Narrow(s, b[1], b[2])]
           opens == RangeSpecValid(c, sensitivity) /\ Heard(start) /\ ~Heard(MaxSearchRangeM)
           W == {d \in 1 .. MaxSearchRangeM - 1 : Heard(d) /\ ~Heard(d + 1)}
           R == {b \in Bounds : /\ 1 <= b[1] /\ b[1] < b[2] /\ b[2] <= MaxSearchRangeM
                                /\ Heard(b[1]) /\ ~Heard(b[2])}
           T == [b \in Bounds |-> IF b[2] - b[1] <= 1 THEN "end"
                                  ELSE IF Heard(Mid(b[1], b[2])) THEN "upper" ELSE "lower"]
           E == [b \in Bounds |-> b[1]]
<1>1. CoverageRangeM(c, sensitivity) = IF opens THEN last[<<start, MaxSearchRangeM>>] ELSE 0
  BY DEF CoverageRangeM
<1>2. start \in Nat /\ 1 <= start /\ (Heard(start) /\ ~Heard(MaxSearchRangeM) => start < MaxSearchRangeM)
  <2>1. ASSUME peak > 0
        PROVE  peak \in Nat /\ peak < MaxSearchRangeM
    <3>1. c.tilt # 0
      BY <2>1 DEF BeamPeakDistanceM
    <3> DEFINE t == Tangent(c.tilt)
               h == (10 * c.height - UTHeightDM) * 100
    <3>2. peak = IF h \div t >= MaxSearchRangeM THEN 0 ELSE h \div t
      BY <3>1 DEF BeamPeakDistanceM
    <3>3. t \in Nat \ {0} /\ h \in Int
      BY <3>1 DEF UTHeightDM
    <3> HIDE DEF t, h, peak
    <3>4. h \div t \in Int
      BY <3>3
    <3> QED
      BY <2>1, <3>2, <3>4 DEF MaxSearchRangeM
  <2> HIDE DEF peak
  <2> QED
    BY <2>1 DEF MaxSearchRangeM
<1> HIDE DEF start, Heard
<1>3. \A b \in Bounds : b[1] \in Nat /\ b[2] \in Nat
  BY DEF Bounds
<1>4. Narrows(T)
  BY <1>3 DEF Narrows, Turns
<1>5. E \in [Bounds -> Nat]
  BY <1>3
<1>6. ASSUME NEW f
      PROVE  Halves(f, T, E) <=> \A b \in Bounds : f[b] = Narrow(f, b[1], b[2])
  BY DEF Halves, Upper, Lower
<1>7. \E s : s = [b \in Nat \X Nat |-> Narrow(s, b[1], b[2])]
  <2> HIDE DEF T, E, Narrow
  <2>1. PICK f \in [Bounds -> Nat] : Halves(f, T, E)
    BY <1>4, <1>5, HalvingSolved
  <2>2. f = [b \in Bounds |-> Narrow(f, b[1], b[2])]
    BY <1>6, <2>1
  <2> QED
    BY <2>2 DEF Bounds
<1>8. Halves(last, T, E)
  <2>1. last = [b \in Nat \X Nat |-> Narrow(last, b[1], b[2])]
    BY <1>7
  <2> HIDE DEF T, E, Narrow, last
  <2>2. \A b \in Bounds : last[b] = Narrow(last, b[1], b[2])
    BY <2>1 DEF Bounds
  <2> QED
    BY <1>6, <2>2
<1>9. ASSUME NEW b \in R
      PROVE  /\ T[b] = "end" => E[b] \in W
             /\ T[b] = "upper" => Upper(b) \in R
             /\ T[b] = "lower" => Lower(b) \in R
  <2>1. /\ b \in Bounds /\ b[1] \in Nat /\ b[2] \in Nat /\ 1 <= b[1] /\ b[1] < b[2]
        /\ b[2] <= MaxSearchRangeM /\ Heard(b[1]) /\ ~Heard(b[2])
    BY <1>3
  <2>2. CASE b[2] - b[1] <= 1
    <3>1. b[2] = b[1] + 1 /\ b[1] \in 1 .. MaxSearchRangeM - 1
      <4>1. MaxSearchRangeM \in Nat
        BY DEF MaxSearchRangeM
      <4> HIDE DEF T, E, R
      <4> QED
        BY <2>1, <2>2, <4>1
    <3>2. T[b] = "end" /\ E[b] = b[1]
      BY <2>1, <2>2
    <3> HIDE DEF T, E
    <3> QED
      BY <2>1, <3>1, <3>2
  <2>3. CASE ~(b[2] - b[1] <= 1)
    <3> DEFINE mid == Mid(b[1], b[2])
    <3>1. /\ Upper(b) \in Bounds /\ Lower(b) \in Bounds
          /\ mid \in Nat /\ b[1] < mid /\ mid < b[2]
      BY <2>1, <2>3, HalfIsSmaller
    <3>2. Upper(b) = <<mid, b[2]>> /\ Lower(b) = <<b[1], mid>>
      BY DEF Upper, Lower
    <3>3. T[b] = IF Heard(mid) THEN "upper" ELSE "lower"
      BY <2>1, <2>3
    <3> HIDE DEF mid, T
    <3>4. Heard(mid) => Upper(b) \in R
      BY <2>1, <3>1, <3>2 DEF MaxSearchRangeM
    <3>5. ~Heard(mid) => Lower(b) \in R
      BY <2>1, <3>1, <3>2 DEF MaxSearchRangeM
    <3> QED
      BY <3>3, <3>4, <3>5
  <2> QED
    BY <2>2, <2>3
<1>10. opens => <<start, MaxSearchRangeM>> \in R
  <2>1. <<start, MaxSearchRangeM>> \in Bounds
    BY <1>2 DEF Bounds, MaxSearchRangeM
  <2> QED
    BY <1>2, <2>1 DEF MaxSearchRangeM
<1>11. \A b \in R : last[b] \in W
  <2>1. R \in SUBSET Bounds
    OBVIOUS
  <2> HIDE DEF T, E, W, R, last
  <2>2. EndsIn(T, E, R, W)
    BY <1>9, <2>1 DEF EndsIn
  <2> QED
    BY <1>4, <1>8, <2>2, HalvingFinds
<1>12. CoverageRangeM(c, sensitivity) = 0 \/ (opens /\ CoverageRangeM(c, sensitivity) \in W)
  <2> HIDE DEF W, R, last
  <2> QED
    BY <1>1, <1>10, <1>11
<1> QED
  BY <1>12 DEF Heard

-----------------------------------------------------------------------------
(* The inventory.                                                          *)

\* The fields that the inventory reads are whole numbers, lengths and counts
\* positive.
NetworkTyped(scn) ==
  /\ scn.profile.areaRadiusKM \in Nat
  /\ scn.network.sitesMin \in Nat \ {0} /\ scn.network.sitesMax \in Nat

\* The nodes of the lattice within the radius of the scenario's area.
DiskOf(scn) == {a \in Node : InDisk(ISD(scn), 1000 * scn.profile.areaRadiusKM, a)}

\* A sector carries the site's node and the number of the sector as its
\* identity and stands where the node is.
Placed(c, isd) ==
  c.id \in SectorId /\ c.enu = Center(isd, c.id.site)

\* Sites on the nodes of the disk, on each once, and as many as the scenario
\* asks for.
SitesStand(scn, d, sites) ==
  /\ sites \in Seq([axial : Node, enu : {Center(d, a) : a \in Node}])
  /\ Len(sites) \in scn.network.sitesMin .. scn.network.sitesMax
  /\ \A i \in DOMAIN sites : sites[i].enu = Center(d, sites[i].axial)
  /\ \A i, j \in DOMAIN sites : sites[i].axial = sites[j].axial => i = j
  /\ \A a : a \in DiskOf(scn) <=> \E i \in DOMAIN sites : sites[i].axial = a

\* The sites of a run stand so (EffectiveISD, PlaceSites).
LEMMA SitesFit ==
  ASSUME NEW scn, NetworkTyped(scn), ISD(scn) # 0
  PROVE  ISD(scn) \in Nat \ {0} /\ SitesStand(scn, ISD(scn), PlaceSites(scn, ISD(scn)))
<1> DEFINE d == ISD(scn)
           radius == 1000 * scn.profile.areaRadiusKM
           nodes == Cover(d, radius)
           sites == PlaceSites(scn, d)
           Site == [axial : Node, enu : {Center(d, a) : a \in Node}]
           Disk == {a \in Node : InDisk(d, radius, a)}
<1>1. d \in Nat \ {0} /\ Len(Cover(d, radius)) \in scn.network.sitesMin .. scn.network.sitesMax
  <2> HIDE DEF radius
  <2> QED
    BY ISDFits DEF ISD, radius
<1>2. radius \in Nat
  BY DEF NetworkTyped
<1>3. Disk = DiskOf(scn)
  BY DEF DiskOf
<1> HIDE DEF d, radius
<1>4. Lists(nodes, Disk)
  BY <1>1, <1>2, CoverIsDisk
<1>5. sites = [i \in DOMAIN nodes |-> [axial |-> nodes[i], enu |-> Center(d, nodes[i])]]
  BY DEF PlaceSites, radius
<1>6. Disk \subseteq Node
  OBVIOUS
<1> HIDE DEF nodes, sites, Disk
<1>7. nodes \in Seq(Disk)
  BY <1>4 DEF Lists
<1>8. \A i \in DOMAIN nodes : nodes[i] \in Disk /\ nodes[i] \in Node
  BY <1>7, <1>6
<1>9. \A i \in DOMAIN nodes : /\ sites[i] \in Site /\ sites[i].enu = Center(d, sites[i].axial)
                              /\ sites[i].axial = nodes[i]
  BY <1>5, <1>8
<1>10. DOMAIN sites = 1..Len(nodes) /\ Len(nodes) \in Nat /\ DOMAIN nodes = 1..Len(nodes)
  BY <1>7, <1>5
<1>11. sites \in [1..Len(nodes) -> Site]
  <2>1. sites = [i \in 1..Len(nodes) |-> sites[i]]
    BY <1>5, <1>10
  <2> HIDE DEF Site
  <2> QED
    BY <1>9, <1>10, <2>1
<1>12. sites \in Seq(Site) /\ Len(sites) = Len(nodes)
  <2> HIDE DEF Site
  <2> QED
    BY <1>10, <1>11
<1>13. \A i, j \in DOMAIN sites : sites[i].axial = sites[j].axial => i = j
  BY <1>9, <1>10, <1>4 DEF Lists
<1>14. \A a : a \in Disk <=> \E i \in DOMAIN sites : sites[i].axial = a
  BY <1>8, <1>9, <1>10, <1>4 DEF Lists
<1>15. SitesStand(scn, d, sites)
  BY <1>1, <1>9, <1>11, <1>12, <1>13, <1>14, <1>3 DEF SitesStand, sites, nodes
<1> QED
  BY <1>1, <1>15 DEF d, sites

\* Sector k of a site.
Stands(c, isd, site, k) ==
  Placed(c, isd) /\ c.id = [site |-> site.axial, sector |-> k]

\* A sector of a site is named after the node and stands where the site does.
LEMMA SectorIs ==
  ASSUME NEW scn, NEW isd, NEW site, NEW k \in 1..3,
         site.axial \in Node, site.enu = Center(isd, site.axial)
  PROVE  Stands(AssignRMax(Sector(scn, site, k), scn), isd, site, k)
<1>1. /\ AssignRMax(Sector(scn, site, k), scn).id = [site |-> site.axial, sector |-> k]
      /\ AssignRMax(Sector(scn, site, k), scn).enu = site.enu
  BY DEF AssignRMax, Sector
<1>2. [site |-> site.axial, sector |-> k] \in SectorId
  BY DEF SectorId
<1> QED
  BY <1>1, <1>2 DEF Placed, Stands

\* Two names are the same when node and sector are.
LEMMA SameName ==
  ASSUME NEW a, NEW b, NEW k, NEW l, [site |-> a, sector |-> k] = [site |-> b, sector |-> l]
  PROVE  a = b /\ k = l
<1>1. [site |-> a, sector |-> k].site = a /\ [site |-> b, sector |-> l].site = b
  OBVIOUS
<1>2. [site |-> a, sector |-> k].sector = k /\ [site |-> b, sector |-> l].sector = l
  OBVIOUS
<1> QED
  BY <1>1, <1>2, Zenon

\* An inventory has as many sites as the scenario asks for; its cells are
\* three on every node of the disk, no two of one name, each where its site
\* stands (inventory.Build).
THEOREM InventoryFitsScenario ==
  ASSUME NEW scn, NetworkTyped(scn), Build(scn) # None
  PROVE  /\ Len(Build(scn).sites) \in scn.network.sitesMin .. scn.network.sitesMax
         /\ ISD(scn) \in Nat \ {0}
         /\ \E C : Build(scn).cells \in Seq(C) \ {<<>>}
         /\ \A i \in DOMAIN Build(scn).cells : Placed(Build(scn).cells[i], ISD(scn))
         /\ CellIds(Build(scn)) = [site : DiskOf(scn), sector : 1 .. 3]
         /\ \A i, j \in DOMAIN Build(scn).cells :
              Build(scn).cells[i].id = Build(scn).cells[j].id => i = j
<1> DEFINE isd == ISD(scn)
           sites == PlaceSites(scn, isd)
           cells == BuildSectors(sites, scn)
           Site == [axial : Node, enu : {Center(isd, a) : a \in Node}]
           n == Len(sites)
           Cell(i, k) == AssignRMax(Sector(scn, sites[i], k), scn)
           P == [i \in 1 .. n |-> {Cell(i, k) : k \in 1 .. 3}]
           ss == [i \in 1 .. n |-> [k \in 1 .. 3 |-> Cell(i, k)]]
           C == UNION {P[i] : i \in 1 .. n}
<1>1. isd # 0
  BY DEF Build
<1>2. isd \in Nat \ {0} /\ SitesStand(scn, isd, sites)
  BY <1>1, SitesFit
<1>3. Build(scn).sites = sites /\ Build(scn).cells = cells
  <2>1. Build(scn) = InventoryOf(sites, cells)
    BY <1>1 DEF Build, BuildOn
  <2> HIDE DEF sites, cells
  <2>2. Build(scn) = [sites |-> sites, cells |-> cells]
    BY <2>1 DEF InventoryOf
  <2> QED
    BY <2>2
<1>4. cells = FlattenSeq([i \in DOMAIN sites |-> [k \in 1 .. 3 |-> Cell(i, k)]])
  <2>1. DOMAIN Azimuths = 1 .. 3
    BY DEF Azimuths
  <2> HIDE DEF sites
  <2> QED
    BY <2>1 DEF BuildSectors
<1> HIDE DEF sites, isd
<1>5. /\ sites \in Seq(Site) /\ n \in scn.network.sitesMin .. scn.network.sitesMax
      /\ \A i \in DOMAIN sites : sites[i].enu = Center(isd, sites[i].axial)
      /\ \A i, j \in DOMAIN sites : sites[i].axial = sites[j].axial => i = j
      /\ \A a : a \in DiskOf(scn) <=> \E i \in DOMAIN sites : sites[i].axial = a
  BY <1>2 DEF SitesStand
<1>6. n \in Nat \ {0} /\ DOMAIN sites = 1 .. n /\ \A i \in 1 .. n : sites[i].axial \in Node
  <2>1. \A s \in Site : s.axial \in Node
    OBVIOUS
  <2> HIDE DEF Site
  <2> QED
    BY <1>5, <2>1 DEF NetworkTyped
<1>7. cells = FlattenSeq(ss)
  BY <1>4, <1>6
<1> HIDE DEF Site, cells, n
<1>8. ASSUME NEW i \in 1 .. n, NEW k \in 1 .. 3
      PROVE  Placed(Cell(i, k), isd) /\ Cell(i, k).id = [site |-> sites[i].axial, sector |-> k]
  <2> DEFINE site == sites[i]
  <2>1. site.axial \in Node /\ site.enu = Center(isd, site.axial)
    BY <1>5, <1>6
  <2> HIDE DEF site
  <2>2. Stands(AssignRMax(Sector(scn, site, k), scn), isd, site, k)
    BY <2>1, SectorIs
  <2> QED
    BY <2>2 DEF site, Stands
<1> HIDE DEF Cell
<1>9. ASSUME NEW i \in 1 .. n, NEW j \in 1 .. n, NEW k \in 1 .. 3, NEW l \in 1 .. 3,
             Cell(i, k).id = Cell(j, l).id
      PROVE  i = j /\ k = l
  <2>1. Cell(i, k).id = [site |-> sites[i].axial, sector |-> k]
    BY <1>8
  <2>2. Cell(j, l).id = [site |-> sites[j].axial, sector |-> l]
    BY <1>8
  <2> HIDE DEF Cell
  <2>4. sites[i].axial = sites[j].axial /\ k = l
    BY <1>9, <2>1, <2>2, SameName
  <2> QED
    BY <1>5, <1>6, <2>4
<1>10. Lists(cells, C)
  <2>1. ASSUME NEW i \in 1 .. n
        PROVE  Lists(ss[i], P[i])
    <3> DEFINE t == [k \in 1 .. 3 |-> Cell(i, k)]
               T == {Cell(i, k) : k \in 1 .. 3}
    <3>1. DOMAIN t = 1 .. 3 /\ \A k \in 1 .. 3 : t[k] = Cell(i, k) /\ t[k] \in T
      OBVIOUS
    <3>2. t \in Seq(T)
      <4>1. \A k \in 1 .. 3 : Cell(i, k) \in T
        OBVIOUS
      <4> HIDE DEF T
      <4> QED
        BY <4>1
    <3>3. \A a \in T : \E k \in 1 .. 3 : t[k] = a
      OBVIOUS
    <3> HIDE DEF t, T
    <3>4. \A k, l \in 1 .. 3 : t[k] = t[l] => k = l
      BY <1>9, <3>1
    <3>5. Lists(t, T)
      BY <3>1, <3>2, <3>3, <3>4 DEF Lists
    <3> QED
      BY <3>5 DEF t, T
  <2>2. ASSUME NEW i \in 1 .. n, NEW j \in 1 .. n, i # j
        PROVE  P[i] \cap P[j] = {}
    <3> SUFFICES ASSUME NEW c \in P[i], c \in P[j] PROVE FALSE
      OBVIOUS
    <3>1. PICK k \in 1 .. 3, l \in 1 .. 3 : c = Cell(i, k) /\ c = Cell(j, l)
      OBVIOUS
    <3> QED
      BY <1>9, <2>2, <3>1
  <2>3. DOMAIN ss = 1 .. n /\ ss = [i \in 1 .. n |-> ss[i]]
    OBVIOUS
  <2> HIDE DEF ss, P
  <2>4. Lists(FlattenSeq(ss), UNION {P[i] : i \in 1 .. n})
    BY <1>6, <2>1, <2>2, <2>3, ListsJoined
  <2> QED
    BY <1>7, <2>4
<1>11. ASSUME NEW c \in C
       PROVE  \E i \in 1 .. n, k \in 1 .. 3 : c = Cell(i, k)
  OBVIOUS
<1>12. ASSUME NEW i \in 1 .. n, NEW k \in 1 .. 3
       PROVE  \E l \in DOMAIN cells : cells[l] = Cell(i, k)
  <2>1. Cell(i, k) \in C
    OBVIOUS
  <2> HIDE DEF C
  <2> QED
    BY <1>10, <2>1 DEF Lists
<1> HIDE DEF C, P, ss
<1>13. cells \in Seq(C) /\ \A l \in DOMAIN cells : cells[l] \in C
  <2>1. cells \in Seq(C)
    BY <1>10 DEF Lists
  <2> QED
    BY <2>1
<1>14. cells # <<>>
  <2>1. \E l \in DOMAIN cells : cells[l] = Cell(1, 1)
    BY <1>6, <1>12
  <2> QED
    BY <2>1
<1>15. \A l \in DOMAIN cells : Placed(cells[l], isd)
  BY <1>8, <1>11, <1>13
<1>16. \A l, m \in DOMAIN cells : cells[l].id = cells[m].id => l = m
  <2> SUFFICES ASSUME NEW l \in DOMAIN cells, NEW m \in DOMAIN cells, cells[l].id = cells[m].id
               PROVE  l = m
    OBVIOUS
  <2>1. PICK i \in 1 .. n, k \in 1 .. 3 : cells[l] = Cell(i, k)
    BY <1>11, <1>13
  <2>2. PICK j \in 1 .. n, h \in 1 .. 3 : cells[m] = Cell(j, h)
    BY <1>11, <1>13
  <2>3. i = j /\ k = h
    BY <1>9, <2>1, <2>2
  <2> QED
    BY <1>10, <2>1, <2>2, <2>3 DEF Lists
<1>17. {cells[l].id : l \in DOMAIN cells} = [site : DiskOf(scn), sector : 1 .. 3]
  <2> DEFINE Id == [site : DiskOf(scn), sector : 1 .. 3]
             I == {cells[l].id : l \in DOMAIN cells}
  <2>1. ASSUME NEW l \in DOMAIN cells
        PROVE  cells[l].id \in Id
    <3>1. PICK i \in 1 .. n, k \in 1 .. 3 : cells[l] = Cell(i, k)
      BY <1>11, <1>13
    <3>2. sites[i].axial \in DiskOf(scn)
      BY <1>5, <1>6
    <3>3. cells[l].id = [site |-> sites[i].axial, sector |-> k]
      BY <1>8, <3>1
    <3> QED
      BY <3>2, <3>3
  <2>2. ASSUME NEW id \in Id
        PROVE  \E l \in DOMAIN cells : cells[l].id = id
    <3>1. id.site \in DiskOf(scn) /\ id.sector \in 1 .. 3 /\ id = [site |-> id.site, sector |-> id.sector]
      OBVIOUS
    <3>2. PICK i \in 1 .. n : sites[i].axial = id.site
      BY <1>5, <1>6, <3>1
    <3>3. PICK l \in DOMAIN cells : cells[l] = Cell(i, id.sector)
      BY <1>12, <3>1
    <3> QED
      BY <1>8, <3>1, <3>2, <3>3
  <2> HIDE DEF Id
  <2>3. I = Id
    BY <2>1, <2>2
  <2> QED
    BY <2>3 DEF Id
<1>18. CellIds(Build(scn)) = [site : DiskOf(scn), sector : 1 .. 3]
  BY <1>3, <1>17 DEF CellIds
<1>19. /\ n \in scn.network.sitesMin .. scn.network.sitesMax /\ isd \in Nat \ {0}
       /\ cells \in Seq(C) \ {<<>>}
  BY <1>2, <1>5, <1>13, <1>14
<1> QED
  BY <1>3, <1>15, <1>16, <1>18, <1>19 DEF isd, n

-----------------------------------------------------------------------------
(* The best server.                                                        *)

\* The loudest of some cells is one of them (Radio.Select).
LEMMA LoudestIsNear ==
  ASSUME NEW near \in SUBSET Nat, near # {}, IsFiniteSet(near), NEW power \in [near -> Int]
  PROVE  Loudest(near, power) \in near
<1> DEFINE P == {power[k] : k \in near}
           L == {i \in near : power[i] = Max(P)}
<1>1. P \in SUBSET Int /\ P # {}
  OBVIOUS
<1>2. IsFiniteSet(P)
  <2>1. power \in Surjection(near, P)
    BY DEF Surjection
  <2> HIDE DEF P
  <2> QED
    BY <2>1, FS_Surjection
<1> DEFINE most == Max(P)
<1>3. most \in P
  <2> HIDE DEF P
  <2> QED
    BY <1>1, <1>2, MaxOf
<1>4. L \in SUBSET Int /\ L # {} /\ L \in SUBSET near
  <2> HIDE DEF most
  <2>1. PICK k \in near : power[k] = most
    BY <1>3
  <2>2. L = {i \in near : power[i] = most}
    BY DEF most
  <2> HIDE DEF L
  <2>3. k \in L /\ \A i \in L : i \in near /\ i \in Nat
    BY <2>1, <2>2
  <2> QED
    BY <2>3
<1>5. Min(L) \in L
  <2>1. IsFiniteSet(L)
    <3> HIDE DEF L
    <3> QED
      BY <1>4, FS_Subset
  <2> HIDE DEF L
  <2> QED
    BY <1>4, <2>1, MinOf
<1> QED
  BY <1>4, <1>5 DEF Loudest

\* Who serves a point is a sector, and the distance reported is the point's from it.
LEMMA ServerIsSector ==
  ASSUME NEW C, NEW cells \in Seq(C), NEW sensitivity, NEW p,
         \A k \in DOMAIN cells : RxDBm(cells[k], p) \in Int
  PROVE  /\ Select(cells, sensitivity, p).distance \in Nat
         /\ Serves(Select(cells, sensitivity, p)) \in BOOLEAN
         /\ Serves(Select(cells, sensitivity, p)) =>
              \E k \in DOMAIN cells :
                /\ Select(cells, sensitivity, p).cell = cells[k].id
                /\ Select(cells, sensitivity, p).distance = Distance(p, cells[k].enu)
<1> DEFINE near == {i \in DOMAIN cells : Distance(p, cells[i].enu) <= cells[i].rMax}
           power == [i \in near |-> RxDBm(cells[i], p)]
           best == Select(cells, sensitivity, p)
           k == Loudest(near, power)
<1>1. best = IF near = {} THEN [cell |-> Nobody, distance |-> 0, covered |-> FALSE]
             ELSE ServedBy(cells[k], sensitivity, p)
  BY DEF Select, BestOf
<1>2. near \in SUBSET Nat /\ near \in SUBSET DOMAIN cells
  <2>1. DOMAIN cells = 1..Len(cells) /\ Len(cells) \in Nat
    OBVIOUS
  <2> QED
    BY <2>1
<1>3. IsFiniteSet(near)
  <2>1. DOMAIN cells = 1..Len(cells) /\ Len(cells) \in Int /\ 1 \in Int
    OBVIOUS
  <2>2. IsFiniteSet(DOMAIN cells)
    BY <2>1, FS_Interval
  <2> HIDE DEF near
  <2> QED
    BY <1>2, <2>2, FS_Subset
<1>4. power \in [near -> Int]
  BY <1>2
<1> HIDE DEF near, power
<1>5. near # {} => k \in DOMAIN cells
  BY <1>2, <1>3, <1>4, LoudestIsNear
<1> HIDE DEF k, best
<1>6. CASE near = {}
  <2>1. best = [cell |-> Nobody, distance |-> 0, covered |-> FALSE]
    BY <1>1, <1>6
  <2>2. best.distance = 0 /\ ~Serves(best)
    BY <2>1 DEF Serves
  <2>3. Serves(best) \in BOOLEAN
    BY DEF Serves
  <2>4. best.distance \in Nat
    BY <2>2
  <2> QED
    BY <2>2, <2>3, <2>4, Zenon DEF best
<1>7. CASE near # {}
  <2>1. best = ServedBy(cells[k], sensitivity, p)
    BY <1>1, <1>7
  <2>2. best.cell = cells[k].id /\ best.distance = Distance(p, cells[k].enu)
    BY <2>1 DEF ServedBy
  <2>3. best.distance \in Nat
    BY <2>2, DistanceType
  <2>4. Serves(best) \in BOOLEAN
    BY DEF Serves
  <2> QED
    BY <1>5, <1>7, <2>2, <2>3, <2>4 DEF best
<1> QED
  BY <1>6, <1>7

-----------------------------------------------------------------------------
(* Counting and drawing.                                                   *)

\* No agent has more than MaxEventsPerTick events in a tick.
LEMMA CountType ==
  ASSUME NEW lambda, NEW u
  PROVE  PoissonCount(lambda, u) \in 0..MaxEventsPerTick
<1>1. ASSUME NEW R \in SUBSET (0..15), R # {}
      PROVE  Min(R) \in 0..16
  <2> DEFINE low == 0
             high == 15
  <2>1. low \in Int /\ high \in Int /\ R \in SUBSET (low..high)
    OBVIOUS
  <2>2. \A x \in R : x \in Int /\ x \in 0..16
    OBVIOUS
  <2> HIDE DEF low, high
  <2>3. IsFiniteSet(low..high)
    BY <2>1, FS_Interval
  <2>4. IsFiniteSet(R) /\ R \in SUBSET Int
    BY <2>1, <2>2, <2>3, FS_Subset
  <2>5. Min(R) \in R
    BY <1>1, <2>4, MinOf
  <2> QED
    BY <2>2, <2>5
<1> DEFINE term == CHOOSE f : f = [k \in 0..16 |-> IF k = 0 THEN NoEventChance(lambda) ELSE (f[k - 1] * lambda) \div (Mille * k)]
           cum == CHOOSE f : f = [k \in 0..16 |-> IF k = 0 THEN term[0] ELSE f[k - 1] + term[k]]
           reached == {k \in 0..15 : u <= cum[k]}
<1>2. 16 - 1 = 15
  OBVIOUS
<1>3. PoissonCount(lambda, u) = IF lambda = 0 THEN 0 ELSE IF reached = {} THEN 16 ELSE Min(reached)
  BY <1>2 DEF PoissonCount, MaxEventsPerTick
<1>4. reached \in SUBSET (0..15)
  OBVIOUS
<1> HIDE DEF reached
<1>5. reached # {} => Min(reached) \in 0..16
  BY <1>1, <1>4
<1> QED
  BY <1>3, <1>5 DEF MaxEventsPerTick

\* A rule of weight zero is never drawn, whatever the draw.
LEMMA DrawnRuleHasWeight ==
  ASSUME NEW weights, RuleWeightsValid(weights), NEW u
  PROVE  PickRule(weights, u) \in DrawableRules(weights) /\ DrawableRules(weights) \in SUBSET (1..5)
<1> DEFINE R == DrawableRules(weights)
           Share(r) == Total([k \in 1..r |-> weights[k]])
           above == {r \in R : u * Share(5) < Mille * Share(r)}
<1>1. PickRule(weights, u) = IF above = {} THEN Max(R) ELSE Min(above)
  BY DEF PickRule
<1>2. R \in SUBSET (1..5) /\ R # {}
  BY DEF DrawableRules, RuleWeightsValid
<1>3. above \in SUBSET R
  OBVIOUS
<1> HIDE DEF R, above
<1> DEFINE low == 1
           high == 5
<1>4. low \in Int /\ high \in Int /\ R \in SUBSET (low..high) /\ R \in SUBSET Int
  BY <1>2
<1> HIDE DEF low, high
<1>5. IsFiniteSet(low..high)
  BY <1>4, FS_Interval
<1>6. IsFiniteSet(R) /\ R \in SUBSET Int
  BY <1>4, <1>5, FS_Subset
<1>7. IsFiniteSet(above) /\ above \in SUBSET Int
  BY <1>3, <1>6, FS_Subset
<1>8. Max(R) \in R
  BY <1>2, <1>6, MaxOf
<1>9. above # {} => Min(above) \in above
  BY <1>7, MinOf
<1> QED
  BY <1>1, <1>2, <1>3, <1>8, <1>9 DEF R

-----------------------------------------------------------------------------
(* A jump.                                                                 *)

\* The cells of an inventory: at least one, each placed on the lattice.
CellsPlaced(inv, isd) ==
  /\ isd \in Nat
  /\ \E C : inv.cells \in Seq(C) \ {<<>>}
  /\ \A i \in DOMAIN inv.cells : Placed(inv.cells[i], isd)

\* A node of the lattice has a place.
LEMMA CenterType ==
  ASSUME NEW isd \in Nat, NEW a \in Node
  PROVE  Center(isd, a).x \in Int /\ Center(isd, a).y \in Int
<1>1. a.q \in Int /\ a.r \in Int
  BY DEF Node
<1> DEFINE q == a.q
           r == a.r
           u == isd * (2 * q + r)
           v == isd * 866 * r
<1>2. u \in Int /\ v \in Int
  BY <1>1
<1>3. Center(isd, a).x = u \div 2 /\ Center(isd, a).y = v \div 1000
  BY DEF Center
<1> HIDE DEF u, v
<1> QED
  BY <1>2, <1>3

\* The cell of an identity has it; two cells of one identity are at one place.
LEMMA CellOfId ==
  ASSUME NEW inv, NEW isd, CellsPlaced(inv, isd), NEW id \in CellIds(inv)
  PROVE  /\ id \in SectorId
         /\ \E i \in DOMAIN inv.cells : CellOf(inv, id) = inv.cells[i]
         /\ CellOf(inv, id).enu = Center(isd, id.site)
<1>1. PICK i \in DOMAIN inv.cells : inv.cells[i].id = id
  BY DEF CellIds
<1> DEFINE k == CHOOSE j \in DOMAIN inv.cells : inv.cells[j].id = id
<1>2. k \in DOMAIN inv.cells /\ inv.cells[k].id = id
  BY <1>1
<1>3. CellOf(inv, id) = inv.cells[k]
  BY DEF CellOf
<1> HIDE DEF k
<1>4. Placed(inv.cells[k], isd)
  BY <1>2 DEF CellsPlaced
<1> QED
  BY <1>2, <1>3, <1>4 DEF Placed

\* The cell a subscriber is sent to is a cell of the inventory.
LEMMA FarthestIsCell ==
  ASSUME NEW inv, NEW isd, CellsPlaced(inv, isd), NEW id
  PROVE  FarthestCell(inv, id) \in CellIds(inv)
<1> DEFINE cells == {inv.cells[i] : i \in DOMAIN inv.cells}
           Far(c) == SquareDistance(CellOf(inv, id).enu, c.enu)
           fars == {Far(c) : c \in cells}
           most == Max(fars)
           best == IF id \in CellIds(inv) THEN {c \in cells : Far(c) = most} ELSE cells
           xs == {c.enu.x : c \in best}
           west == Min(xs)
           western == {o \in best : o.enu.x = west}
           ys == {c.enu.y : c \in western}
           south == Min(ys)
<1>1. FarthestCell(inv, id) = (CHOOSE c \in best : c.enu.x = west /\ c.enu.y = south).id
  BY DEF FarthestCell
<1>2. cells # {} /\ IsFiniteSet(cells)
  <2>1. PICK C : inv.cells \in Seq(C) \ {<<>>}
    BY DEF CellsPlaced
  <2> DEFINE s == inv.cells
  <2>2. s \in Seq(C) /\ s # <<>>
    BY <2>1
  <2> HIDE DEF s
  <2>3. DOMAIN s = 1..Len(s) /\ Len(s) \in Nat /\ Len(s) # 0
    BY <2>2
  <2>4. DOMAIN inv.cells = 1..Len(inv.cells) /\ Len(inv.cells) \in Int /\ 1 \in Int /\ DOMAIN inv.cells # {}
    BY <2>3 DEF s
  <2>5. IsFiniteSet(DOMAIN inv.cells)
    BY <2>4, FS_Interval
  <2>6. [i \in DOMAIN inv.cells |-> inv.cells[i]] \in Surjection(DOMAIN inv.cells, cells)
    BY DEF Surjection
  <2> HIDE DEF cells
  <2>7. IsFiniteSet(cells)
    BY <2>5, <2>6, FS_Surjection
  <2>8. cells # {}
    BY <2>4 DEF cells
  <2> QED
    BY <2>7, <2>8
<1>3. \A c \in cells : c.enu.x \in Int /\ c.enu.y \in Int /\ c.id \in CellIds(inv)
  <2> SUFFICES ASSUME NEW i \in DOMAIN inv.cells
               PROVE  inv.cells[i].enu.x \in Int /\ inv.cells[i].enu.y \in Int /\ inv.cells[i].id \in CellIds(inv)
    OBVIOUS
  <2>1. inv.cells[i].id.site \in Node /\ inv.cells[i].enu = Center(isd, inv.cells[i].id.site)
    BY DEF CellsPlaced, Placed, SectorId
  <2>2. isd \in Nat
    BY DEF CellsPlaced
  <2> QED
    BY <2>1, <2>2, CenterType DEF CellIds
<1>4. ASSUME id \in CellIds(inv)
      PROVE  \A c \in cells : Far(c) \in Int
  <2>1. CellOf(inv, id) \in cells
    BY <1>4, CellOfId
  <2>2. CellOf(inv, id).enu.x \in Int /\ CellOf(inv, id).enu.y \in Int
    BY <1>3, <2>1
  <2> HIDE DEF cells
  <2> QED
    BY <1>3, <2>2 DEF SquareDistance, Square
<1> HIDE DEF cells, Far
<1>5. ASSUME id \in CellIds(inv)
      PROVE  most \in fars
  <2>1. fars \in SUBSET Int /\ fars # {}
    BY <1>2, <1>4, <1>5
  <2>2. [c \in cells |-> Far(c)] \in Surjection(cells, fars)
    BY DEF Surjection
  <2> HIDE DEF fars
  <2>3. IsFiniteSet(fars)
    BY <1>2, <2>2, FS_Surjection
  <2> QED
    BY <2>1, <2>3, MaxOf
<1>6. best # {} /\ best \in SUBSET cells
  <2>1. CASE id \in CellIds(inv)
    <3>1. most \in fars
      BY <1>5, <2>1
    <3>2. PICK c \in cells : Far(c) = most
      <4> HIDE DEF most
      <4> QED
        BY <3>1
    <3> HIDE DEF most
    <3>3. c \in best
      BY <2>1, <3>2
    <3> QED
      BY <3>3
  <2>2. CASE id \notin CellIds(inv)
    BY <1>2, <2>2
  <2> QED
    BY <2>1, <2>2
<1> HIDE DEF best
<1>7. west \in xs
  <2>1. xs \in SUBSET Int /\ xs # {}
    BY <1>3, <1>6
  <2>2. IsFiniteSet(best)
    BY <1>2, <1>6, FS_Subset
  <2>3. [c \in best |-> c.enu.x] \in Surjection(best, xs)
    BY DEF Surjection
  <2> HIDE DEF xs
  <2>4. IsFiniteSet(xs)
    BY <2>2, <2>3, FS_Surjection
  <2> QED
    BY <2>1, <2>4, MinOf
<1>8. \E c \in best : c.enu.x = west
  <2> HIDE DEF west
  <2> QED
    BY <1>7
<1> HIDE DEF west
<1>9. western # {} /\ western \in SUBSET best
  BY <1>8
<1> HIDE DEF western
<1>10. south \in ys
  <2>1. ys \in SUBSET Int /\ ys # {}
    BY <1>3, <1>6, <1>9
  <2>2. IsFiniteSet(western)
    BY <1>2, <1>6, <1>9, FS_Subset
  <2>3. [c \in western |-> c.enu.y] \in Surjection(western, ys)
    BY DEF Surjection
  <2> HIDE DEF ys
  <2>4. IsFiniteSet(ys)
    BY <2>2, <2>3, FS_Surjection
  <2> QED
    BY <2>1, <2>4, MinOf
<1>11. \E c \in best : c.enu.x = west /\ c.enu.y = south
  <2> HIDE DEF south
  <2>1. PICK c \in western : c.enu.y = south
    BY <1>10
  <2>2. c \in best /\ c.enu.x = west
    BY <2>1 DEF western
  <2> QED
    BY <2>1, <2>2
<1> HIDE DEF south
<1> DEFINE there == CHOOSE c \in best : c.enu.x = west /\ c.enu.y = south
<1>12. there \in best
  BY <1>11
<1>13. FarthestCell(inv, id) = there.id
  BY <1>1
<1> HIDE DEF there
<1> QED
  BY <1>3, <1>6, <1>12, <1>13

-----------------------------------------------------------------------------
(* The pair of an event.                                                   *)

\* What an observation says: the cell is one of the inventory and the
\* distance is the point's from it, if the point is covered.
ObservationSound(inv, obs) ==
  /\ obs.covered \in BOOLEAN /\ obs.distance \in Nat
  /\ obs.covered => /\ obs.cell \in CellIds(inv)
                    /\ obs.distance = Distance(obs.pos, CellOf(inv, obs.cell).enu)

\* An agent that is covered is served by a cell of the inventory, at the
\* distance the observation gives.
LEMMA ObservationIsSound ==
  ASSUME NEW inv, NEW isd, CellsPlaced(inv, isd), NEW scn, NEW s, NEW t,
         \A k \in DOMAIN inv.cells :
           RxDBm(inv.cells[k], PositionAt(s, scn.simulation.tickMinutes, t)) \in Int
  PROVE  /\ ObservationSound(inv, Observe(inv, scn, s, t))
         /\ Observe(inv, scn, s, t).agent = s.id /\ Observe(inv, scn, s, t).tick = t
<1> DEFINE p == PositionAt(s, scn.simulation.tickMinutes, t)
           best == Select(inv.cells, scn.network.rxSensitivityDBm, p)
           obs == Observe(inv, scn, s, t)
<1>1. obs = [agent |-> s.id, tick |-> t, pos |-> p, covered |-> Serves(best),
             cell |-> best.cell, distance |-> best.distance]
  BY DEF Observe, ObserveAt, Observation
<1>2. PICK C : inv.cells \in Seq(C)
  BY DEF CellsPlaced
<1>3. \A k \in DOMAIN inv.cells : RxDBm(inv.cells[k], p) \in Int
  OBVIOUS
<1> HIDE DEF p
<1>4. /\ best.distance \in Nat /\ Serves(best) \in BOOLEAN
      /\ Serves(best) => \E k \in DOMAIN inv.cells :
           best.cell = inv.cells[k].id /\ best.distance = Distance(p, inv.cells[k].enu)
  BY <1>2, <1>3, ServerIsSector
<1> HIDE DEF best, obs
<1>5. ASSUME NEW k \in DOMAIN inv.cells
      PROVE  /\ inv.cells[k].id \in CellIds(inv)
             /\ CellOf(inv, inv.cells[k].id).enu = inv.cells[k].enu
  <2>1. inv.cells[k].id \in CellIds(inv)
    BY DEF CellIds
  <2>2. inv.cells[k].enu = Center(isd, inv.cells[k].id.site)
    BY DEF CellsPlaced, Placed
  <2> QED
    BY <2>1, <2>2, CellOfId
<1>6. /\ obs.agent = s.id /\ obs.tick = t /\ obs.pos = p /\ obs.cell = best.cell
      /\ obs.distance = best.distance
  BY <1>1
<1>7. obs.covered = Serves(best)
  BY <1>1
<1>8. Serves(best) => obs.cell \in CellIds(inv) /\ obs.distance = Distance(obs.pos, CellOf(inv, obs.cell).enu)
  <2> SUFFICES ASSUME Serves(best)
               PROVE  obs.cell \in CellIds(inv) /\ obs.distance = Distance(obs.pos, CellOf(inv, obs.cell).enu)
    OBVIOUS
  <2>1. PICK k \in DOMAIN inv.cells : best.cell = inv.cells[k].id /\ best.distance = Distance(p, inv.cells[k].enu)
    BY <1>4
  <2> QED
    BY <1>5, <1>6, <2>1
<1>9. ObservationSound(inv, obs)
  BY <1>4, <1>6, <1>7, <1>8 DEF ObservationSound
<1> QED
  BY <1>6, <1>9 DEF obs

\* The ring of the Timing Advance holds the distance it was made from.
LEMMA RingHoldsDistance ==
  ASSUME NEW metres \in Nat, NEW technology \in {"LTE", "GSM"}
  PROVE  /\ FromDistance(metres, technology) \in Nat
         /\ RingContains(Ring(FromDistance(metres, technology), technology), metres)
<1> DEFINE R == Resolution[technology]
           v == (100 * metres) \div R
<1>1. R \in {7812, 55000}
  BY DEF Resolution
<1>2. FromDistance(metres, technology) = v
  BY DEF FromDistance
<1>3. v \in Nat /\ v * R <= 100 * metres /\ 100 * metres < (v + 1) * R
  <2> HIDE DEF R
  <2>1. CASE R = 7812
    BY <2>1
  <2>2. CASE R = 55000
    BY <2>2
  <2> QED
    BY <1>1, <2>1, <2>2
<1>4. Ring(v, technology).inner = v * R /\ Ring(v, technology).outer = (v + 1) * R
  BY DEF Ring
<1> HIDE DEF v, R
<1> QED
  BY <1>2, <1>3, <1>4 DEF RingContains

\* What the injection makes of a record: it stays a record of the event and
\* of the subscriber, and departs from it where the rule says and nowhere else.
LEMMA ManipulatedAsRuled ==
  ASSUME NEW inv, NEW isd, CellsPlaced(inv, isd),
         NEW r \in Message, r.cell \in CellIds(inv),
         NEW rule \in 1..5, NEW agent \in Nat, r.imei = agent, NEW u \in 0..Mille - 1
  PROVE  /\ rule = Gap => Manipulate(inv, r, rule, agent, u) = None
         /\ rule # Gap =>
              /\ Manipulate(inv, r, rule, agent, u) \in Message
              /\ Manipulate(inv, r, rule, agent, u).event = r.event
              /\ Manipulate(inv, r, rule, agent, u).msisdn = r.msisdn
              /\ Manipulate(inv, r, rule, agent, u).ta = r.ta
              /\ rule = FakeCell <=> Manipulate(inv, r, rule, agent, u).cell \notin CellIds(inv)
              /\ rule = TimeShift <=> Manipulate(inv, r, rule, agent, u).time # r.time
              /\ rule = DeviceSwap <=> Manipulate(inv, r, rule, agent, u).imei # agent
<1> DEFINE m == Manipulate(inv, r, rule, agent, u)
           other == OtherAgent(agent, u)
<1> USE DEF FakeCell, Jump, TimeShift, Gap, DeviceSwap
<1>1. CellIds(inv) \in SUBSET SectorId
  BY CellOfId
<1>2. r.event \in EventIds /\ r.time \in Int /\ r.msisdn \in Nat
  BY DEF Message
<1>3. CASE rule = FakeCell
  <2>1. m = [r EXCEPT !.cell = FakeCellId(r.event)]
    BY <1>3 DEF Manipulate
  <2>2. FakeCellId(r.event) \in [fake : EventIds]
    BY <1>2 DEF FakeCellId
  <2>3. \A c \in [fake : EventIds] : c \notin SectorId
    BY DEF SectorId
  <2>4. m \in Message
    BY <2>1, <2>2 DEF Message
  <2>5. m.cell = FakeCellId(r.event) /\ m.event = r.event /\ m.msisdn = r.msisdn
        /\ m.time = r.time /\ m.imei = r.imei /\ m.ta = r.ta
    BY <2>1 DEF Message
  <2> HIDE DEF m
  <2>6. m.cell \notin CellIds(inv)
    BY <1>1, <2>2, <2>3, <2>5
  <2> QED
    BY <1>3, <2>4, <2>5, <2>6 DEF m
<1>4. CASE rule = Jump
  <2>1. m = [r EXCEPT !.cell = FarthestCell(inv, r.cell)]
    BY <1>4 DEF Manipulate
  <2>2. FarthestCell(inv, r.cell) \in CellIds(inv)
    BY FarthestIsCell
  <2>3. FarthestCell(inv, r.cell) \in SectorId
    BY <1>1, <2>2
  <2>4. m \in Message
    BY <2>1, <2>3 DEF Message
  <2>5. m.cell = FarthestCell(inv, r.cell) /\ m.event = r.event /\ m.msisdn = r.msisdn
        /\ m.time = r.time /\ m.imei = r.imei /\ m.ta = r.ta
    BY <2>1 DEF Message
  <2> HIDE DEF m
  <2> QED
    BY <1>4, <2>2, <2>4, <2>5 DEF m
<1>5. CASE rule = TimeShift
  <2>1. m = [r EXCEPT !.time = r.time + DefaultTimeShift]
    BY <1>5 DEF Manipulate
  <2>2. r.time + DefaultTimeShift \in Int /\ r.time + DefaultTimeShift # r.time
    BY <1>2 DEF DefaultTimeShift
  <2>4. m \in Message
    BY <2>1, <2>2 DEF Message
  <2>5. m.time = r.time + DefaultTimeShift /\ m.event = r.event /\ m.msisdn = r.msisdn
        /\ m.cell = r.cell /\ m.imei = r.imei /\ m.ta = r.ta
    BY <2>1 DEF Message
  <2> HIDE DEF m
  <2> QED
    BY <1>5, <2>2, <2>4, <2>5 DEF m
<1>6. CASE rule = Gap
  <2>1. m = None
    BY <1>6 DEF Manipulate
  <2> QED
    BY <1>6, <2>1
<1>7. CASE rule = DeviceSwap
  <2>1. m = [r EXCEPT !.imei = other]
    BY <1>7 DEF Manipulate
  <2>2. other \in Nat /\ other # agent
    BY DEF OtherAgent, Mille
  <2> HIDE DEF other
  <2>4. m \in Message
    BY <2>1, <2>2 DEF Message
  <2>5. m.imei = other /\ m.event = r.event /\ m.msisdn = r.msisdn
        /\ m.cell = r.cell /\ m.time = r.time /\ m.ta = r.ta
    BY <2>1 DEF Message
  <2> HIDE DEF m
  <2> QED
    BY <1>7, <2>2, <2>4, <2>5 DEF m
<1> QED
  BY <1>3, <1>4, <1>5, <1>6, <1>7

\* What is so of every pair: there is a record unless the event is outside
\* coverage or deleted, and the record is of the event and its subscriber.
PairWhole(p) ==
  /\ p.truth.covered \in BOOLEAN
  /\ p.record = None <=> ~p.truth.covered \/ p.truth.injectedRule = Gap
  /\ p.truth.injectedRule = Gap => p.truth.covered
  /\ p.record # None => /\ p.record \in Message
                        /\ p.record.event = p.truth.event /\ p.record.msisdn = p.truth.agent

\* The label names what was done to the record; the ring of an unlabelled one
\* holds the true position.
PairLabelled(inv, scn, p) ==
  LET r == p.record
      g == p.truth
      ta == scn.timingAdvance
  IN  p.record # None =>
        /\ g.injectedRule \in {Absent, FakeCell, Jump, TimeShift, DeviceSwap}
        /\ g.injectedRule = FakeCell <=> r.cell \notin CellIds(inv)
        /\ g.injectedRule = TimeShift <=> r.time # g.time
        /\ g.injectedRule = DeviceSwap <=> r.imei # g.agent
        /\ g.injectedRule = Absent /\ ta.enabled =>
             RingContains(Ring(r.ta, ta.technology), Distance(g.location, CellOf(inv, r.cell).enu))

\* The scenario, as far as the events depend on it.
EventsTyped(scn) ==
  /\ scn.simulation.tickMinutes \in Int
  /\ scn.run.scenario \in {"A", "B", "C", "D"}
  /\ scn.timingAdvance.enabled \in BOOLEAN
  /\ scn.timingAdvance.enabled => scn.timingAdvance.technology \in {"LTE", "GSM"}
  /\ RuleWeightsValid(scn.integrity.ruleWeights)

\* An event is built as an honest record of where its agent is, or without
\* one.
LEMMA BuiltPair ==
  ASSUME NEW inv, NEW isd, CellsPlaced(inv, isd), NEW scn, EventsTyped(scn),
         NEW obs, ObservationSound(inv, obs), obs.agent \in Nat, obs.tick \in Nat, NEW seq \in Nat,
         Draw("type", obs.agent, Slot(obs.tick, seq)) \in 0..Mille - 1, None \notin Message
  PROVE  /\ BuildPair(scn, obs, seq).truth.event = EventId(obs.agent, obs.tick, seq)
         /\ BuildPair(scn, obs, seq).truth.injectedRule = Absent
         /\ PairWhole(BuildPair(scn, obs, seq))
         /\ PairLabelled(inv, scn, BuildPair(scn, obs, seq))
         /\ BuildPair(scn, obs, seq).record # None =>
              /\ BuildPair(scn, obs, seq).record.cell \in CellIds(inv)
              /\ BuildPair(scn, obs, seq).record.imei = obs.agent
              /\ BuildPair(scn, obs, seq).record.time = BuildPair(scn, obs, seq).truth.time
              /\ BuildPair(scn, obs, seq).truth.agent = obs.agent
<1> DEFINE id == EventId(obs.agent, obs.tick, seq)
           at == TimeAt(scn, obs.tick)
           type == EventType(obs.agent, obs.tick, seq)
           ta == TimingAdvance(scn, obs.distance)
           truth == [event |-> id, time |-> at, agent |-> obs.agent, location |-> obs.pos,
                     covered |-> obs.covered, partition |-> PartitionOf(scn, id), injectedRule |-> Absent]
           record == [event |-> id, time |-> at, msisdn |-> obs.agent, imei |-> obs.agent,
                      type |-> type, cell |-> obs.cell, ta |-> ta, scenario |-> scn.run.scenario]
           p == BuildPair(scn, obs, seq)
<1>1. p = [truth |-> truth, record |-> IF obs.covered THEN record ELSE None]
  BY DEF BuildPair
<1>2. id \in EventIds /\ at \in Int
  BY DEF EventId, EventIds, TimeAt, EventsTyped
<1>3. type \in Range(EventTypes)
  <2> DEFINE u == Draw("type", obs.agent, Slot(obs.tick, seq))
  <2>1. u \in 0..999
    BY DEF Mille
  <2> HIDE DEF u
  <2>2. (u * 4) \div 1000 + 1 \in 1..4
    BY <2>1
  <2>3. type = EventTypes[(u * 4) \div 1000 + 1]
    BY DEF EventType, Mille, u
  <2>4. DOMAIN EventTypes = 1..4
    BY DEF EventTypes
  <2> HIDE DEF type
  <2> QED
    BY <2>2, <2>3, <2>4 DEF Range
<1>4. /\ ta \in Int
      /\ scn.timingAdvance.enabled =>
           RingContains(Ring(ta, scn.timingAdvance.technology), obs.distance)
  <2>1. CASE scn.timingAdvance.enabled
    <3>1. ta = FromDistance(obs.distance, scn.timingAdvance.technology)
      BY <2>1 DEF TimingAdvance
    <3>2. obs.distance \in Nat /\ scn.timingAdvance.technology \in {"LTE", "GSM"}
      BY <2>1 DEF ObservationSound, EventsTyped
    <3> HIDE DEF ta
    <3> QED
      BY <3>1, <3>2, RingHoldsDistance
  <2>2. CASE ~scn.timingAdvance.enabled
    BY <2>2 DEF TimingAdvance, Absent
  <2> QED
    BY <2>1, <2>2
<1> HIDE DEF id, at, type, ta
<1>5. obs.covered => record \in Message
  <2> SUFFICES ASSUME obs.covered PROVE record \in Message
    OBVIOUS
  <2>1. obs.cell \in SectorId
    BY CellOfId DEF ObservationSound
  <2>2. scn.run.scenario \in {"A", "B", "C", "D"}
    BY DEF EventsTyped
  <2> QED
    BY <1>2, <1>3, <1>4, <2>1, <2>2 DEF Message
<1>6. p.truth = truth /\ p.record = IF obs.covered THEN record ELSE None
  BY <1>1
<1> HIDE DEF p
<1>7. /\ p.truth.event = id /\ p.truth.time = at /\ p.truth.agent = obs.agent
      /\ p.truth.location = obs.pos /\ p.truth.injectedRule = Absent
  BY <1>6
<1>8. p.truth.covered = obs.covered /\ obs.covered \in BOOLEAN
  BY <1>6 DEF ObservationSound
<1>9. CASE ~obs.covered
  <2>1. p.record = None /\ ~p.truth.covered
    BY <1>6, <1>8, <1>9
  <2>2. PairWhole(p) /\ PairLabelled(inv, scn, p)
    BY <1>7, <1>8, <2>1 DEF PairWhole, PairLabelled, Absent, Gap
  <2> QED
    BY <1>7, <2>1, <2>2 DEF p, id
<1>10. CASE obs.covered
  <2>1. p.record = record /\ p.record \in Message /\ p.record # None /\ p.truth.covered
    BY <1>5, <1>6, <1>8, <1>10
  <2>2. /\ p.record.event = id /\ p.record.time = at /\ p.record.msisdn = obs.agent
        /\ p.record.imei = obs.agent /\ p.record.cell = obs.cell /\ p.record.ta = ta
    BY <2>1
  <2>3. /\ obs.cell \in CellIds(inv)
        /\ obs.distance = Distance(obs.pos, CellOf(inv, obs.cell).enu)
    BY <1>10 DEF ObservationSound
  <2>4. PairWhole(p)
    BY <1>7, <1>8, <2>1, <2>2 DEF PairWhole, Absent, Gap
  <2>5. PairLabelled(inv, scn, p)
    BY <1>4, <1>7, <2>2, <2>3 DEF PairLabelled, Absent, FakeCell, TimeShift, DeviceSwap
  <2> QED
    BY <1>7, <2>2, <2>3, <2>4, <2>5 DEF p, id
<1> QED
  BY <1>8, <1>9, <1>10

\* An injected event differs from what was built as its label says.
LEMMA InjectedPair ==
  ASSUME NEW inv, NEW isd, CellsPlaced(inv, isd), NEW scn, EventsTyped(scn),
         NEW obs, ObservationSound(inv, obs), obs.agent \in Nat, obs.tick \in Nat, NEW seq \in Nat,
         Draw("type", obs.agent, Slot(obs.tick, seq)) \in 0..Mille - 1,
         Draw("swap", obs.agent, Slot(obs.tick, seq)) \in 0..Mille - 1, None \notin Message
  PROVE  /\ Inject(inv, scn, BuildPair(scn, obs, seq)).truth.event = EventId(obs.agent, obs.tick, seq)
         /\ PairWhole(Inject(inv, scn, BuildPair(scn, obs, seq)))
         /\ PairLabelled(inv, scn, Inject(inv, scn, BuildPair(scn, obs, seq)))
<1> DEFINE b == BuildPair(scn, obs, seq)
           id == b.truth.event
           slot == Slot(obs.tick, seq)
           rule == PickRule(scn.integrity.ruleWeights, Draw("rule", obs.agent, slot))
           u == Draw("swap", obs.agent, slot)
           m == Manipulate(inv, b.record, rule, obs.agent, u)
           p == Inject(inv, scn, b)
<1>1. /\ id = EventId(obs.agent, obs.tick, seq) /\ b.truth.injectedRule = Absent
      /\ PairWhole(b) /\ PairLabelled(inv, scn, b)
      /\ b.record # None => /\ b.record.cell \in CellIds(inv) /\ b.record.imei = obs.agent
                            /\ b.record.time = b.truth.time /\ b.truth.agent = obs.agent
  BY BuiltPair
<1>2. b.truth = [event |-> EventId(obs.agent, obs.tick, seq), time |-> TimeAt(scn, obs.tick),
                 agent |-> obs.agent, location |-> obs.pos, covered |-> obs.covered,
                 partition |-> PartitionOf(scn, EventId(obs.agent, obs.tick, seq)),
                 injectedRule |-> Absent]
  BY DEF BuildPair
<1>3. id[1] = obs.agent /\ Slot(id[2], id[3]) = slot
  BY <1>1 DEF EventId
<1>4. rule \in 1..5
  BY DrawnRuleHasWeight DEF EventsTyped
<1>5. u \in 0..Mille - 1
  OBVIOUS
<1>6. p = b \/ /\ b.record # None
               /\ p = [truth |-> [b.truth EXCEPT !.injectedRule = rule], record |-> m]
  <2> HIDE DEF b
  <2> QED
    BY <1>3 DEF Inject
<1>7. CASE p = b
  <2> HIDE DEF p, b
  <2> QED
    BY <1>1, <1>7 DEF p, b
<1>8. CASE b.record # None /\ p = [truth |-> [b.truth EXCEPT !.injectedRule = rule], record |-> m]
  <2> DEFINE truth == b.truth
  <2>1. p.record = m /\ p.truth = [truth EXCEPT !.injectedRule = rule]
    BY <1>8
  <2> HIDE DEF p, rule, m
  <2>2. /\ p.truth.event = truth.event /\ p.truth.time = truth.time /\ p.truth.agent = truth.agent
        /\ p.truth.covered = truth.covered /\ p.truth.injectedRule = rule
    BY <1>2, <2>1
  <2> HIDE DEF truth
  <2>3. /\ b.record \in Message /\ b.record.event = truth.event
        /\ b.record.msisdn = truth.agent
    BY <1>1, <1>8 DEF PairWhole, truth
  <2>4. truth.covered
    BY <1>1, <1>8 DEF PairWhole, truth
  <2>5. truth.covered \in BOOLEAN
    BY <1>1 DEF PairWhole, truth
  <2>6. b.record.cell \in CellIds(inv) /\ b.record.imei = obs.agent /\ b.record.time = truth.time
        /\ truth.agent = obs.agent
    BY <1>1, <1>8 DEF truth
  <2> DEFINE r == b.record
  <2>10. /\ r \in Message /\ r.cell \in CellIds(inv) /\ r.imei = obs.agent
         /\ m = Manipulate(inv, r, rule, obs.agent, u)
    BY <2>3, <2>6 DEF m
  <2> HIDE DEF b, u, r
  <2>7. /\ rule = Gap => m = None
        /\ rule # Gap => /\ m \in Message /\ m.event = r.event /\ m.msisdn = r.msisdn
                         /\ rule = FakeCell <=> m.cell \notin CellIds(inv)
                         /\ rule = TimeShift <=> m.time # r.time
                         /\ rule = DeviceSwap <=> m.imei # obs.agent
    BY <1>4, <1>5, <2>10, ManipulatedAsRuled
  <2>8. CASE rule = Gap
    <3>1. p.record = None /\ p.truth.covered /\ p.truth.injectedRule = Gap /\ p.truth.covered \in BOOLEAN
      BY <2>1, <2>2, <2>4, <2>5, <2>7, <2>8
    <3>2. PairWhole(p) /\ PairLabelled(inv, scn, p)
      BY <3>1 DEF PairWhole, PairLabelled
    <3> QED
      BY <1>1, <2>2, <3>2 DEF p, b, truth
  <2>9. CASE rule # Gap
    <3>1. p.record \in Message /\ p.record # None
      BY <2>1, <2>7, <2>9
    <3>2. p.truth.covered /\ p.truth.covered \in BOOLEAN
      BY <2>2, <2>4, <2>5
    <3>3. p.record.event = p.truth.event /\ p.record.msisdn = p.truth.agent
      BY <2>1, <2>2, <2>3, <2>7, <2>9 DEF r
    <3>4. PairWhole(p)
      BY <2>2, <2>9, <3>1, <3>2, <3>3 DEF PairWhole
    <3>5. /\ rule = FakeCell <=> p.record.cell \notin CellIds(inv)
          /\ rule = TimeShift <=> p.record.time # p.truth.time
          /\ rule = DeviceSwap <=> p.record.imei # p.truth.agent
      BY <2>1, <2>2, <2>6, <2>7, <2>9 DEF r
    <3>6. rule \in {FakeCell, Jump, TimeShift, DeviceSwap} /\ rule # Absent
      BY <1>4, <2>9 DEF FakeCell, Jump, TimeShift, Gap, DeviceSwap, Absent
    <3>7. PairLabelled(inv, scn, p)
      BY <2>2, <3>5, <3>6 DEF PairLabelled
    <3> QED
      BY <1>1, <2>2, <3>4, <3>7 DEF p, b, truth
  <2> QED
    BY <2>8, <2>9
<1> QED
  BY <1>6, <1>7, <1>8

-----------------------------------------------------------------------------
(* The anchors of an agent.                                                *)

\* A home is covered when it is found at all (population.placeHome).
LEMMA HomeCovered ==
  ASSUME NEW inv, NEW scn, NEW agent
  PROVE  \/ PlaceHome(inv, scn, agent) = None
         \/ Covered(inv, scn, PlaceHome(inv, scn, agent))
<1> DEFINE radius == 1000 * scn.profile.areaRadiusKM
           n == MaxPlacementAttempts
           good == [i \in 1 .. n |-> Covered(inv, scn, DiskPoint(agent, i, radius))]
           value == [i \in 1 .. n |-> DiskPoint(agent, i, radius)]
           Next1(f, i) == IF i > n THEN None
                          ELSE IF Covered(inv, scn, DiskPoint(agent, i, radius)) THEN DiskPoint(agent, i, radius)
                          ELSE f[i + 1]
           attempt == CHOOSE f : f = [i \in 1 .. n + 1 |-> Next1(f, i)]
<1>1. PlaceHome(inv, scn, agent) = attempt[1]
  BY DEF PlaceHome
<1>2. n \in Nat
  BY DEF MaxPlacementAttempts
<1> HIDE DEF n, radius
<1>3. ASSUME NEW f
      PROVE  Tries(f, n, good, value) <=> \A i \in 1 .. n + 1 : f[i] = Next1(f, i)
  <2>1. \A i \in 1 .. n + 1 : ~(i > n) => i \in 1 .. n
    BY <1>2
  <2> QED
    BY <2>1 DEF Tries
<1>4. \E f : f = [i \in 1 .. n + 1 |-> Next1(f, i)]
  <2> HIDE DEF good, value, Next1
  <2>1. PICK f \in [1 .. n + 1 -> {None} \cup {value[i] : i \in 1 .. n}] : Tries(f, n, good, value)
    BY <1>2, TriesSolved
  <2>2. f = [i \in 1 .. n + 1 |-> Next1(f, i)]
    BY <1>3, <2>1
  <2> QED
    BY <2>2
<1>5. Tries(attempt, n, good, value)
  <2>1. attempt = [i \in 1 .. n + 1 |-> Next1(attempt, i)]
    BY <1>4
  <2> HIDE DEF good, value, Next1, attempt
  <2>2. \A i \in 1 .. n + 1 : attempt[i] = Next1(attempt, i)
    BY <2>1
  <2> QED
    BY <1>3, <2>2
<1> HIDE DEF attempt
<1>6. \/ \E k \in 1 .. n : good[k] /\ attempt[1] = value[k]
      \/ attempt[1] = None
  <2> HIDE DEF good, value
  <2> QED
    BY <1>2, <1>5, TriesFind
<1> QED
  BY <1>1, <1>6

\* A workplace too, and it is within the area.
LEMMA WorkCovered ==
  ASSUME NEW inv, NEW scn, NEW agent, NEW home
  PROVE  \/ PlaceWork(inv, scn, agent, home) = None
         \/ /\ Covered(inv, scn, PlaceWork(inv, scn, agent, home))
            /\ Distance(PlaceWork(inv, scn, agent, home), Origin) <= 1000 * scn.profile.areaRadiusKM
<1> DEFINE Candidate(i) == WorkCandidate(scn, agent, i, home)
           Near(i) == Distance(Candidate(i), Origin) <= 1000 * scn.profile.areaRadiusKM
           n == MaxPlacementAttempts
           good == [i \in 1 .. n |-> Near(i) /\ Covered(inv, scn, Candidate(i))]
           value == [i \in 1 .. n |-> Candidate(i)]
           Next1(f, i) == IF i > n THEN None
                          ELSE IF Near(i) /\ Covered(inv, scn, Candidate(i)) THEN Candidate(i)
                          ELSE f[i + 1]
           attempt == CHOOSE f : f = [i \in 1 .. n + 1 |-> Next1(f, i)]
<1>1. PlaceWork(inv, scn, agent, home) = attempt[1]
  BY DEF PlaceWork
<1>2. n \in Nat
  BY DEF MaxPlacementAttempts
<1> HIDE DEF n, Near, Candidate
<1>3. ASSUME NEW f
      PROVE  Tries(f, n, good, value) <=> \A i \in 1 .. n + 1 : f[i] = Next1(f, i)
  <2>1. \A i \in 1 .. n + 1 : ~(i > n) => i \in 1 .. n
    BY <1>2
  <2> QED
    BY <2>1 DEF Tries
<1>4. \E f : f = [i \in 1 .. n + 1 |-> Next1(f, i)]
  <2> HIDE DEF good, value, Next1
  <2>1. PICK f \in [1 .. n + 1 -> {None} \cup {value[i] : i \in 1 .. n}] : Tries(f, n, good, value)
    BY <1>2, TriesSolved
  <2>2. f = [i \in 1 .. n + 1 |-> Next1(f, i)]
    BY <1>3, <2>1
  <2> QED
    BY <2>2
<1>5. Tries(attempt, n, good, value)
  <2>1. attempt = [i \in 1 .. n + 1 |-> Next1(attempt, i)]
    BY <1>4
  <2> HIDE DEF good, value, Next1, attempt
  <2>2. \A i \in 1 .. n + 1 : attempt[i] = Next1(attempt, i)
    BY <2>1
  <2> QED
    BY <1>3, <2>2
<1> HIDE DEF attempt
<1>6. \/ \E k \in 1 .. n : good[k] /\ attempt[1] = value[k]
      \/ attempt[1] = None
  <2> HIDE DEF good, value
  <2> QED
    BY <1>2, <1>5, TriesFind
<1>7. attempt[1] = None \/ \E k \in 1 .. n : attempt[1] = Candidate(k) /\ Near(k) /\ Covered(inv, scn, Candidate(k))
  BY <1>6
<1> QED
  BY <1>1, <1>7 DEF Near

\* A population that is settled: every agent is numbered as it is placed, lives
\* and works where it is covered, works inside the area, stays at work until
\* it leaves, and is home again before midnight (PlaceAgents).
THEOREM AgentsPlaced ==
  ASSUME NEW inv, NEW scn, PlaceAgents(inv, scn) # None,
         scn.profile.commuteSpeedKMH \in Nat \ {0}, NEW i \in 0..scn.simulation.agents - 1
  PROVE  LET s == PlaceAgents(inv, scn)[i]
         IN  /\ s.id = i
             /\ Covered(inv, scn, s.home) /\ Covered(inv, scn, s.work)
             /\ Distance(s.work, Origin) <= 1000 * scn.profile.areaRadiusKM
             /\ s.departWork + s.commute < s.departHome
             /\ s.departHome + s.commute < MinutesPerDay
<1> DEFINE n == scn.simulation.agents
           agents == [j \in 0..n - 1 |-> PlaceAgent(inv, scn, j)]
           home == PlaceHome(inv, scn, i)
           work == PlaceWork(inv, scn, i, home)
           commute == CommuteMinutes(Distance(home, work), scn.profile.commuteSpeedKMH)
           depart == PersonalizeRoutine(i, commute)
           s == AgentOf(i, home, work, commute, depart)
<1>1. PlaceAgents(inv, scn) = agents /\ agents[i] # None /\ AgentValid(agents[i])
  BY DEF PlaceAgents, Settled
<1>2. agents[i] = House(inv, scn, i, home)
  BY DEF PlaceAgent
<1>3. PlaceAgents(inv, scn)[i] = agents[i]
  BY <1>1
<1>4. Covered(inv, scn, home) \/ home = None
  BY HomeCovered
<1>5. work = None \/ (Covered(inv, scn, work) /\ Distance(work, Origin) <= 1000 * scn.profile.areaRadiusKM)
  <2> HIDE DEF home
  <2> QED
    BY WorkCovered
<1>6. commute \in Nat \ {0}
  <2> DEFINE metres == Distance(home, work)
             speed == scn.profile.commuteSpeedKMH
             d == 1000 * speed
             minutes == (metres * 60 + d - 1) \div d
  <2>1. metres \in Nat
    BY DistanceType
  <2>2. d \in Nat \ {0}
    OBVIOUS
  <2>3. commute = IF minutes < 1 THEN 1 ELSE minutes
    BY DEF CommuteMinutes
  <2> HIDE DEF metres, d, commute
  <2>4. metres * 60 + d - 1 \in Int
    BY <2>1, <2>2
  <2>5. minutes \in Int
    BY <2>2, <2>4
  <2> HIDE DEF minutes
  <2> QED
    BY <2>3, <2>5
<1> HIDE DEF agents, home
<1>7. home # None /\ agents[i] = Employ(scn, i, home, work)
  BY <1>1, <1>2 DEF House
<1> HIDE DEF work
<1>8. work # None /\ agents[i] = s
  BY <1>1, <1>7 DEF Employ
<1> HIDE DEF commute
<1>9. depart.home + commute < MinutesPerDay
  <2> DEFINE leave == ClampMinuteOfDay(NominalDepartWorkMin + Jitter(Draw("depart", i, 1)))
             drawn == ClampMinuteOfDay(NominalDepartHomeMin + Jitter(Draw("depart", i, 2)))
             arrived == leave + commute + 1
             back == IF drawn <= arrived THEN ClampMinuteOfDay(arrived + 1) ELSE drawn
  <2>1. depart.home = IF back + commute >= MinutesPerDay THEN MinutesPerDay - commute - 1 ELSE back
    BY DEF PersonalizeRoutine
  <2>2. depart.home \in 0 .. MinutesPerDay - 1
    <3> HIDE DEF depart
    <3> QED
      BY <1>1, <1>8 DEF AgentValid, AgentOf
  <2> HIDE DEF depart, back
  <2>3. CASE back + commute >= MinutesPerDay
    BY <1>6, <2>1, <2>3 DEF MinutesPerDay
  <2>4. CASE ~(back + commute >= MinutesPerDay)
    <3>1. depart.home = back /\ back \in Int
      BY <2>1, <2>2, <2>4 DEF MinutesPerDay
    <3> QED
      BY <1>6, <2>4, <3>1 DEF MinutesPerDay
  <2> QED
    BY <2>3, <2>4
<1> HIDE DEF depart
<1>10. /\ s.id = i /\ s.home = home /\ s.work = work /\ s.commute = commute
       /\ s.departWork = depart.work /\ s.departHome = depart.home
  BY DEF AgentOf
<1> HIDE DEF s
<1>11. s.departWork + s.commute < s.departHome
  <2>1. s.departHome > s.departWork + s.commute /\ s.departWork \in 0 .. MinutesPerDay - 1
        /\ s.departHome \in 0 .. MinutesPerDay - 1
    BY <1>1, <1>8 DEF AgentValid
  <2> QED
    BY <1>6, <1>10, <2>1 DEF MinutesPerDay
<1> QED
  BY <1>3, <1>4, <1>5, <1>7, <1>8, <1>9, <1>10, <1>11

-----------------------------------------------------------------------------
(* The events of a tick.                                                   *)

\* The agents of a population are numbered as they are placed.
LEMMA AgentsNumbered ==
  ASSUME NEW inv, NEW scn, PlaceAgents(inv, scn) # None, NEW i \in 0..scn.simulation.agents - 1
  PROVE  PlaceAgents(inv, scn)[i].id = i
<1> DEFINE n == scn.simulation.agents
           agents == [j \in 0..n - 1 |-> PlaceAgent(inv, scn, j)]
           home == PlaceHome(inv, scn, i)
           work == PlaceWork(inv, scn, i, home)
           commute == CommuteMinutes(Distance(home, work), scn.profile.commuteSpeedKMH)
<1>1. PlaceAgents(inv, scn) = agents /\ agents[i] # None
  BY DEF PlaceAgents, Settled
<1>2. agents[i] = House(inv, scn, i, home)
  BY DEF PlaceAgent
<1> HIDE DEF agents, home
<1>3. agents[i] = Employ(scn, i, home, work)
  BY <1>1, <1>2 DEF House
<1> HIDE DEF work
<1>4. agents[i] = AgentOf(i, home, work, commute, PersonalizeRoutine(i, commute))
  BY <1>1, <1>3 DEF Employ
<1> HIDE DEF commute
<1> QED
  BY <1>1, <1>4 DEF AgentOf

\* What the lemmas above ask of a tick of a population.
TickSound(inv, isd, scn, agents, t) ==
  /\ CellsPlaced(inv, isd) /\ EventsTyped(scn) /\ None \notin Message
  /\ scn.simulation.agents \in Nat /\ t \in Nat
  /\ \A a \in 0..scn.simulation.agents - 1 :
       /\ agents[a].id = a
       /\ \A k \in DOMAIN inv.cells :
            RxDBm(inv.cells[k], PositionAt(agents[a], scn.simulation.tickMinutes, t)) \in Int
       /\ \A purpose \in {"type", "swap"}, seq \in 0..MaxEventsPerTick - 1 :
            Draw(purpose, a, Slot(t, seq)) \in 0..Mille - 1

\* The events of one agent in one tick, in the order of their numbers.
LEMMA AgentPairs ==
  ASSUME NEW inv, NEW isd, NEW scn, NEW agents, NEW t, TickSound(inv, isd, scn, agents, t),
         NEW a \in 0..scn.simulation.agents - 1
  PROVE  /\ \E n \in Nat : DOMAIN PairsOfAgent(inv, scn, agents[a], t) = 1..n
         /\ \A k \in DOMAIN PairsOfAgent(inv, scn, agents[a], t) :
              LET p == PairsOfAgent(inv, scn, agents[a], t)[k]
              IN  p.truth.event = EventId(a, t, k - 1) /\ PairWhole(p) /\ PairLabelled(inv, scn, p)
         /\ PairsOfAgent(inv, scn, agents[a], t) \in Seq(Range(PairsOfAgent(inv, scn, agents[a], t)))
<1> DEFINE s == agents[a]
           n == Count(scn, s.id, t)
           obs == Observe(inv, scn, s, t)
           Pair(k) == Inject(inv, scn, BuildPair(scn, obs, k - 1))
           pairs == PairsOfAgent(inv, scn, s, t)
<1>1. n \in 0..MaxEventsPerTick
  BY CountType DEF Count
<1>2. pairs = [k \in 1..n |-> Pair(k)]
  BY DEF PairsOfAgent
<1>3. s.id = a /\ a \in Nat /\ t \in Nat
  BY DEF TickSound
<1>4. ObservationSound(inv, obs) /\ obs.agent = a /\ obs.tick = t
  <2>1. CellsPlaced(inv, isd) /\ \A k \in DOMAIN inv.cells :
          RxDBm(inv.cells[k], PositionAt(s, scn.simulation.tickMinutes, t)) \in Int
    BY DEF TickSound
  <2> HIDE DEF s
  <2> QED
    BY <1>3, <2>1, ObservationIsSound
<1> HIDE DEF n, obs
<1>5. ASSUME NEW k \in 1..n
      PROVE  Pair(k).truth.event = EventId(a, t, k - 1) /\ PairWhole(Pair(k)) /\ PairLabelled(inv, scn, Pair(k))
  <2> DEFINE seq == k - 1
  <2>1. seq \in Nat /\ seq \in 0..MaxEventsPerTick - 1
    BY <1>1 DEF MaxEventsPerTick
  <2> HIDE DEF seq
  <2>2. Draw("type", a, Slot(t, seq)) \in 0..Mille - 1 /\ Draw("swap", a, Slot(t, seq)) \in 0..Mille - 1
    BY <2>1 DEF TickSound
  <2>3. CellsPlaced(inv, isd) /\ EventsTyped(scn) /\ None \notin Message
    BY DEF TickSound
  <2>4. LET p == Inject(inv, scn, BuildPair(scn, obs, seq))
        IN  p.truth.event = EventId(a, t, seq) /\ PairWhole(p) /\ PairLabelled(inv, scn, p)
    BY <1>3, <1>4, <2>1, <2>2, <2>3, InjectedPair
  <2> QED
    BY <2>4 DEF seq
<1> HIDE DEF Pair
<1>6. DOMAIN pairs = 1..n /\ n \in Nat /\ \A k \in 1..n : pairs[k] = Pair(k)
  BY <1>1, <1>2 DEF MaxEventsPerTick
<1>7. pairs \in Seq(Range(pairs))
  <2>1. pairs \in [1..n -> Range(pairs)]
    BY <1>2, <1>6 DEF Range
  <2> QED
    BY <1>6, <2>1
<1> HIDE DEF pairs
<1>8. \A k \in DOMAIN pairs : pairs[k].truth.event = EventId(a, t, k - 1) /\ PairWhole(pairs[k])
                              /\ PairLabelled(inv, scn, pairs[k])
  BY <1>5, <1>6
<1> QED
  BY <1>6, <1>7, <1>8 DEF pairs, s

\* The pairs of a tick: every one is sound, and no event is there twice.
LEMMA TickEvents ==
  ASSUME NEW inv, NEW isd, NEW scn, NEW agents, NEW t, TickSound(inv, isd, scn, agents, t)
  PROVE  /\ PairsOfTick(inv, scn, agents, t) \in Seq(Range(PairsOfTick(inv, scn, agents, t)))
         /\ \A k \in DOMAIN PairsOfTick(inv, scn, agents, t) :
              LET p == PairsOfTick(inv, scn, agents, t)[k]
              IN  /\ PairWhole(p) /\ PairLabelled(inv, scn, p)
                  /\ \E a, j \in Nat : p.truth.event = EventId(a, t, j)
         /\ \A k, l \in DOMAIN PairsOfTick(inv, scn, agents, t) :
              PairsOfTick(inv, scn, agents, t)[k].truth.event = PairsOfTick(inv, scn, agents, t)[l].truth.event
                => k = l
<1> DEFINE n == scn.simulation.agents
           ss == [i \in 1..n |-> PairsOfAgent(inv, scn, agents[i - 1], t)]
           S == UNION {Range(ss[i]) : i \in 1..n}
           pairs == PairsOfTick(inv, scn, agents, t)
<1>1. pairs = FlattenSeq(ss)
  BY DEF PairsOfTick
<1>2. n \in Nat
  BY DEF TickSound
<1>3. ASSUME NEW i \in 1..n
      PROVE  /\ \A k \in DOMAIN ss[i] : /\ k \in Nat /\ k - 1 \in Nat /\ i - 1 \in Nat
                                        /\ ss[i][k].truth.event = EventId(i - 1, t, k - 1)
                                        /\ PairWhole(ss[i][k]) /\ PairLabelled(inv, scn, ss[i][k])
             /\ ss[i] \in Seq(Range(ss[i]))
  <2> DEFINE a == i - 1
  <2>1. a \in 0..n - 1 /\ a \in Nat
    BY <1>2
  <2>2. ss[i] = PairsOfAgent(inv, scn, agents[a], t)
    OBVIOUS
  <2>5. a \in 0..scn.simulation.agents - 1
    BY <2>1
  <2> HIDE DEF a, ss, n
  <2>6. /\ \E m \in Nat : DOMAIN PairsOfAgent(inv, scn, agents[a], t) = 1..m
        /\ \A k \in DOMAIN PairsOfAgent(inv, scn, agents[a], t) :
              LET p == PairsOfAgent(inv, scn, agents[a], t)[k]
              IN  p.truth.event = EventId(a, t, k - 1) /\ PairWhole(p) /\ PairLabelled(inv, scn, p)
        /\ PairsOfAgent(inv, scn, agents[a], t) \in Seq(Range(PairsOfAgent(inv, scn, agents[a], t)))
    BY ONLY TickSound(inv, isd, scn, agents, t), <2>5, AgentPairs
  <2>3. /\ \E m \in Nat : DOMAIN ss[i] = 1..m
        /\ \A k \in DOMAIN ss[i] :
             ss[i][k].truth.event = EventId(a, t, k - 1) /\ PairWhole(ss[i][k]) /\ PairLabelled(inv, scn, ss[i][k])
        /\ ss[i] \in Seq(Range(ss[i]))
    BY <2>2, <2>6
  <2>4. \A k \in DOMAIN ss[i] : k \in Nat /\ k - 1 \in Nat
    BY <2>3
  <2> QED
    BY <2>1, <2>3, <2>4 DEF a
<1>4. ss \in Seq(Seq(S)) /\ Len(ss) = n
  <2>1. \A i \in 1..n : ss[i] \in Seq(S)
    <3> SUFFICES ASSUME NEW i \in 1..n PROVE ss[i] \in Seq(S)
      OBVIOUS
    <3>1. Range(ss[i]) \subseteq S
      OBVIOUS
    <3>2. ss[i] \in Seq(Range(ss[i]))
      BY <1>3
    <3> HIDE DEF S, ss
    <3> QED
      BY <3>1, <3>2
  <2>2. ss \in [1..n -> Seq(S)]
    <3> HIDE DEF S
    <3> QED
      BY <2>1
  <2> HIDE DEF S, ss, n
  <2> QED
    BY <1>2, <2>2
<1> HIDE DEF ss, S, pairs
<1>5. PICK pos : Spells(pairs, ss, n, pos)
  BY <1>1, <1>4, Flatten
<1>6. pairs \in Seq(S)
  BY <1>1, <1>4, Flatten
<1>7. ASSUME NEW k \in DOMAIN pairs
      PROVE  /\ pos[k][1] \in 1..n /\ pos[k][2] \in DOMAIN ss[pos[k][1]]
             /\ pairs[k] = ss[pos[k][1]][pos[k][2]] /\ pos[k] = <<pos[k][1], pos[k][2]>>
  BY <1>5 DEF Spells
<1>8. ASSUME NEW k \in DOMAIN pairs
      PROVE  /\ PairWhole(pairs[k]) /\ PairLabelled(inv, scn, pairs[k])
             /\ \E a, j \in Nat : pairs[k].truth.event = EventId(a, t, j)
             /\ pos[k][1] \in Nat /\ pos[k][2] \in Nat
             /\ pairs[k].truth.event = EventId(pos[k][1] - 1, t, pos[k][2] - 1)
  <2> DEFINE i == pos[k][1]
             j == pos[k][2]
  <2>1. i \in 1..n /\ j \in DOMAIN ss[i] /\ pairs[k] = ss[i][j]
    BY <1>7
  <2>2. i \in Nat
    BY <1>2, <2>1
  <2> HIDE DEF i, j
  <2>3. /\ j \in Nat /\ j - 1 \in Nat /\ i - 1 \in Nat
        /\ pairs[k].truth.event = EventId(i - 1, t, j - 1)
        /\ PairWhole(pairs[k]) /\ PairLabelled(inv, scn, pairs[k])
    BY <1>3, <2>1
  <2> QED
    BY <2>2, <2>3 DEF i, j
<1>9. ASSUME NEW k \in DOMAIN pairs, NEW l \in DOMAIN pairs,
             pairs[k].truth.event = pairs[l].truth.event
      PROVE  k = l
  <2>1. EventId(pos[k][1] - 1, t, pos[k][2] - 1) = EventId(pos[l][1] - 1, t, pos[l][2] - 1)
    BY <1>8, <1>9
  <2>2. /\ pos[k][1] \in Nat /\ pos[l][1] \in Nat /\ pos[k][2] \in Nat /\ pos[l][2] \in Nat
    BY <1>8
  <2>3. pos[k][1] = pos[l][1] /\ pos[k][2] = pos[l][2]
    BY <2>1, <2>2 DEF EventId
  <2>4. pos[k] = pos[l]
    BY <1>7, <2>3
  <2> QED
    BY <1>5, <2>4 DEF Spells
<1>10. pairs \in Seq(Range(pairs))
  <2>1. Len(pairs) \in Nat /\ pairs \in [1..Len(pairs) -> S]
    BY <1>6
  <2>2. pairs \in [1..Len(pairs) -> Range(pairs)]
    BY <2>1 DEF Range
  <2> QED
    BY <2>1, <2>2
<1> QED
  BY <1>8, <1>9, <1>10 DEF pairs
===============================================================================
