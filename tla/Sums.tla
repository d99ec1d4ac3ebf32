-------------------------------- MODULE Sums --------------------------------
(***************************************************************************)
(* What the proofs about the kernels and about the training scripts need   *)
(* of sums over finite sets: they do not depend on the order in which      *)
(* CHOOSE takes the values, they are linear, and they can be taken by      *)
(* parts.  All are inductions on the number of values, by a smallest       *)
(* counterexample.  Then some facts about division.                        *)
(***************************************************************************)
EXTENDS Integers, FiniteSetTheorems, WellFoundedInduction, TLAPS

\* Every nonempty set of naturals has a least element.
LEMMA LeastNatural ==
  ASSUME NEW T, T \subseteq Nat, T # {}
  PROVE  \E n \in T : \A m \in T : n <= m
<1>1. IsWellFoundedOn(OpToRel(<, Nat), Nat)
  BY NatLessThanWellFounded
<1>2. PICK R : R = OpToRel(<, Nat)
  OBVIOUS
<1>3. \A x, y \in Nat : x < y => <<x, y>> \in R
  BY <1>2 DEF OpToRel
<1>4. IsWellFoundedOn(R, Nat)
  BY <1>1, <1>2, Zenon
<1>5. \E x \in T : \A y \in T : ~ (<<y, x>> \in R)
  BY <1>4, WFMin, Zenon
<1>6. \A x, y \in Nat : ~(x <= y) => y < x
  OBVIOUS
<1> QED
  BY <1>3, <1>5, <1>6, Zenon

\* The value added next, and what then is the total so far.
First(s) == CHOOSE x \in s : TRUE
Added(f, g, s) == IF s = {} THEN 0 ELSE f[First(s)] + g[s \ {First(s)}]
Totals(f) == CHOOSE g : g = [s \in SUBSET (DOMAIN f) |-> Added(f, g, s)]

\* The total of the values of f.
TotalOf(f) == Totals(f)[DOMAIN f]

LEMMA OneLess ==
  ASSUME NEW S, IsFiniteSet(S), NEW s \in SUBSET S
  PROVE  /\ Cardinality(s) \in Nat /\ Cardinality(s) <= Cardinality(S)
         /\ s # {} => /\ First(s) \in s /\ s \ {First(s)} \in SUBSET S
                      /\ Cardinality(s \ {First(s)}) = Cardinality(s) - 1
                      /\ Cardinality(s) # 0
<1>1. IsFiniteSet(s) /\ Cardinality(s) <= Cardinality(S)
  BY FS_Subset
<1>2. Cardinality(s) \in Nat /\ (Cardinality(s) = 0 => s = {})
  BY <1>1, FS_CardinalityType, FS_EmptySet
<1>3. s # {} => First(s) \in s
  BY DEF First
<1> QED
  BY <1>1, <1>2, <1>3, FS_RemoveElement

\* There are such totals.
LEMMA TotalsExist ==
  ASSUME NEW f, NEW S, S = DOMAIN f, IsFiniteSet(S)
  PROVE  \E g : g = [s \in SUBSET S |-> Added(f, g, s)]
<1> DEFINE Upto(n) == {s \in SUBSET S : Cardinality(s) <= n}
           Equations(g, n) == g = [s \in Upto(n) |-> Added(f, g, s)]
<1>1. PICK T : T = {n \in Nat : ~ \E g : Equations(g, n)}
  OBVIOUS
<1>2. ASSUME T # {} PROVE FALSE
  <2>1. T \subseteq Nat
    BY <1>1
  <2>2. PICK n \in T : \A m \in T : n <= m
    BY <1>2, <2>1, LeastNatural, Zenon
  <2>3. n \in Nat /\ ~ \E g : Equations(g, n)
    BY <1>1
  <2>4. PICK g : n # 0 => Equations(g, n - 1)
    <3>1. n # 0 => n - 1 \in Nat /\ n - 1 \notin T
      BY <2>2, <2>3
    <3> QED
      BY <1>1, <3>1
  <2>5. PICK h : h = [s \in Upto(n) |-> Added(f, g, s)]
    OBVIOUS
  <2>6. ASSUME NEW s \in Upto(n) PROVE h[s] = Added(f, h, s)
    <3>1. h[s] = Added(f, g, s)
      BY <2>5
    <3>2. CASE s = {}
      BY <3>1, <3>2 DEF Added
    <3>3. CASE s # {}
      <4>1. PICK rest : rest = s \ {First(s)}
        OBVIOUS
      <4>2. /\ Cardinality(s) \in Nat /\ Cardinality(s) <= n /\ Cardinality(s) # 0
            /\ rest \in SUBSET S /\ Cardinality(rest) = Cardinality(s) - 1
        BY <3>3, <4>1, OneLess
      <4>3. n # 0 /\ Cardinality(rest) <= n - 1 /\ Cardinality(rest) <= n
        BY <2>3, <4>2
      <4>4. rest \in Upto(n - 1) /\ rest \in Upto(n)
        BY <4>2, <4>3
      <4>5. g[rest] = Added(f, g, rest) /\ h[rest] = Added(f, g, rest)
        <5>1. g = [u \in Upto(n - 1) |-> Added(f, g, u)]
          BY <2>4, <4>3
        <5> HIDE DEF Upto
        <5> QED
          BY <2>5, <4>4, <5>1, Zenon
      <4> QED
        BY <3>1, <3>3, <4>1, <4>5 DEF Added
    <3> QED
      BY <3>2, <3>3
  <2>7. h = [s \in Upto(n) |-> h[s]]
    BY <2>5
  <2>8. Equations(h, n)
    <3> HIDE DEF Upto
    <3> QED
      BY <2>6, <2>7, Zenon
  <2> QED
    BY <2>3, <2>8
<1>3. PICK n \in Nat : n = Cardinality(S)
  BY FS_CardinalityType
<1>4. PICK g : Equations(g, n)
  BY <1>1, <1>2
<1>5. Upto(n) = SUBSET S
  <2>1. \A s \in SUBSET S : Cardinality(s) <= n
    BY <1>3, OneLess, Zenon
  <2> QED
    BY <2>1
<1> QED
  BY <1>4, <1>5

LEMMA TotalsAre ==
  ASSUME NEW f, NEW S, S = DOMAIN f, IsFiniteSet(S)
  PROVE  \A s \in SUBSET S : Totals(f)[s] = Added(f, Totals(f), s)
<1>1. \E g : g = [s \in SUBSET (DOMAIN f) |-> Added(f, g, s)]
  BY TotalsExist, Zenon
<1>2. PICK g : g = Totals(f)
  OBVIOUS
<1>3. g = [s \in SUBSET (DOMAIN f) |-> Added(f, g, s)]
  BY <1>1, <1>2, Zenon DEF Totals
<1> QED
  BY <1>2, <1>3, Zenon

\* f is the sum of g and c times h, all of them with the domain S.
IsCombination(S, f, g, c, h) ==
  /\ DOMAIN f = S /\ DOMAIN g = S /\ DOMAIN h = S
  /\ \A x \in S : g[x] \in Int /\ h[x] \in Int /\ f[x] = g[x] + c * h[x]

\* The total of a sum is the sum of the totals.
LEMMA TotalsAreLinear ==
  ASSUME NEW S, IsFiniteSet(S), NEW c \in Int,
         NEW f, NEW g, NEW h, IsCombination(S, f, g, c, h)
  PROVE  TotalOf(g) \in Int /\ TotalOf(h) \in Int /\ TotalOf(f) = TotalOf(g) + c * TotalOf(h)
<1> USE DEF IsCombination
<1>1. PICK F, G, H :
        /\ F = Totals(f) /\ G = Totals(g) /\ H = Totals(h)
        /\ \A s \in SUBSET S : F[s] = Added(f, F, s) /\ G[s] = Added(g, G, s) /\ H[s] = Added(h, H, s)
  BY TotalsAre
<1> DEFINE Linear(s) == G[s] \in Int /\ H[s] \in Int /\ F[s] = G[s] + c * H[s]
<1>2. PICK T : T = {n \in Nat : \E s \in SUBSET S : Cardinality(s) = n /\ ~Linear(s)}
  OBVIOUS
<1>3. ASSUME T # {} PROVE FALSE
  <2>1. T \subseteq Nat
    BY <1>2
  <2>2. PICK n \in T : \A m \in T : n <= m
    BY <1>3, <2>1, LeastNatural, Zenon
  <2>3. PICK s \in SUBSET S : Cardinality(s) = n /\ ~Linear(s)
    BY <1>2
  <2>4. F[s] = Added(f, F, s) /\ G[s] = Added(g, G, s) /\ H[s] = Added(h, H, s)
    BY <1>1
  <2>5. CASE s = {}
    <3>1. F[s] = 0 /\ G[s] = 0 /\ H[s] = 0
      BY <2>4, <2>5 DEF Added
    <3> QED
      BY <2>3, <3>1
  <2>6. CASE s # {}
    <3>1. PICK x, rest : x = First(s) /\ rest = s \ {x}
      OBVIOUS
    <3>2. /\ n \in Nat /\ n # 0 /\ x \in S
          /\ rest \in SUBSET S /\ Cardinality(rest) = n - 1
      BY <2>3, <2>6, <3>1, OneLess
    <3>3. n - 1 \in Nat /\ n - 1 \notin T
      BY <2>2, <3>2
    <3>4. Linear(rest)
      BY <1>2, <3>2, <3>3
    <3>5. F[s] = f[x] + F[rest] /\ G[s] = g[x] + G[rest] /\ H[s] = h[x] + H[rest]
      BY <2>4, <2>6, <3>1 DEF Added
    <3>6. \A a, b, p, q \in Int : (a + c * b) + (p + c * q) = (a + p) + c * (b + q)
      OBVIOUS
    <3> QED
      BY <2>3, <3>2, <3>4, <3>5, <3>6
  <2> QED
    BY <2>5, <2>6
<1>4. Linear(S)
  <2>1. S \in SUBSET S /\ Cardinality(S) \in Nat
    BY FS_CardinalityType
  <2> QED
    BY <1>2, <1>3, <2>1
<1>5. TotalOf(f) = F[S] /\ TotalOf(g) = G[S] /\ TotalOf(h) = H[S]
  BY <1>1 DEF TotalOf
<1> QED
  BY <1>4, <1>5

\* A set of subsets has one from which nothing can be removed.
LEMMA SmallestSet ==
  ASSUME NEW S, IsFiniteSet(S), NEW Bad, Bad \subseteq SUBSET S, Bad # {}
  PROVE  \E U \in Bad : \A x \in U : U \ {x} \notin Bad
<1>1. \A U \in Bad : IsFiniteSet(U) /\ Cardinality(U) \in Nat
  BY FS_Subset, FS_CardinalityType
<1>2. PICK T : T = {Cardinality(U) : U \in Bad}
  OBVIOUS
<1>3. T \subseteq Nat /\ T # {}
  BY <1>1, <1>2
<1>4. PICK n \in T : \A m \in T : n <= m
  BY <1>3, LeastNatural, Zenon
<1>5. PICK U \in Bad : Cardinality(U) = n
  BY <1>2, <1>4
<1>6. ASSUME NEW x \in U, U \ {x} \in Bad PROVE FALSE
  <2>1. Cardinality(U \ {x}) = n - 1
    BY <1>1, <1>5, <1>6, FS_RemoveElement
  <2>2. n \in Nat /\ n <= Cardinality(U \ {x})
    BY <1>2, <1>3, <1>4, <1>6
  <2> QED
    BY <2>1, <2>2
<1> QED
  BY <1>6

Values(f, S) == DOMAIN f = S /\ IsFiniteSet(S) /\ \A x \in S : f[x] \in Int

\* Any value may be taken out first.
LEMMA TotalsWithout ==
  ASSUME NEW S, NEW f, Values(f, S), NEW U \in SUBSET S
  PROVE  /\ Totals(f)[U] \in Int
         /\ U = {} => Totals(f)[U] = 0
         /\ \A x \in U : Totals(f)[U] = f[x] + Totals(f)[U \ {x}]
<1>1. PICK F : F = Totals(f) /\ \A s \in SUBSET S : F[s] = Added(f, F, s)
  BY TotalsAre DEF Values
<1>6. ASSUME NEW s \in SUBSET S, s # {}
      PROVE  \E y \in s : f[y] \in Int /\ F[s] = f[y] + F[s \ {y}]
  <2>1. PICK y \in s : y = First(s)
    BY <1>6 DEF First
  <2>2. F[s] = f[y] + F[s \ {y}]
    BY <1>1, <1>6, <2>1 DEF Added
  <2> QED
    BY <2>1, <2>2 DEF Values
<1>7. \A s \in SUBSET S : F[s] \in Int
  <2>1. PICK Bad : Bad = {s \in SUBSET S : F[s] \notin Int}
    OBVIOUS
  <2>2. ASSUME Bad # {} PROVE FALSE
    <3>1. Bad \subseteq SUBSET S /\ IsFiniteSet(S)
      BY <2>1 DEF Values
    <3>2. PICK s \in Bad : \A x \in s : s \ {x} \notin Bad
      BY <2>2, <3>1, SmallestSet, Zenon
    <3>3. CASE s = {}
      <4>1. F[s] = Added(f, F, s) /\ F[s] \notin Int
        BY <1>1, <2>1, <3>2
      <4> QED
        BY <3>3, <4>1 DEF Added
    <3>4. CASE s # {}
      <4>1. PICK y \in s : f[y] \in Int /\ F[s] = f[y] + F[s \ {y}]
        BY <1>6, <2>1, <3>2, <3>4
      <4>2. F[s \ {y}] \in Int
        BY <2>1, <3>2, <4>1
      <4> QED
        BY <2>1, <3>2, <4>1, <4>2
    <3> QED
      BY <3>3, <3>4
  <2> QED
    BY <2>1, <2>2
<1> DEFINE Good(s) == \A x \in s : F[s] = f[x] + F[s \ {x}]
<1>2. PICK Bad : Bad = {s \in SUBSET S : ~Good(s)}
  OBVIOUS
<1>3. ASSUME Bad # {} PROVE FALSE
  <2>1. Bad \subseteq SUBSET S /\ IsFiniteSet(S)
    BY <1>2 DEF Values
  <2>2. PICK s \in Bad : \A x \in s : s \ {x} \notin Bad
    BY <1>3, <2>1, SmallestSet, Zenon
  <2>3. s \in SUBSET S /\ ~Good(s) /\ \A x \in s : Good(s \ {x})
    <3>1. s \in SUBSET S /\ ~Good(s) /\ \A x \in s : s \ {x} \in SUBSET S
      BY <1>2
    <3> HIDE DEF Good
    <3> QED
      BY <1>2, <2>2, <3>1
  <2>5. CASE s = {}
    BY <2>3, <2>5
  <2>6. CASE s # {}
    <3>2. PICK y \in s : f[y] \in Int /\ F[s] = f[y] + F[s \ {y}]
      BY <1>6, <2>3, <2>6
    <3>3. ASSUME NEW x \in s PROVE F[s] = f[x] + F[s \ {x}]
      <4>1. CASE x = y
        BY <3>2, <4>1
      <4>2. CASE x # y
        <5>1. x \in s \ {y} /\ y \in s \ {x} /\ (s \ {y}) \ {x} = (s \ {x}) \ {y}
          BY <4>2
        <5>2. F[s \ {y}] = f[x] + F[(s \ {y}) \ {x}] /\ F[s \ {x}] = f[y] + F[(s \ {x}) \ {y}]
          BY <2>3, <5>1
        <5>3. PICK rest : rest = (s \ {y}) \ {x} /\ F[s \ {y}] = f[x] + F[rest] /\ F[s \ {x}] = f[y] + F[rest]
          BY <5>1, <5>2
        <5>4. F[rest] \in Int
          BY <1>7, <2>3, <5>3
        <5>5. f[x] \in Int
          BY <2>3 DEF Values
        <5> QED
          BY <3>2, <5>3, <5>4, <5>5
      <4> QED
        BY <4>1, <4>2
    <3> QED
      BY <2>3, <3>3
  <2> QED
    BY <2>5, <2>6
<1>4. Good(U)
  BY <1>2, <1>3
<1>5. U = {} => F[U] = 0
  BY <1>1 DEF Added
<1> QED
  BY <1>1, <1>4, <1>5, <1>7

\* Zeros add up to zero.
LEMMA TotalOfZeros ==
  ASSUME NEW S, NEW f, Values(f, S), NEW U \in SUBSET S, \A x \in U : f[x] = 0
  PROVE  Totals(f)[U] = 0
<1> DEFINE Bad == {V \in SUBSET U : Totals(f)[V] # 0}
<1>1. ASSUME Bad # {} PROVE FALSE
  <2>1. IsFiniteSet(U) /\ Bad \subseteq SUBSET U
    BY FS_Subset DEF Values
  <2>2. PICK V \in Bad : \A x \in V : V \ {x} \notin Bad
    <3> HIDE DEF Bad
    <3> QED
      BY <1>1, <2>1, SmallestSet, Zenon
  <2>3. V \in SUBSET U /\ V \in SUBSET S /\ Totals(f)[V] # 0
    OBVIOUS
  <2>4. V # {}
    BY <2>3, TotalsWithout
  <2>5. PICK x \in V : x \in V
    BY <2>4
  <2>6. Totals(f)[V] = f[x] + Totals(f)[V \ {x}] /\ f[x] = 0 /\ Totals(f)[V \ {x}] = 0
    <3>1. V \ {x} \in SUBSET U /\ x \in U
      BY <2>3, <2>5
    <3>2. Totals(f)[V] = f[x] + Totals(f)[V \ {x}]
      BY <2>3, <2>5, TotalsWithout
    <3> QED
      BY <2>2, <2>5, <3>1, <3>2
  <2> QED
    BY <2>3, <2>6
<1> QED
  BY <1>1

\* One value that is not zero is the total.
LEMMA TotalOfOne ==
  ASSUME NEW S, NEW f, Values(f, S), NEW U \in SUBSET S, NEW x \in U, \A y \in U : y # x => f[y] = 0
  PROVE  Totals(f)[U] = f[x]
<1>1. PICK V : V = U \ {x}
  OBVIOUS
<1>2. V \in SUBSET S /\ \A y \in V : f[y] = 0
  BY <1>1
<1>3. Totals(f)[V] = 0
  BY <1>2, TotalOfZeros, Zenon
<1>4. Totals(f)[U] = f[x] + Totals(f)[V]
  BY <1>1, TotalsWithout
<1>5. f[x] \in Int
  BY DEF Values
<1> QED
  BY <1>3, <1>4, <1>5

\* The part of U that p sends to t.
Part(U, p, t) == {x \in U : p[x] = t}
Sends(p, U, T) == \A x \in U : p[x] \in T

\* What is added up by parts is the total: values may be added in groups, each
\* may be given another name, and names without a value may be added.
LEMMA TotalsByParts ==
  ASSUME NEW S, NEW f, Values(f, S), NEW T, IsFiniteSet(T), NEW p, NEW U \in SUBSET S, Sends(p, U, T)
  PROVE  TotalOf([t \in T |-> Totals(f)[Part(U, p, t)]]) = Totals(f)[U]
<1> DEFINE Parts(V) == [t \in T |-> Totals(f)[Part(V, p, t)]]
           Bad == {V \in SUBSET U : TotalOf(Parts(V)) # Totals(f)[V]}
<1>1. ASSUME Bad # {} PROVE FALSE
  <2>1. IsFiniteSet(U) /\ Bad \subseteq SUBSET U
    BY FS_Subset DEF Values
  <2>2. PICK V \in Bad : \A x \in V : V \ {x} \notin Bad
    <3> HIDE DEF Bad
    <3> QED
      BY <1>1, <2>1, SmallestSet, Zenon
  <2>3. V \in SUBSET U /\ V \in SUBSET S /\ TotalOf(Parts(V)) # Totals(f)[V]
    OBVIOUS
  <2>4. ASSUME NEW W \in SUBSET U PROVE Values(Parts(W), T)
    <3>1. \A t \in T : Part(W, p, t) \in SUBSET S
      BY DEF Part
    <3>2. \A t \in T : Totals(f)[Part(W, p, t)] \in Int
      BY <3>1, TotalsWithout
    <3> QED
      BY <3>2 DEF Values
  <2>5. CASE V = {}
    <3>1. \A t \in T : Part(V, p, t) = {}
      BY <2>5 DEF Part
    <3>2. Totals(f)[{}] = 0
      BY TotalsWithout
    <3>3. PICK g : g = Parts(V) /\ Values(g, T) /\ \A t \in T : g[t] = 0
      BY <2>3, <2>4, <3>1, <3>2
    <3>4. Totals(g)[T] = 0
      BY <3>3, TotalOfZeros
    <3>5. TotalOf(g) = Totals(g)[T]
      BY <3>3 DEF TotalOf, Values
    <3> HIDE DEF Parts
    <3> QED
      BY <2>3, <2>5, <3>2, <3>3, <3>4, <3>5
  <2>6. CASE V # {}
    <3>1. PICK x \in V : x \in V
      BY <2>6
    <3>2. PICK W \in SUBSET U : W = V \ {x} /\ W \in SUBSET S
      BY <2>3
    <3>3. TotalOf(Parts(W)) = Totals(f)[W]
      BY <2>2, <3>1, <3>2
    <3>4. PICK a, b, d : a = Parts(V) /\ b = Parts(W) /\ d = [t \in T |-> IF t = p[x] THEN f[x] ELSE 0]
      OBVIOUS
    <3>5. p[x] \in T /\ f[x] \in Int /\ x \in S
      BY <2>3, <3>1 DEF Values, Sends
    <3>6. ASSUME NEW t \in T PROVE a[t] = b[t] + 1 * d[t] /\ b[t] \in Int /\ d[t] \in Int
      <4>1. a[t] = Totals(f)[Part(V, p, t)] /\ b[t] = Totals(f)[Part(W, p, t)]
        BY <3>4
      <4>2. Part(V, p, t) \in SUBSET S /\ Part(W, p, t) \in SUBSET S
        BY <2>3, <3>2 DEF Part
      <4>3. b[t] \in Int
        BY <4>1, <4>2, TotalsWithout
      <4>4. CASE t = p[x]
        <5>1. x \in Part(V, p, t) /\ Part(W, p, t) = Part(V, p, t) \ {x}
          BY <3>1, <3>2, <4>4 DEF Part
        <5>2. a[t] = f[x] + b[t]
          <6>1. PICK A \in SUBSET S : A = Part(V, p, t)
            BY <4>2
          <6>2. x \in A /\ a[t] = Totals(f)[A] /\ b[t] = Totals(f)[A \ {x}]
            BY <4>1, <5>1, <6>1
          <6> QED
            BY <6>2, TotalsWithout
        <5>3. d[t] = f[x]
          BY <3>4, <4>4
        <5> QED
          BY <3>5, <4>3, <5>2, <5>3
      <4>5. CASE t # p[x]
        <5>1. Part(W, p, t) = Part(V, p, t)
          BY <3>2, <4>5 DEF Part
        <5>2. d[t] = 0
          BY <3>4, <4>5
        <5> QED
          BY <4>1, <4>3, <5>1, <5>2
      <4> QED
        BY <4>4, <4>5
    <3>7. IsCombination(T, a, b, 1, d)
      BY <3>4, <3>6 DEF IsCombination
    <3>8. TotalOf(b) \in Int /\ TotalOf(d) \in Int /\ TotalOf(a) = TotalOf(b) + 1 * TotalOf(d)
      <4>1. 1 \in Int
        OBVIOUS
      <4> HIDE DEF Parts, Bad
      <4> QED
        BY <3>7, <4>1, TotalsAreLinear
    <3>9. TotalOf(d) = f[x]
      <4>1. Values(d, T) /\ T \in SUBSET T /\ d[p[x]] = f[x] /\ \A y \in T : y # p[x] => d[y] = 0
        BY <3>4, <3>5 DEF Values
      <4>2. Totals(d)[T] = d[p[x]]
        <5> HIDE DEF Parts, Bad
        <5> QED
          BY <3>5, <4>1, TotalOfOne
      <4>3. TotalOf(d) = Totals(d)[T]
        BY <4>1 DEF TotalOf, Values
      <4> QED
        BY <4>1, <4>2, <4>3
    <3>10. Totals(f)[V] = f[x] + Totals(f)[W]
      BY <2>3, <3>1, <3>2, TotalsWithout
    <3> HIDE DEF Parts
    <3> QED
      BY <2>3, <3>3, <3>4, <3>5, <3>8, <3>9, <3>10
  <2> QED
    BY <2>5, <2>6
<1>2. U \notin Bad
  BY <1>1
<1>3. TotalOf(Parts(U)) = Totals(f)[U]
  BY <1>2
<1> QED
  BY <1>3

\* Nothing else adds up the values of f.
LEMMA OneTotal ==
  ASSUME NEW S, NEW f, Values(f, S), NEW g, \A s \in SUBSET S : g[s] = Added(f, g, s)
  PROVE  \A s \in SUBSET S : g[s] = Totals(f)[s]
<1>1. PICK F : F = Totals(f) /\ \A s \in SUBSET S : F[s] = Added(f, F, s)
  BY TotalsAre DEF Values
<1>2. PICK Bad : Bad = {s \in SUBSET S : g[s] # F[s]}
  OBVIOUS
<1>3. ASSUME Bad # {} PROVE FALSE
  <2>1. Bad \subseteq SUBSET S /\ IsFiniteSet(S)
    BY <1>2 DEF Values
  <2>2. PICK s \in Bad : \A x \in s : s \ {x} \notin Bad
    BY <1>3, <2>1, SmallestSet, Zenon
  <2>3. s \in SUBSET S /\ g[s] # F[s] /\ g[s] = Added(f, g, s) /\ F[s] = Added(f, F, s)
    BY <1>1, <1>2, <2>2
  <2>4. CASE s = {}
    BY <2>3, <2>4, Zenon DEF Added
  <2>5. CASE s # {}
    <3>1. PICK x \in s : x = First(s)
      BY <2>5 DEF First
    <3>2. s \ {x} \in SUBSET S /\ s \ {x} \notin Bad
      BY <2>2, <2>3
    <3>3. g[s \ {x}] = F[s \ {x}]
      BY <1>2, <3>2
    <3> QED
      BY <2>3, <2>5, <3>1, <3>3, Zenon DEF Added
  <2> QED
    BY <2>4, <2>5
<1> QED
  BY <1>1, <1>2, <1>3, Zenon

-----------------------------------------------------------------------------
(* Counting *)

\* A set that can be mapped one to one onto another has as many elements.
LEMMA SameCount ==
  ASSUME NEW A, IsFiniteSet(A), NEW B, NEW m,
         \A x \in A : m[x] \in B,
         \A x, y \in A : m[x] = m[y] => x = y,
         \A b \in B : \E x \in A : m[x] = b
  PROVE  IsFiniteSet(B) /\ Cardinality(B) = Cardinality(A)
<1>1. PICK f : f = [x \in A |-> m[x]]
  OBVIOUS
<1>2. f \in Bijection(A, B)
  BY <1>1 DEF Bijection, Injection, Surjection, IsInjective
<1> QED
  BY <1>2, FS_Bijection DEF ExistsBijection

\* A total of ones is a count.
LEMMA TotalOfOnes ==
  ASSUME NEW S, NEW f, Values(f, S), \A x \in S : f[x] = 1, NEW U \in SUBSET S
  PROVE  Totals(f)[U] = Cardinality(U)
<1> DEFINE Bad == {V \in SUBSET U : Totals(f)[V] # Cardinality(V)}
<1>1. ASSUME Bad # {} PROVE FALSE
  <2>1. IsFiniteSet(U) /\ Bad \subseteq SUBSET U
    BY FS_Subset DEF Values
  <2>2. PICK V \in Bad : \A x \in V : V \ {x} \notin Bad
    <3> HIDE DEF Bad
    <3> QED
      BY <1>1, <2>1, SmallestSet, Zenon
  <2>3. V \in SUBSET U /\ V \in SUBSET S /\ Totals(f)[V] # Cardinality(V)
    OBVIOUS
  <2>4. CASE V = {}
    <3>1. Totals(f)[V] = 0
      BY <2>3, <2>4, TotalsWithout
    <3>2. Cardinality(V) = 0
      BY <2>4, FS_EmptySet
    <3> QED
      BY <2>3, <3>1, <3>2
  <2>5. CASE V # {}
    <3>1. PICK x \in V : x \in V
      BY <2>5
    <3>2. V \ {x} \in SUBSET U /\ f[x] = 1
      BY <2>3, <3>1
    <3>3. Totals(f)[V \ {x}] = Cardinality(V \ {x})
      BY <2>2, <3>1, <3>2
    <3>4. Totals(f)[V] = f[x] + Totals(f)[V \ {x}]
      BY <2>3, <3>1, TotalsWithout
    <3>5. IsFiniteSet(V) /\ Cardinality(V) \in Nat
      BY <2>1, <2>3, FS_Subset, FS_CardinalityType
    <3>6. Cardinality(V \ {x}) = Cardinality(V) - 1
      BY <3>1, <3>5, FS_RemoveElement
    <3> QED
      BY <2>3, <3>2, <3>3, <3>4, <3>5, <3>6
  <2> QED
    BY <2>4, <2>5
<1> QED
  BY <1>1

\* A set can be counted by parts.
LEMMA CountByParts ==
  ASSUME NEW W, IsFiniteSet(W), NEW T, IsFiniteSet(T), NEW p, Sends(p, W, T)
  PROVE  TotalOf([t \in T |-> Cardinality(Part(W, p, t))]) = Cardinality(W)
<1>1. PICK f : f = [x \in W |-> 1]
  OBVIOUS
<1>2. Values(f, W) /\ \A x \in W : f[x] = 1
  BY <1>1 DEF Values
<1>3. W \in SUBSET W /\ \A t \in T : Part(W, p, t) \in SUBSET W
  BY DEF Part
<1>4. TotalOf([t \in T |-> Totals(f)[Part(W, p, t)]]) = Totals(f)[W]
  BY <1>2, <1>3, TotalsByParts
<1>5. Totals(f)[W] = Cardinality(W) /\ \A t \in T : Totals(f)[Part(W, p, t)] = Cardinality(Part(W, p, t))
  BY <1>2, <1>3, TotalOfOnes
<1>6. [t \in T |-> Totals(f)[Part(W, p, t)]] = [t \in T |-> Cardinality(Part(W, p, t))]
  BY <1>5
<1> QED
  BY <1>4, <1>5, <1>6, Zenon

-----------------------------------------------------------------------------
(* Division *)

\* Division with remainder.
LEMMA Division ==
  ASSUME NEW a \in Nat, NEW b \in Nat \ {0}
  PROVE  \E q \in Nat, r \in 0..(b - 1) : a = q * b + r /\ a \div b = q /\ a % b = r
<1>1. a \div b \in Nat /\ a % b \in 0..(b - 1) /\ a = (a \div b) * b + (a % b)
  OBVIOUS
<1> QED
  BY <1>1

\* Products keep the order.
LEMMA Products ==
  ASSUME NEW a \in Int, NEW b \in Int, NEW c \in Nat
  PROVE  /\ a <= b => a * c <= b * c
         /\ (a + 1) * c = a * c + c
         /\ (a - 1) * c = a * c - c
         /\ a * c \in Int
         /\ a \in Nat => a * c \in Nat
  OBVIOUS

\* The quotient is the only number of whole divisors with less than one left.
LEMMA QuotientIs ==
  ASSUME NEW q \in Nat, NEW b \in Nat \ {0}, NEW r \in 0..(b - 1)
  PROVE  (q * b + r) \div b = q /\ (q * b + r) % b = r
<1>1. PICK a \in Nat : a = q * b + r
  BY Products
<1>2. PICK p \in Nat, s \in 0..(b - 1) : a = p * b + s /\ a \div b = p /\ a % b = s
  BY Division
<1>3. ASSUME p < q PROVE FALSE
  BY <1>1, <1>2, <1>3, Products
<1>4. ASSUME q < p PROVE FALSE
  BY <1>1, <1>2, <1>4, Products
<1> QED
  BY <1>1, <1>2, <1>3, <1>4
=============================================================================
