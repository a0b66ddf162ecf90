----------------------------- MODULE GasProofs -----------------------------
(***************************************************************************)
(* For any number of token types, any costs and a gas builtin of any       *)
(* width: gas is conserved, and compiled code moves it as the interpreter  *)
(* does.  Costs are sums over the token types and reserves are sums over a *)
(* sequence, so the first half of the module is about finite sums.         *)
(***************************************************************************)
EXTENDS Gas, FiniteSetTheorems, TLAPS

-----------------------------------------------------------------------------
(* Finite sums, by induction on the subsets of a finite set.               *)

\* Induction on finite sets, over a set of subsets.
LEMMA SubsetInduction ==
  ASSUME NEW S, IsFiniteSet(S), NEW A,
         \A s \in SUBSET S : (\A t \in SUBSET s : t # s => t \in A) => s \in A
  PROVE  SUBSET S \subseteq A
<1> SUFFICES ASSUME ~(SUBSET S \subseteq A) PROVE FALSE
  OBVIOUS
<1> DEFINE R == StrictSubsetOrdering(S)
           T == (SUBSET S) \ A
<1>1. IsWellFoundedOn(R, SUBSET S)
  <2>1. FiniteSubsetsOf(S) = SUBSET S
    BY FS_FiniteSubsetsOfFinite
  <2>2. IsWellFoundedOn(R, FiniteSubsetsOf(S))
    BY FS_StrictSubsetOrderingWellFounded
  <2> QED
    BY <2>1, <2>2
<1>2. \A s, t \in SUBSET S : (t \subseteq s /\ t # s) => <<t, s>> \in R
  BY DEF StrictSubsetOrdering
<1>3. T \subseteq SUBSET S /\ T # {}
  OBVIOUS
<1> HIDE DEF T, R
<1>4. PICK x \in T : \A y \in T : ~(<<y, x>> \in R)
  BY <1>1, <1>3, WFMin
<1>5. x \in SUBSET S /\ x \notin A
  BY <1>4 DEF T
<1>6. ASSUME NEW t \in SUBSET x, t # x, t \notin A
      PROVE  FALSE
  <2>1. t \in SUBSET S /\ t \in T
    BY <1>5, <1>6 DEF T
  <2>2. <<t, x>> \in R
    BY <1>2, <1>5, <1>6, <2>1
  <2> QED
    BY <1>4, <2>1, <2>2
<1> QED
  BY <1>5, <1>6

\* The element that the folds of the community modules take from a set.
Pick(s) == CHOOSE t \in s : TRUE

LEMMA Picked ==
  ASSUME NEW s, s # {}
  PROVE  Pick(s) \in s
BY DEF Pick

\* A function defined by recursion on the subsets of a finite set exists.
Folds(f, S, base, step) ==
  \A s \in SUBSET S : f[s] = IF s = {} THEN base ELSE step[<<Pick(s), f[s \ {Pick(s)}]>>]

LEMMA FoldExists ==
  ASSUME NEW S, IsFiniteSet(S), NEW V, NEW base \in V, NEW step \in [S \X V -> V]
  PROVE  \E f \in [SUBSET S -> V] : Folds(f, S, base, step)
<1> DEFINE Upto(n) == {s \in SUBSET S : Cardinality(s) <= n}
           FoldsUpto(f, n) == \A s \in Upto(n) :
             f[s] = IF s = {} THEN base ELSE step[<<Pick(s), f[s \ {Pick(s)}]>>]
           A == {n \in Nat : \E f \in [Upto(n) -> V] : FoldsUpto(f, n)}
<1>1. \A s \in SUBSET S : IsFiniteSet(s) /\ Cardinality(s) \in Nat
  BY FS_Subset, FS_CardinalityType
<1>2. \A s \in SUBSET S : Cardinality(s) = 0 <=> s = {}
  BY <1>1, FS_EmptySet
<1>3. \A s \in SUBSET S : s # {} =>
        /\ Pick(s) \in s /\ Pick(s) \in S
        /\ s \ {Pick(s)} \in SUBSET S
        /\ Cardinality(s \ {Pick(s)}) = Cardinality(s) - 1
  BY <1>1, Picked, FS_RemoveElement
<1>4. 0 \in A
  <2> DEFINE f == [s \in Upto(0) |-> base]
  <2>1. \A s \in Upto(0) : s = {}
    BY <1>1, <1>2
  <2>2. f \in [Upto(0) -> V] /\ FoldsUpto(f, 0)
    BY <2>1
  <2> HIDE DEF f, FoldsUpto, Upto
  <2> QED
    BY <2>2
<1>5. ASSUME NEW n \in A
      PROVE  n + 1 \in A
  <2> n \in Nat
    OBVIOUS
  <2>1. PICK f \in [Upto(n) -> V] : FoldsUpto(f, n)
    OBVIOUS
  <2> DEFINE g == [s \in Upto(n + 1) |->
                     IF s = {} THEN base ELSE step[<<Pick(s), f[s \ {Pick(s)}]>>]]
  <2>2. \A s \in Upto(n + 1) : s # {} => s \ {Pick(s)} \in Upto(n)
    BY <1>1, <1>3
  <2>3. \A s \in Upto(n + 1) : s # {} => <<Pick(s), f[s \ {Pick(s)}]>> \in S \X V
    <3> HIDE DEF Upto
    <3>1. \A s \in Upto(n + 1) : s # {} => Pick(s) \in S
      BY <1>3 DEF Upto
    <3> QED
      BY <2>2, <3>1
  <2>4. g \in [Upto(n + 1) -> V]
    <3> HIDE DEF Upto
    <3> QED
      BY <2>3
  <2>5. \A s \in Upto(n) : s \in Upto(n + 1) /\ g[s] = f[s]
    <3>1. \A s \in Upto(n) : s \in Upto(n + 1)
      BY <1>1
    <3> HIDE DEF Upto
    <3> QED
      BY <2>1, <3>1
  <2>6. FoldsUpto(g, n + 1)
    <3> HIDE DEF Upto
    <3> QED
      BY <2>2, <2>5
  <2>7. n + 1 \in Nat
    OBVIOUS
  <2> HIDE DEF g, Upto, FoldsUpto
  <2> QED
    BY <2>4, <2>6, <2>7
<1> HIDE DEF A
<1>6. A = Nat
  <2> SUFFICES ASSUME A # Nat PROVE FALSE
    OBVIOUS
  <2> DEFINE R == OpToRel(<, Nat)
             T == Nat \ A
  <2>1. IsWellFoundedOn(R, Nat)
    BY NatLessThanWellFounded
  <2>2. \A m, k \in Nat : m < k => <<m, k>> \in R
    BY DEF OpToRel
  <2>3. T \subseteq Nat /\ T # {}
    BY DEF A
  <2> HIDE DEF T, R
  <2>4. PICK x \in T : \A y \in T : ~(<<y, x>> \in R)
    BY <2>1, <2>3, WFMin
  <2>5. x \in Nat /\ x # 0 /\ x - 1 \in Nat /\ x - 1 < x
    BY <1>4, <2>3, <2>4 DEF T
  <2>6. x - 1 \in T
    BY <1>5, <2>4, <2>5 DEF T
  <2> QED
    BY <2>2, <2>4, <2>5, <2>6
<1>7. PICK f \in [Upto(Cardinality(S)) -> V] : FoldsUpto(f, Cardinality(S))
  BY <1>1, <1>6 DEF A
<1>8. Upto(Cardinality(S)) = SUBSET S
  BY FS_Subset
<1> HIDE DEF Upto
<1> QED
  BY <1>7, <1>8 DEF Folds

-----------------------------------------------------------------------------
\* f[s] is the sum of h over s, for every subset s of S.
Sums(f, h, S) ==
  /\ IsFiniteSet(S) /\ h \in [S -> Nat] /\ f \in [SUBSET S -> Nat]
  /\ \A s \in SUBSET S : f[s] = IF s = {} THEN 0 ELSE h[Pick(s)] + f[s \ {Pick(s)}]

LEMMA SumExists ==
  ASSUME NEW S, IsFiniteSet(S), NEW h \in [S -> Nat]
  PROVE  \E f : Sums(f, h, S)
<1> DEFINE step == [p \in S \X Nat |-> h[p[1]] + p[2]]
<1>1. step \in [S \X Nat -> Nat]
  OBVIOUS
<1>2. PICK f \in [SUBSET S -> Nat] : Folds(f, S, 0, step)
  <2> HIDE DEF step
  <2> QED
    BY <1>1, FoldExists
<1>3. ASSUME NEW s \in SUBSET S, s # {}
      PROVE  f[s] = h[Pick(s)] + f[s \ {Pick(s)}]
  <2>1. Pick(s) \in S /\ f[s \ {Pick(s)}] \in Nat
    BY <1>2, <1>3, Picked
  <2>2. f[s] = step[<<Pick(s), f[s \ {Pick(s)}]>>]
    BY <1>2, <1>3 DEF Folds
  <2> QED
    BY <2>1, <2>2
<1>4. f[{}] = 0
  BY <1>2 DEF Folds
<1> QED
  BY <1>2, <1>3, <1>4 DEF Sums

\* The sum may be taken in any order.
LEMMA SumTakes ==
  ASSUME NEW S, NEW h, NEW f, Sums(f, h, S)
  PROVE  \A s \in SUBSET S : \A x \in s : f[s] = h[x] + f[s \ {x}]
<1> DEFINE A == {s \in SUBSET S : \A x \in s : f[s] = h[x] + f[s \ {x}]}
<1>1. ASSUME NEW s \in SUBSET S, \A t \in SUBSET s : t # s => t \in A
      PROVE  s \in A
  <2> SUFFICES ASSUME NEW x \in s PROVE f[s] = h[x] + f[s \ {x}]
    OBVIOUS
  <2> DEFINE y == Pick(s)
  <2>1. y \in s
    BY Picked
  <2>2. f[s] = h[y] + f[s \ {y}]
    BY DEF Sums
  <2>3. CASE x = y
    BY <2>2, <2>3
  <2>4. CASE x # y
    <3> HIDE DEF y
    <3>1. s \ {y} \in A /\ s \ {x} \in A
      <4> HIDE DEF A
      <4> QED
        BY <1>1, <2>1
    <3>2. f[s \ {y}] = h[x] + f[(s \ {y}) \ {x}]
      BY <2>4, <3>1
    <3>3. f[s \ {x}] = h[y] + f[(s \ {x}) \ {y}]
      BY <2>1, <2>4, <3>1
    <3>4. (s \ {y}) \ {x} = (s \ {x}) \ {y} /\ (s \ {x}) \ {y} \in SUBSET S
      OBVIOUS
    <3>5. h[x] \in Nat /\ h[y] \in Nat /\ f[(s \ {x}) \ {y}] \in Nat
      BY <2>1, <3>4 DEF Sums
    <3> DEFINE r == (s \ {x}) \ {y}
    <3>6. f[s] = h[y] + (h[x] + f[r]) /\ f[s \ {x}] = h[y] + f[r]
      BY <2>2, <3>2, <3>3, <3>4
    <3> HIDE DEF r
    <3> QED
      BY <3>5, <3>6 DEF r
  <2> QED
    BY <2>3, <2>4
<1> HIDE DEF A
<1>2. IsFiniteSet(S)
  BY DEF Sums
<1>3. SUBSET S \subseteq A
  BY <1>1, <1>2, SubsetInduction
<1> QED
  BY <1>3 DEF A

\* Sums of the same numbers are the same, and sums add up.
LEMMA SumSame ==
  ASSUME NEW S, NEW f, NEW g, NEW h, NEW k, NEW T,
         Sums(f, h, S), Sums(g, k, T), S \subseteq T, \A x \in S : h[x] = k[x]
  PROVE  \A s \in SUBSET S : f[s] = g[s]
<1> DEFINE A == {s \in SUBSET S : f[s] = g[s]}
<1>1. ASSUME NEW s \in SUBSET S, \A t \in SUBSET s : t # s => t \in A
      PROVE  s \in A
  <2>1. CASE s = {}
    BY <2>1 DEF Sums
  <2>2. CASE s # {}
    <3>1. Pick(s) \in s
      BY <2>2, Picked
    <3>2. f[s \ {Pick(s)}] = g[s \ {Pick(s)}]
      BY <1>1, <3>1
    <3>3. s \in SUBSET T
      OBVIOUS
    <3> QED
      BY <2>2, <3>1, <3>2, <3>3 DEF Sums
  <2> QED
    BY <2>1, <2>2
<1> HIDE DEF A
<1>2. IsFiniteSet(S)
  BY DEF Sums
<1>3. SUBSET S \subseteq A
  BY <1>1, <1>2, SubsetInduction
<1> QED
  BY <1>3 DEF A

LEMMA SumAdds ==
  ASSUME NEW S, NEW f, NEW g, NEW e, NEW h, NEW k, NEW l,
         Sums(f, h, S), Sums(g, k, S), Sums(e, l, S), \A x \in S : l[x] = h[x] + k[x]
  PROVE  \A s \in SUBSET S : e[s] = f[s] + g[s]
<1> DEFINE A == {s \in SUBSET S : e[s] = f[s] + g[s]}
<1>1. ASSUME NEW s \in SUBSET S, \A t \in SUBSET s : t # s => t \in A
      PROVE  s \in A
  <2>1. CASE s = {}
    <3>1. e[s] = 0 /\ f[s] = 0 /\ g[s] = 0
      BY <2>1 DEF Sums
    <3> QED
      BY <3>1
  <2>2. CASE s # {}
    <3> DEFINE x == Pick(s)
               r == s \ {x}
    <3>1. x \in s /\ x \in S /\ r \in SUBSET S
      BY <2>2, Picked
    <3>2. e[r] = f[r] + g[r]
      BY <1>1, <3>1
    <3>3. e[s] = l[x] + e[r] /\ f[s] = h[x] + f[r] /\ g[s] = k[x] + g[r]
      BY <2>2 DEF Sums
    <3>4. h[x] \in Nat /\ k[x] \in Nat /\ f[r] \in Nat /\ g[r] \in Nat /\ l[x] = h[x] + k[x]
      BY <3>1 DEF Sums
    <3> HIDE DEF x, r
    <3> QED
      BY <3>2, <3>3, <3>4
  <2> QED
    BY <2>1, <2>2
<1> HIDE DEF A
<1>2. IsFiniteSet(S)
  BY DEF Sums
<1>3. SUBSET S \subseteq A
  BY <1>1, <1>2, SubsetInduction
<1> QED
  BY <1>3 DEF A

\* The recursion determines the sum.
LEMMA SumOnly ==
  ASSUME NEW S, NEW f, NEW g, NEW h, Sums(f, h, S), g = [s \in SUBSET S |-> g[s]],
         \A s \in SUBSET S : g[s] = IF s = {} THEN 0 ELSE h[Pick(s)] + g[s \ {Pick(s)}]
  PROVE  Sums(g, h, S)
<1> DEFINE A == {s \in SUBSET S : f[s] = g[s]}
<1>1. ASSUME NEW s \in SUBSET S, \A t \in SUBSET s : t # s => t \in A
      PROVE  s \in A
  <2>1. CASE s = {}
    BY <2>1 DEF Sums
  <2>2. CASE s # {}
    <3>1. f[s \ {Pick(s)}] = g[s \ {Pick(s)}]
      BY <1>1, <2>2, Picked
    <3> QED
      BY <2>2, <3>1 DEF Sums
  <2> QED
    BY <2>1, <2>2
<1> HIDE DEF A
<1>2. IsFiniteSet(S)
  BY DEF Sums
<1>3. SUBSET S \subseteq A
  BY <1>1, <1>2, SubsetInduction
<1>4. \A s \in SUBSET S : f[s] = g[s]
  BY <1>3 DEF A
<1> QED
  BY <1>4 DEF Sums

\* Numbers that are only moved keep their sum.
Moved(p, s) == {p[x] : x \in s}
Moves(p, h, S, k, T) ==
  /\ p \in [S -> T]
  /\ \A x, y \in S : p[x] = p[y] => x = y
  /\ \A x \in S : h[x] = k[p[x]]

LEMMA SumMoved ==
  ASSUME NEW S, NEW T, NEW f, NEW h, Sums(f, h, S), NEW g, NEW k, Sums(g, k, T),
         NEW p, Moves(p, h, S, k, T)
  PROVE  f[S] = g[Moved(p, S)]
<1>0. /\ p \in [S -> T]
      /\ \A x, y \in S : p[x] = p[y] => x = y
      /\ \A x \in S : h[x] = k[p[x]]
  BY DEF Moves
<1> DEFINE Img(s) == {p[x] : x \in s}
           A == {s \in SUBSET S : f[s] = g[Img(s)]}
<1>1. ASSUME NEW s \in SUBSET S, \A t \in SUBSET s : t # s => t \in A
      PROVE  s \in A
  <2>1. CASE s = {}
    <3>1. Img(s) = {} /\ {} \in SUBSET T
      BY <1>0, <2>1
    <3>2. f[s] = 0 /\ g[Img(s)] = 0
      BY <2>1, <3>1 DEF Sums
    <3> QED
      BY <3>2
  <2>2. CASE s # {}
    <3> DEFINE x == Pick(s)
               r == s \ {x}
    <3>1. x \in s /\ x \in S /\ r \in SUBSET S /\ r \in SUBSET s /\ r # s
      BY <2>2, Picked
    <3>2. f[s] = h[x] + f[r]
      BY <2>2 DEF Sums
    <3> HIDE DEF x
    <3>3. f[r] = g[Img(r)]
      BY <1>1, <3>1
    <3>4. Img(r) = Img(s) \ {p[x]} /\ p[x] \in Img(s) /\ Img(s) \in SUBSET T
      BY <1>0, <3>1
    <3>5. g[Img(s)] = k[p[x]] + g[Img(s) \ {p[x]}]
      BY <3>4, SumTakes, SMTT(60)
    <3> HIDE DEF Img, r
    <3> QED
      BY <1>0, <3>1, <3>2, <3>3, <3>4, <3>5
  <2> QED
    BY <2>1, <2>2
<1> HIDE DEF A
<1>2. IsFiniteSet(S)
  BY DEF Sums
<1>3. SUBSET S \subseteq A
  BY <1>1, <1>2, SubsetInduction
<1>4. f[S] = g[Img(S)]
  BY <1>3 DEF A
<1>5. Img(S) = Moved(p, S)
  BY DEF Moved
<1> HIDE DEF Img
<1> QED
  BY <1>4, <1>5

-----------------------------------------------------------------------------
(* The costs and the reserves are sums.                                    *)

Weights(tokens) == [t \in Tokens |-> tokens[t] * TokenCosts[t]]

LEMMA WeightsNat ==
  ASSUME NEW tokens \in [Tokens -> Nat]
  PROVE  Weights(tokens) \in [Tokens -> Nat]
BY GasAssumption DEF Weights

LEMMA CostSums ==
  ASSUME NEW tokens \in [Tokens -> Nat]
  PROVE  \E f : Sums(f, Weights(tokens), Tokens) /\ Cost(tokens) = f[Tokens]
<1> DEFINE P(f) == f = [s \in SUBSET Tokens |->
                          IF s = {} THEN 0
                          ELSE tokens[Pick(s)] * TokenCosts[Pick(s)] + f[s \ {Pick(s)}]]
           c == CHOOSE f : P(f)
<1>1. Cost(tokens) = c[Tokens]
  BY DEF Cost, MapThenFoldSet, Pick
<1>2. PICK f : Sums(f, Weights(tokens), Tokens)
  BY SumExists, WeightsNat, GasAssumption
<1>3. P(f)
  <2>1. \A s \in SUBSET Tokens : s # {} => Pick(s) \in Tokens
    BY Picked
  <2>2. \A s \in SUBSET Tokens : s # {} =>
          Weights(tokens)[Pick(s)] = tokens[Pick(s)] * TokenCosts[Pick(s)]
    BY <2>1 DEF Weights
  <2> QED
    BY <1>2, <2>2 DEF Sums
<1>4. P(c)
  <2> HIDE DEF P
  <2> QED
    BY <1>3
<1>5. ASSUME NEW g, P(g) PROVE Sums(g, Weights(tokens), Tokens)
  <2>1. \A s \in SUBSET Tokens : s # {} =>
          Weights(tokens)[Pick(s)] = tokens[Pick(s)] * TokenCosts[Pick(s)]
    BY Picked DEF Weights
  <2> QED
    BY <1>2, <1>5, <2>1, SumOnly, GasAssumption
<1> HIDE DEF P, c
<1> QED
  BY <1>1, <1>4, <1>5

\* A cost below the width of the gas builtin is calculated without wrapping.
LEMMA CostCalculated ==
  ASSUME NEW tokens \in [Tokens -> Nat], Cost(tokens) < GasWords
  PROVE  build_calculate_gas_cost(tokens) = Cost(tokens)
<1> DEFINE w(t) == (tokens[t] * TokenCosts[t]) % GasWords
           P(f) == f = [s \in SUBSET Tokens |->
                          IF s = {} THEN 0
                          ELSE (w(Pick(s)) + f[s \ {Pick(s)}]) % GasWords]
           c == CHOOSE f : P(f)
<1>1. build_calculate_gas_cost(tokens) = c[Tokens]
  BY DEF build_calculate_gas_cost, MapThenFoldSet, Pick
<1>2. IsFiniteSet(Tokens) /\ GasWords \in Nat /\ GasWords > 0
  BY GasAssumption
<1>3. \A t \in Tokens : tokens[t] * TokenCosts[t] \in Nat
  BY GasAssumption
<1>4. \A t \in Tokens : w(t) \in Nat
  BY <1>2, <1>3
<1>5. \E f : P(f)
  <2> DEFINE step == [p \in Tokens \X Nat |-> (w(p[1]) + p[2]) % GasWords]
  <2>1. step \in [Tokens \X Nat -> Nat]
    <3> HIDE DEF w
    <3> QED
      BY <1>2, <1>4
  <2>2. PICK f \in [SUBSET Tokens -> Nat] : Folds(f, Tokens, 0, step)
    <3> HIDE DEF step
    <3> QED
      BY <1>2, <2>1, FoldExists
  <2>3. \A s \in SUBSET Tokens : s # {} => Pick(s) \in Tokens /\ s \ {Pick(s)} \in SUBSET Tokens
    BY Picked
  <2>4. \A s \in SUBSET Tokens : s # {} =>
          step[<<Pick(s), f[s \ {Pick(s)}]>>] = (w(Pick(s)) + f[s \ {Pick(s)}]) % GasWords
    <3> HIDE DEF w
    <3> QED
      BY <2>2, <2>3
  <2>5. P(f)
    <3> HIDE DEF step, w
    <3> QED
      BY <2>2, <2>4 DEF Folds
  <2> QED
    BY <2>5
<1>6. P(c)
  <2> HIDE DEF P
  <2> QED
    BY <1>5
<1>7. PICK f : Sums(f, Weights(tokens), Tokens) /\ Cost(tokens) = f[Tokens]
  BY CostSums
<1> DEFINE A == {s \in SUBSET Tokens : f[s] < GasWords => c[s] = f[s]}
<1>8. ASSUME NEW s \in SUBSET Tokens, \A t \in SUBSET s : t # s => t \in A
      PROVE  s \in A
  <2>1. CASE s = {}
    <3> HIDE DEF c
    <3> QED
      BY <1>6, <1>7, <2>1 DEF Sums
  <2>2. CASE s # {}
    <3> SUFFICES ASSUME f[s] < GasWords PROVE c[s] = f[s]
      OBVIOUS
    <3> DEFINE x == Pick(s)
               r == s \ {x}
    <3> HIDE DEF c
    <3>1. x \in s /\ x \in Tokens /\ r \in SUBSET Tokens /\ r \in SUBSET s /\ r # s
      BY <2>2, Picked
    <3>2. c[s] = (w(x) + c[r]) % GasWords
      BY <1>6, <2>2
    <3>3. f[s] = tokens[x] * TokenCosts[x] + f[r] /\ f[r] \in Nat
      BY <1>7, <2>2, <3>1 DEF Sums, Weights
    <3>4. tokens[x] * TokenCosts[x] \in Nat
      BY <1>3, <3>1
    <3> DEFINE n == tokens[x] * TokenCosts[x]
    <3>5. w(x) = n % GasWords
      OBVIOUS
    <3>6. f[r] < GasWords => c[r] = f[r]
      BY <1>8, <3>1
    <3> HIDE DEF n, w, x, r
    <3>7. n \in Nat /\ f[s] = n + f[r]
      BY <3>3, <3>4 DEF n
    <3>8. n < GasWords /\ f[r] < GasWords
      BY <1>2, <3>3, <3>7
    <3>9. n % GasWords = n /\ f[s] % GasWords = f[s]
      BY <1>2, <3>3, <3>7, <3>8
    <3> QED
      BY <3>2, <3>5, <3>6, <3>7, <3>8, <3>9
  <2> QED
    BY <2>1, <2>2
<1> HIDE DEF A, c, w
<1>9. SUBSET Tokens \subseteq A
  BY <1>2, <1>8, SubsetInduction
<1> QED
  BY <1>1, <1>7, <1>9 DEF A

LEMMA CostNat ==
  ASSUME NEW tokens \in [Tokens -> Nat]
  PROVE  Cost(tokens) \in Nat
<1>1. PICK f : Sums(f, Weights(tokens), Tokens) /\ Cost(tokens) = f[Tokens]
  BY CostSums
<1> QED
  BY <1>1 DEF Sums

LEMMA CostAdds ==
  ASSUME NEW a \in [Tokens -> Nat], NEW b \in [Tokens -> Nat], NEW c \in [Tokens -> Nat],
         \A t \in Tokens : c[t] = a[t] + b[t]
  PROVE  Cost(c) = Cost(a) + Cost(b)
<1>1. PICK f : Sums(f, Weights(a), Tokens) /\ Cost(a) = f[Tokens]
  BY CostSums
<1>2. PICK g : Sums(g, Weights(b), Tokens) /\ Cost(b) = g[Tokens]
  BY CostSums
<1>3. PICK e : Sums(e, Weights(c), Tokens) /\ Cost(c) = e[Tokens]
  BY CostSums
<1>4. \A t \in Tokens : Weights(c)[t] = Weights(a)[t] + Weights(b)[t]
  <2> SUFFICES ASSUME NEW t \in Tokens
               PROVE  c[t] * TokenCosts[t] = a[t] * TokenCosts[t] + b[t] * TokenCosts[t]
    BY DEF Weights
  <2>1. a[t] \in Nat /\ b[t] \in Nat /\ TokenCosts[t] \in Nat /\ c[t] = a[t] + b[t]
    BY GasAssumption
  <2>2. \A x, y, z \in Nat : (x + y) * z = x * z + y * z
    OBVIOUS
  <2> QED
    BY <2>1, <2>2
<1>5. Weights(a) \in [Tokens -> Nat] /\ Weights(b) \in [Tokens -> Nat]
  BY WeightsNat
<1>6. \A s \in SUBSET Tokens : e[s] = f[s] + g[s]
  BY <1>1, <1>2, <1>3, <1>4, <1>5, SumAdds, GasAssumption
<1> QED
  BY <1>1, <1>2, <1>3, <1>6

\* The sum of a sequence.
SeqSum(q) == FoldSeq(+, 0, q)

LEMMA SeqSums ==
  ASSUME NEW q \in Seq(Nat)
  PROVE  \E f : Sums(f, q, 1..Len(q)) /\ SeqSum(q) = f[1..Len(q)]
<1> DEFINE D == 1..Len(q)
           P(f) == f = [s \in SUBSET D |->
                          IF s = {} THEN 0 ELSE q[Pick(s)] + f[s \ {Pick(s)}]]
           c == CHOOSE f : P(f)
<1>1. DOMAIN q = D /\ q \in [D -> Nat]
  OBVIOUS
<1>2. SeqSum(q) = c[D]
  BY <1>1 DEF SeqSum, FoldSeq, FoldFunction, FoldFunctionOnSet, MapThenFoldSet, Pick
<1>3. IsFiniteSet(D)
  BY FS_Interval
<1> HIDE DEF D
<1>4. PICK f : Sums(f, q, D)
  BY <1>1, <1>3, SumExists
<1>5. P(f)
  BY <1>4 DEF Sums
<1>6. P(c)
  <2> HIDE DEF P
  <2> QED
    BY <1>5
<1>7. ASSUME NEW g, P(g) PROVE Sums(g, q, D)
  BY <1>3, <1>4, <1>7, SumOnly
<1> HIDE DEF P, c
<1> QED
  BY <1>2, <1>6, <1>7 DEF D

LEMMA SeqSumNat ==
  ASSUME NEW q \in Seq(Nat)
  PROVE  SeqSum(q) \in Nat
<1>1. PICK f : Sums(f, q, 1..Len(q)) /\ SeqSum(q) = f[1..Len(q)]
  BY SeqSums
<1> QED
  BY <1>1 DEF Sums

LEMMA SeqSumEmpty == SeqSum(<<>>) = 0
<1>1. <<>> \in Seq(Nat) /\ 1..Len(<<>>) = {}
  OBVIOUS
<1>2. PICK f : Sums(f, <<>>, 1..Len(<<>>)) /\ SeqSum(<<>>) = f[1..Len(<<>>)]
  BY <1>1, SeqSums
<1> QED
  BY <1>1, <1>2 DEF Sums

\* Each number of a sequence is part of its sum.
LEMMA SeqSumTakes ==
  \A h, f, S, x : Sums(f, h, S) /\ x \in S => f[S] = h[x] + f[S \ {x}]
<1> TAKE h, f, S, x
<1> HAVE Sums(f, h, S) /\ x \in S
<1> QED
  BY SumTakes

LEMMA SeqSumBounds ==
  ASSUME NEW q, q \in Seq(Nat), NEW i \in 1..Len(q)
  PROVE  q[i] <= SeqSum(q)
<1>1. PICK f : Sums(f, q, 1..Len(q)) /\ SeqSum(q) = f[1..Len(q)]
  BY SeqSums
<1>2. SeqSum(q) = q[i] + f[(1..Len(q)) \ {i}]
  <2>1. i \in 1..Len(q)
    OBVIOUS
  <2>2. Sums(f, q, 1..Len(q))
    BY <1>1
  <2>3. f[1..Len(q)] = q[i] + f[(1..Len(q)) \ {i}]
    BY ONLY <2>1, <2>2, SeqSumTakes
  <2> QED
    BY ONLY <1>1, <2>3
<1>3. q[i] \in Nat /\ f[(1..Len(q)) \ {i}] \in Nat
  BY <1>1 DEF Sums
<1> QED
  BY <1>2, <1>3

LEMMA SeqSumAppend ==
  ASSUME NEW q, q \in Seq(Nat), NEW x \in Nat
  PROVE  SeqSum(Append(q, x)) = SeqSum(q) + x
<1> DEFINE r == Append(q, x)
           n == Len(q)
           D == 1..n
           E == 1..Len(r)
<1>1. r \in Seq(Nat) /\ Len(r) = n + 1 /\ n \in Nat /\ r[n + 1] = x /\ \A i \in 1..n : r[i] = q[i]
  OBVIOUS
<1>2. PICK f : Sums(f, q, D) /\ SeqSum(q) = f[D]
  BY SeqSums
<1> HIDE DEF r, n
<1>3. PICK g : Sums(g, r, E) /\ SeqSum(r) = g[E]
  BY <1>1, SeqSums
<1>4. n + 1 \in 1..Len(r) /\ D = E \ {n + 1} /\ D \subseteq E
  BY <1>1
<1>5. SeqSum(r) = x + g[D]
  <2>1. g[E] = r[n + 1] + g[E \ {n + 1}]
    <3>1. Sums(g, r, E) /\ n + 1 \in E
      BY <1>3, <1>4
    <3> HIDE DEF E
    <3> QED
      BY ONLY <3>1, SeqSumTakes
  <2> QED
    BY <1>1, <1>3, <1>4, <2>1
<1>6. IsFiniteSet(D)
  BY <1>1, FS_Interval
<1>7. f[D] = g[D]
  <2>1. \A i \in D : q[i] = r[i]
    BY <1>1
  <2> HIDE DEF D, E
  <2>2. \A s \in SUBSET D : f[s] = g[s]
    BY <1>2, <1>3, <1>4, <1>6, <2>1, SumSame
  <2> QED
    BY <2>2
<1>8. f[D] \in Nat
  BY <1>2 DEF Sums
<1> HIDE DEF D, E
<1>9. SeqSum(r) = SeqSum(q) + x
  BY <1>2, <1>5, <1>7, <1>8
<1> QED
  BY <1>9 DEF r

LEMMA SeqSumRemove ==
  ASSUME NEW q, q \in Seq(Nat), NEW i \in 1..Len(q)
  PROVE  /\ SeqSum(RemoveAt(q, i)) + q[i] = SeqSum(q)
         /\ RemoveAt(q, i) \in Seq(Nat)
<1> DEFINE r == RemoveAt(q, i)
           n == Len(q)
           p == [j \in 1..(n - 1) |-> IF j < i THEN j ELSE j + 1]
           D == 1..n
           E == 1..Len(r)
<1>1. /\ r \in Seq(Nat) /\ Len(r) = n - 1 /\ n \in Nat /\ n > 0 /\ i \in 1..n
      /\ \A j \in 1..(n - 1) : r[j] = q[IF j < i THEN j ELSE j + 1]
  <2> DEFINE a == SubSeq(q, 1, i - 1)
             b == SubSeq(q, i + 1, n)
  <2>1. n \in Nat /\ i \in 1..n /\ n > 0
    OBVIOUS
  <2>2. a \in Seq(Nat) /\ Len(a) = i - 1 /\ \A j \in 1..(i - 1) : a[j] = q[j]
    BY <2>1
  <2>3. b \in Seq(Nat) /\ Len(b) = n - i /\ \A j \in 1..(n - i) : b[j] = q[i + j]
    BY <2>1
  <2>4. r = a \o b
    BY DEF RemoveAt
  <2> HIDE DEF a, b, r, n
  <2>5. r \in Seq(Nat) /\ Len(r) = n - 1
    BY <2>1, <2>2, <2>3, <2>4
  <2>6. ASSUME NEW j \in 1..(n - 1)
        PROVE  r[j] = q[IF j < i THEN j ELSE j + 1]
    <3>1. CASE j < i
      BY <2>1, <2>2, <2>3, <2>4, <3>1
    <3>2. CASE ~(j < i)
      <4>1. r[j] = b[j - (i - 1)] /\ j - (i - 1) \in 1..(n - i) /\ i + (j - (i - 1)) = j + 1
        BY <2>1, <2>2, <2>3, <2>4, <3>2, SMTT(60)
      <4> QED
        BY <2>3, <3>2, <4>1
    <3> QED
      BY <3>1, <3>2
  <2> QED
    BY <2>1, <2>5, <2>6
<1>2. PICK f : Sums(f, q, D) /\ SeqSum(q) = f[D]
  BY SeqSums
<1>3. f[D] = q[i] + f[D \ {i}]
  <2>1. Sums(f, q, D) /\ i \in D
    BY <1>2
  <2> HIDE DEF D
  <2> QED
    BY <2>1, SeqSumTakes
<1>4. IsFiniteSet(D) /\ q \in [D -> Nat]
  BY FS_Interval
<1> HIDE DEF r, n
<1>5. PICK g : Sums(g, r, E) /\ SeqSum(r) = g[E]
  BY <1>1, SeqSums
<1>6. IsFiniteSet(E) /\ r \in [E -> Nat] /\ E = 1..(n - 1)
  <2>1. E = 1..(n - 1) /\ r \in [E -> Nat]
    BY <1>1
  <2>2. IsFiniteSet(1..(n - 1))
    BY <1>1, FS_Interval
  <2> QED
    BY <2>1, <2>2
<1>7. /\ p \in [E -> D]
      /\ \A x, y \in E : p[x] = p[y] => x = y
      /\ \A x \in E : r[x] = q[p[x]]
  BY <1>1
<1>8. \A y : y \in D \ {i} <=> \E x \in E : y = p[x]
  <2>1. ASSUME NEW y \in D \ {i}
        PROVE  \E x \in E : y = p[x]
    <3>1. CASE y < i
      <4>1. y \in E /\ p[y] = y
        BY <1>1, <3>1
      <4> QED
        BY <4>1
    <3>2. CASE ~(y < i)
      <4>1. y - 1 \in E /\ ~(y - 1 < i) /\ y - 1 + 1 = y
        BY <1>1, <3>2
      <4>2. p[y - 1] = y
        BY <1>6, <4>1
      <4> QED
        BY <4>1, <4>2
    <3> QED
      BY <3>1, <3>2
  <2>2. \A x \in E : p[x] \in D \ {i}
    BY <1>1
  <2> HIDE DEF D, E, p
  <2> QED
    BY <2>1, <2>2
<1>10. q[i] \in Nat
  BY <1>4 DEF D, n
<1> HIDE DEF p, D, E
<1> DEFINE I == D \ {i}
<1>9. Moved(p, E) = I
  BY <1>8 DEF Moved
<1>12. f[I] \in Nat
  BY <1>2 DEF Sums
<1>13. f[D] = q[i] + f[I]
  BY <1>3
<1> HIDE DEF I
<1>14. g[E] = f[I]
  <2>1. Moves(p, r, E, q, D)
    BY <1>7 DEF Moves
  <2>2. g[E] = f[Moved(p, E)]
    BY <1>2, <1>4, <1>5, <1>6, <2>1, SumMoved
  <2> QED
    BY <1>9, <2>2
<1>11. SeqSum(r) + q[i] = SeqSum(q)
  BY <1>2, <1>5, <1>10, <1>12, <1>13, <1>14
<1> QED
  BY <1>1, <1>11 DEF r

-----------------------------------------------------------------------------
(* The invariant.                                                          *)

\* Nothing is set aside before the call starts; the accesses of the dictionary alive are
\* part of what was spent, so that a squash gives back no more than that.
GasInv ==
  /\ TypeOK
  /\ reserves \in Seq(0..(ReserveWords - 1))
  /\ status # "running" => /\ reserves = <<>> /\ coupons = 0
                           /\ dict = FreshDict /\ spent = 0
  /\ Conserved
  /\ dict.keys <= dict.count
  /\ dict.count * Cost(AccessCost) <= spent

LEMMA Products ==
  /\ \A n, c \in Nat : n * c \in Nat
  /\ \A n, c \in Nat : (n + 1) * c = n * c + c
  /\ \A n, m, c \in Nat : m <= n => (n - m) * c = n * c - m * c
OBVIOUS

LEMMA Constants ==
  /\ GasWords \in Nat /\ GasWords > 0
  /\ ReserveWords \in Nat /\ GasWords <= ReserveWords
  /\ \A tokens \in StatementCosts \cup {FunctionCost, CouponCost, AccessCost} :
       tokens \in [Tokens -> Nat] /\ Cost(tokens) \in Nat /\ Cost(tokens) < GasWords
<1>1. GasWords \in Nat /\ GasWords > 0
  BY GasAssumption
<1>2. \A n \in Nat : n > 0 => n * n \in Nat /\ n <= n * n
  OBVIOUS
<1>3. ReserveWords \in Nat /\ GasWords <= ReserveWords
  BY <1>1, <1>2 DEF ReserveWords
<1>4. \A tokens \in StatementCosts \cup {FunctionCost, CouponCost, AccessCost} :
        tokens \in [Tokens -> Nat] /\ Cost(tokens) \in Nat /\ Cost(tokens) < GasWords
  BY CostsAssumption, CostNat
<1> QED
  BY <1>1, <1>3, <1>4

LEMMA ReservesNat ==
  ASSUME NEW q \in Seq(0..(ReserveWords - 1))
  PROVE  q \in Seq(Nat)
<1>1. Len(q) \in Nat /\ DOMAIN q = 1..Len(q) /\ q = [i \in 1..Len(q) |-> q[i]]
  OBVIOUS
<1>2. \A i \in 1..Len(q) : q[i] \in Nat
  <2> DEFINE S == 0..(ReserveWords - 1)
  <2>1. S \subseteq Nat
    OBVIOUS
  <2> HIDE DEF S
  <2>2. q \in Seq(S)
    BY DEF S
  <2>3. \A i \in 1..Len(q) : q[i] \in S
    BY <2>2
  <2> QED
    BY <2>1, <2>3
<1> QED
  BY ONLY <1>1, <1>2

LEMMA HeldIs == Held = SeqSum(reserves) /\ Held' = SeqSum(reserves')
<1>1. Held = SeqSum(reserves)
  BY DEF Held, SeqSum
<1>2. (Held = SeqSum(reserves))'
  BY <1>1, PTL
<1>3. Held' = SeqSum(reserves')
  BY <1>2
<1> QED
  BY <1>1, <1>3

\* What the invariant says of the amounts of gas.
LEMMA Holdings ==
  ASSUME GasInv
  PROVE  /\ given \in Nat /\ given < GasWords /\ gas \in Nat /\ gas < GasWords
         /\ wallet \in [Tokens -> Nat] /\ Cost(wallet) \in Nat
         /\ reserves \in Seq(Nat) /\ Held = SeqSum(reserves) /\ Held \in Nat
         /\ coupons \in Nat /\ coupons * Cost(CouponCost) \in Nat /\ spent \in Nat
         /\ status = "running" =>
              given = gas + Cost(wallet) + Held + (coupons * Cost(CouponCost)) + spent
<1>1. given \in Nat /\ given < GasWords /\ gas \in Nat /\ gas < GasWords
  BY AmountsAssumption, Constants DEF GasInv, TypeOK
<1>2. wallet \in [Tokens -> Nat] /\ Cost(wallet) \in Nat
  BY CostNat DEF GasInv, TypeOK
<1>3. reserves \in Seq(Nat)
  BY ReservesNat DEF GasInv
<1>4. Held = SeqSum(reserves) /\ Held \in Nat
  BY <1>3, HeldIs, SeqSumNat
<1>5. coupons \in Nat /\ coupons * Cost(CouponCost) \in Nat /\ spent \in Nat
  BY AmountsAssumption, Constants, Products DEF GasInv, TypeOK
<1>6. status = "running" =>
        given = gas + Cost(wallet) + Held + (coupons * Cost(CouponCost)) + spent
  BY DEF GasInv, Conserved, Unused
<1> QED
  BY <1>1, <1>2, <1>3, <1>4, <1>5, <1>6

LEMMA WalletPlus ==
  ASSUME GasInv, NEW tokens \in [Tokens -> Nat]
  PROVE  Plus(tokens) \in [Tokens -> Nat] /\ Cost(Plus(tokens)) = Cost(wallet) + Cost(tokens)
<1>1. wallet \in [Tokens -> Nat]
  BY DEF GasInv, TypeOK
<1>2. Plus(tokens) \in [Tokens -> Nat] /\ \A t \in Tokens : Plus(tokens)[t] = wallet[t] + tokens[t]
  BY <1>1 DEF Plus
<1> QED
  BY <1>1, <1>2, CostAdds

LEMMA WalletMinus ==
  ASSUME GasInv, NEW tokens \in [Tokens -> Nat], Covers(tokens)
  PROVE  /\ Minus(tokens) \in [Tokens -> Nat] /\ Cost(Minus(tokens)) \in Nat
         /\ Cost(wallet) = Cost(Minus(tokens)) + Cost(tokens)
<1>1. wallet \in [Tokens -> Nat]
  BY DEF GasInv, TypeOK
<1>2. Minus(tokens) \in [Tokens -> Nat] /\ \A t \in Tokens : wallet[t] = Minus(tokens)[t] + tokens[t]
  BY <1>1 DEF Minus, Covers
<1> QED
  BY <1>1, <1>2, CostAdds, CostNat

LEMMA GasInvInit == Init => GasInv
<1> SUFFICES ASSUME Init PROVE GasInv
  OBVIOUS
<1>1. <<>> \in Seq(0..(ReserveWords - 1)) /\ Range(<<>>) = {}
  BY DEF Range
<1>2. NoTokens \in [Tokens -> Nat]
  BY DEF NoTokens
<1>3. TypeOK
  BY <1>1, <1>2, Constants, AmountsAssumption DEF Init, TypeOK, FreshDict
<1>4. 0 * Cost(AccessCost) = 0
  BY Constants
<1> QED
  BY <1>1, <1>3, <1>4 DEF Init, GasInv, Conserved, FreshDict

LEMMA StartStep ==
  ASSUME GasInv, Start
  PROVE  GasInv'
<1>1. /\ given' = given /\ reserves' = reserves /\ coupons' = coupons /\ dict' = dict
      /\ spent' = spent /\ status = "idle"
  BY DEF Start
<1>2. reserves = <<>> /\ coupons = 0 /\ dict = FreshDict /\ spent = 0
  BY <1>1 DEF GasInv
<1>3. /\ given \in Nat /\ given < GasWords /\ gas \in Nat /\ gas < GasWords
      /\ FunctionCost \in [Tokens -> Nat] /\ Cost(FunctionCost) \in Nat
  BY Holdings, Constants
<1>4. CASE given >= Cost(FunctionCost)
  <2>1. status' = "running" /\ gas' = given - Cost(FunctionCost) /\ wallet' = FunctionCost
    BY <1>4 DEF Start
  <2>2. TypeOK'
    BY <1>1, <1>3, <1>4, <2>1, Constants DEF TypeOK, GasInv
  <2>3. Conserved'
    <3>1. Held' = 0
      BY <1>1, <1>2, HeldIs, SeqSumEmpty
    <3>2. 0 * Cost(CouponCost) = 0
      BY Constants
    <3> QED
      BY <1>1, <1>2, <1>3, <1>4, <2>1, <3>1, <3>2 DEF Conserved, Unused
  <2> QED
    BY <1>1, <2>1, <2>2, <2>3 DEF GasInv
<1>5. CASE ~(given >= Cost(FunctionCost))
  <2>1. status' = "refused" /\ gas' = gas /\ wallet' = wallet
    BY <1>5 DEF Start
  <2> QED
    BY <1>1, <1>2, <2>1 DEF GasInv, TypeOK, Conserved
<1> QED
  BY <1>4, <1>5

LEMMA WithinRange ==
  ASSUME NEW S, NEW q, q \in Seq(S)
  PROVE  Range(q) \subseteq S
<1>1. \A i \in DOMAIN q : q[i] \in S
  OBVIOUS
<1>2. SUFFICES ASSUME NEW y \in Range(q) PROVE y \in S
  OBVIOUS
<1>3. PICK i \in DOMAIN q : y = q[i]
  BY ONLY <1>2 DEF Range
<1> QED
  BY ONLY <1>1, <1>3

\* A step of the call keeps the invariant if it keeps the account.
LEMMA AccountKept ==
  ASSUME GasInv, Running,
         gas' \in Nat, wallet' \in [Tokens -> Nat], reserves' \in Seq(0..(ReserveWords - 1)),
         coupons' \in 0..MaxCoupons, spent' \in Nat,
         dict' \in [count : 0..MaxAccesses, keys : 0..MaxAccesses],
         dict'.keys <= dict'.count, dict'.count * Cost(AccessCost) <= spent',
         given = gas' + Cost(wallet') + SeqSum(reserves') + (coupons' * Cost(CouponCost)) + spent'
  PROVE  GasInv'
<1>1. given' = given /\ status' = status /\ status = "running"
  BY DEF Running
<1>2. /\ Cost(wallet') \in Nat /\ SeqSum(reserves') \in Nat /\ coupons' * Cost(CouponCost) \in Nat
      /\ given \in Nat /\ given < GasWords
  <2>1. coupons' \in Nat
    BY AmountsAssumption
  <2>2. reserves' \in Seq(Nat)
    BY ReservesNat
  <2> QED
    BY <2>1, <2>2, CostNat, SeqSumNat, Constants, Products, Holdings
<1>3. gas' \in 0..(GasWords - 1)
  <2>1. \A g, w, r, c, s \in Nat : given = g + w + r + c + s => g <= given
    BY <1>2
  <2>2. gas' <= given
    BY <1>2, <2>1
  <2> QED
    BY <1>2, <2>2, Constants
<1>4. Range(reserves') \subseteq 0..(ReserveWords - 1)
  BY WithinRange
<1>5. TypeOK'
  BY <1>1, <1>3, <1>4 DEF TypeOK, GasInv
<1>6. Conserved'
  <2>1. Unused' = gas' + Cost(wallet') + SeqSum(reserves') + (coupons' * Cost(CouponCost))
    BY HeldIs DEF Unused
  <2> QED
    BY <1>1, <1>2, <2>1 DEF Conserved
<1> QED
  BY <1>1, <1>5, <1>6 DEF GasInv

\* withdraw_gas, redeposit_gas and the other statements.
LEMMA WalletStep ==
  ASSUME GasInv, NEW tokens \in StatementCosts,
         WithdrawGas(tokens) \/ RedepositGas(tokens) \/ RunStatement(tokens)
  PROVE  GasInv'
<1>1. /\ tokens \in [Tokens -> Nat] /\ Cost(tokens) \in Nat
      /\ build_calculate_gas_cost(tokens) = Cost(tokens)
  BY Constants, CostCalculated
<1>2. Running /\ reserves' = reserves /\ coupons' = coupons /\ dict' = dict
  BY DEF WithdrawGas, RedepositGas, RunStatement
<1>3. /\ given \in Nat /\ given < GasWords /\ gas \in Nat
      /\ wallet \in [Tokens -> Nat] /\ Cost(wallet) \in Nat /\ Held = SeqSum(reserves) /\ Held \in Nat
      /\ coupons * Cost(CouponCost) \in Nat /\ spent \in Nat
      /\ given = gas + Cost(wallet) + Held + (coupons * Cost(CouponCost)) + spent
  BY <1>2, Holdings DEF Running
<1>4. /\ reserves \in Seq(0..(ReserveWords - 1)) /\ coupons \in 0..MaxCoupons
      /\ dict \in [count : 0..MaxAccesses, keys : 0..MaxAccesses]
      /\ dict.keys <= dict.count /\ dict.count * Cost(AccessCost) <= spent
      /\ dict.count * Cost(AccessCost) \in Nat
  BY Constants, Products DEF GasInv, TypeOK
<1>5. ASSUME gas' \in Nat, wallet' \in [Tokens -> Nat], spent' \in Nat, spent' >= spent,
             gas' + Cost(wallet') + spent' = gas + Cost(wallet) + spent
      PROVE  GasInv'
  <2>1. Cost(wallet') \in Nat
    BY <1>5, CostNat
  <2>2. given = gas' + Cost(wallet') + SeqSum(reserves') + (coupons' * Cost(CouponCost)) + spent'
    BY <1>2, <1>3, <1>5, <2>1
  <2>3. dict.count * Cost(AccessCost) <= spent'
    BY <1>3, <1>4, <1>5
  <2> QED
    BY <1>2, <1>4, <1>5, <2>2, <2>3, AccountKept
<1>6. CASE WithdrawGas(tokens)
  <2>1. spent' = spent
    BY <1>6 DEF WithdrawGas
  <2>2. CASE gas >= Cost(tokens)
    <3>1. gas' = gas - Cost(tokens) /\ wallet' = Plus(tokens)
      BY <1>1, <1>3, <1>6, <2>2 DEF WithdrawGas, build_withdraw_gas, Branch, usub_sat
    <3>2. wallet' \in [Tokens -> Nat] /\ Cost(wallet') = Cost(wallet) + Cost(tokens)
      BY <1>1, <3>1, WalletPlus
    <3> QED
      BY <1>1, <1>3, <1>5, <2>1, <2>2, <3>1, <3>2
  <2>3. CASE ~(gas >= Cost(tokens))
    <3>1. gas' = gas /\ wallet' = wallet
      BY <1>1, <1>6, <2>3 DEF WithdrawGas, build_withdraw_gas, Branch
    <3> QED
      BY <1>3, <1>5, <2>1, <3>1
  <2> QED
    BY <2>2, <2>3
<1>7. CASE RedepositGas(tokens)
  <2>1. spent' = spent /\ wallet' = Minus(tokens) /\ Covers(tokens)
    BY <1>7 DEF RedepositGas
  <2>2. /\ wallet' \in [Tokens -> Nat] /\ Cost(wallet') \in Nat
        /\ Cost(wallet) = Cost(wallet') + Cost(tokens)
    BY <1>1, <2>1, WalletMinus
  <2>3. gas + Cost(tokens) < GasWords
    BY <1>1, <1>3, <2>2, Constants
  <2>4. gas' = gas + Cost(tokens)
    BY <1>1, <1>7, <2>3 DEF RedepositGas, build_redeposit_gas, Branch, uadd_sat
  <2> QED
    BY <1>1, <1>3, <1>5, <2>1, <2>2, <2>4
<1>8. CASE RunStatement(tokens)
  <2>1. gas' = gas /\ spent' = spent + Cost(tokens) /\ wallet' = Minus(tokens) /\ Covers(tokens)
    BY <1>8 DEF RunStatement
  <2>2. /\ wallet' \in [Tokens -> Nat] /\ Cost(wallet') \in Nat
        /\ Cost(wallet) = Cost(wallet') + Cost(tokens)
    BY <1>1, <2>1, WalletMinus
  <2> QED
    BY <1>1, <1>3, <1>5, <2>1, <2>2
<1> QED
  BY <1>6, <1>7, <1>8

\* What a running call has before a step: the account, and that each part fits.
LEMMA Account ==
  ASSUME GasInv, Running
  PROVE  /\ given \in Nat /\ given < GasWords /\ gas \in Nat
         /\ wallet \in [Tokens -> Nat] /\ Cost(wallet) \in Nat /\ SeqSum(reserves) \in Nat
         /\ coupons \in Nat /\ coupons * Cost(CouponCost) \in Nat /\ spent \in Nat
         /\ given = gas + Cost(wallet) + SeqSum(reserves) + (coupons * Cost(CouponCost)) + spent
<1>1. status = "running"
  BY DEF Running
<1> QED
  BY <1>1, Holdings

LEMMA Bounded ==
  ASSUME GasInv
  PROVE  /\ reserves \in Seq(0..(ReserveWords - 1)) /\ reserves \in Seq(Nat)
         /\ coupons \in 0..MaxCoupons
         /\ dict \in [count : 0..MaxAccesses, keys : 0..MaxAccesses]
         /\ dict.count \in Nat /\ dict.keys \in Nat /\ dict.keys <= dict.count
         /\ dict.count * Cost(AccessCost) \in Nat /\ dict.count * Cost(AccessCost) <= spent
<1>1. dict \in [count : 0..MaxAccesses, keys : 0..MaxAccesses]
  BY DEF GasInv, TypeOK
<1>2. dict.count \in Nat /\ dict.keys \in Nat
  BY <1>1, AmountsAssumption
<1>3. dict.count * Cost(AccessCost) \in Nat
  BY <1>2, Constants, Products
<1> QED
  BY <1>1, <1>2, <1>3, Holdings DEF GasInv, TypeOK

LEMMA CreateReserveStep ==
  ASSUME GasInv, NEW amount \in Amounts, CreateReserve(amount)
  PROVE  GasInv'
<1>1. /\ Running /\ wallet' = wallet /\ coupons' = coupons /\ dict' = dict /\ spent' = spent
  BY DEF CreateReserve
<1>2. amount \in 0..(ReserveWords - 1) /\ amount \in Nat
  BY AmountsAssumption
<1>3. /\ given \in Nat /\ given < GasWords /\ gas \in Nat
      /\ wallet \in [Tokens -> Nat] /\ Cost(wallet) \in Nat /\ SeqSum(reserves) \in Nat
      /\ coupons * Cost(CouponCost) \in Nat /\ spent \in Nat
      /\ given = gas + Cost(wallet) + SeqSum(reserves) + (coupons * Cost(CouponCost)) + spent
  BY <1>1, Account
<1>4. /\ coupons \in 0..MaxCoupons /\ dict \in [count : 0..MaxAccesses, keys : 0..MaxAccesses]
      /\ dict.keys <= dict.count /\ dict.count * Cost(AccessCost) <= spent
  BY Bounded
<1>5. CASE gas >= amount
  <2>1. /\ gas' = ((gas - amount) % ReserveWords) % GasWords
        /\ reserves' = Append(reserves, amount)
    BY <1>5 DEF CreateReserve, build_gas_reserve_create, Branch
  <2>2. gas - amount \in Nat /\ gas - amount < GasWords /\ gas - amount < ReserveWords
    BY <1>2, <1>3, <1>5, Constants
  <2>3. gas' = gas - amount
    <3>1. \A n, m, w \in Nat : n < w /\ n < m => (n % m) % w = n
      OBVIOUS
    <3> QED
      BY <2>1, <2>2, <3>1, Constants
  <2>4. SeqSum(reserves') = SeqSum(reserves) + amount
    <3>1. reserves \in Seq(Nat)
      BY Bounded
    <3> QED
      BY ONLY <1>2, <2>1, <3>1, SeqSumAppend
  <2>5. reserves' \in Seq(0..(ReserveWords - 1))
    <3> DEFINE S == 0..(ReserveWords - 1)
    <3>1. reserves \in Seq(S) /\ amount \in S
      BY <1>2, Bounded
    <3> HIDE DEF S
    <3>2. Append(reserves, amount) \in Seq(S)
      BY <3>1
    <3> QED
      BY <2>1, <3>2 DEF S
  <2>6. given = gas' + Cost(wallet') + SeqSum(reserves') + (coupons' * Cost(CouponCost)) + spent'
    BY <1>1, <1>2, <1>3, <2>3, <2>4
  <2> QED
    BY <1>1, <1>3, <1>4, <2>2, <2>3, <2>5, <2>6, AccountKept
<1>6. CASE ~(gas >= amount)
  <2>1. gas' = gas /\ reserves' = reserves
    BY <1>6 DEF CreateReserve, build_gas_reserve_create, Branch
  <2>2. reserves \in Seq(0..(ReserveWords - 1))
    BY Bounded
  <2> QED
    BY <1>1, <1>3, <1>4, <2>1, <2>2, AccountKept
<1> QED
  BY <1>5, <1>6

LEMMA UtilizeReserveStep ==
  ASSUME GasInv, NEW i \in DOMAIN reserves, UtilizeReserve(i)
  PROVE  GasInv'
<1>1. /\ Running /\ wallet' = wallet /\ coupons' = coupons /\ dict' = dict /\ spent' = spent
      /\ gas' = (gas + (reserves[i] % GasWords)) % GasWords /\ reserves' = RemoveAt(reserves, i)
  BY DEF UtilizeReserve, build_gas_reserve_utilize, Branch
<1>2. /\ given \in Nat /\ given < GasWords /\ gas \in Nat
      /\ wallet \in [Tokens -> Nat] /\ Cost(wallet) \in Nat /\ SeqSum(reserves) \in Nat
      /\ coupons * Cost(CouponCost) \in Nat /\ spent \in Nat
      /\ given = gas + Cost(wallet) + SeqSum(reserves) + (coupons * Cost(CouponCost)) + spent
  BY <1>1, Account
<1>3. /\ coupons \in 0..MaxCoupons /\ dict \in [count : 0..MaxAccesses, keys : 0..MaxAccesses]
      /\ dict.keys <= dict.count /\ dict.count * Cost(AccessCost) <= spent
  BY Bounded
<1>4. reserves \in Seq(Nat)
  BY Bounded
<1>5. i \in 1..Len(reserves) /\ reserves[i] \in Nat
  BY ONLY <1>4, i \in DOMAIN reserves
<1>6. reserves[i] <= SeqSum(reserves)
  BY ONLY <1>4, <1>5, SeqSumBounds
<1>7. SeqSum(reserves') + reserves[i] = SeqSum(reserves) /\ reserves' \in Seq(Nat)
  BY ONLY <1>1, <1>4, <1>5, SeqSumRemove
<1>8. SeqSum(reserves') \in Nat
  BY ONLY <1>7, SeqSumNat
<1>9. SeqSum(reserves') + reserves[i] = SeqSum(reserves)
  BY <1>7
<1>10. reserves[i] \in Nat
  BY <1>5
<1>11. gas' = gas + reserves[i]
  <2>1. reserves[i] < GasWords /\ gas + reserves[i] < GasWords
    BY <1>2, <1>6, <1>10, Constants
  <2>2. \A x, y, w \in Nat : w > 0 /\ x + y < w /\ y < w => (x + (y % w)) % w = x + y
    OBVIOUS
  <2> QED
    BY <1>1, <1>2, <1>10, <2>1, <2>2, Constants
<1>12. reserves' \in Seq(0..(ReserveWords - 1))
  <2> DEFINE S == 0..(ReserveWords - 1)
  <2>1. reserves \in Seq(S)
    BY Bounded
  <2> HIDE DEF S
  <2>2. SubSeq(reserves, 1, i - 1) \in Seq(S) /\ SubSeq(reserves, i + 1, Len(reserves)) \in Seq(S)
    BY <1>5, <2>1
  <2>3. RemoveAt(reserves, i) \in Seq(S)
    BY <2>2 DEF RemoveAt
  <2> QED
    BY <1>1, <2>3 DEF S
<1>13. given = gas' + Cost(wallet') + SeqSum(reserves') + (coupons' * Cost(CouponCost)) + spent'
  BY <1>1, <1>2, <1>8, <1>9, <1>10, <1>11
<1>14. gas' \in Nat
  BY <1>2, <1>10, <1>11
<1> QED
  BY <1>1, <1>2, <1>3, <1>12, <1>13, <1>14, AccountKept

\* buy_coupon, refund_coupon, coupon_call.
LEMMA CouponStep ==
  ASSUME GasInv, BuyCoupon \/ RefundCoupon \/ CallWithCoupon
  PROVE  GasInv'
<1>1. Running /\ gas' = gas /\ reserves' = reserves /\ dict' = dict
  BY DEF BuyCoupon, RefundCoupon, CallWithCoupon
<1>2. CouponCost \in [Tokens -> Nat] /\ Cost(CouponCost) \in Nat
  BY Constants
<1>3. /\ given \in Nat /\ gas \in Nat
      /\ wallet \in [Tokens -> Nat] /\ Cost(wallet) \in Nat /\ SeqSum(reserves) \in Nat
      /\ coupons \in Nat /\ coupons * Cost(CouponCost) \in Nat /\ spent \in Nat
      /\ given = gas + Cost(wallet) + SeqSum(reserves) + (coupons * Cost(CouponCost)) + spent
  BY <1>1, Account
<1>4. /\ coupons \in 0..MaxCoupons /\ dict \in [count : 0..MaxAccesses, keys : 0..MaxAccesses]
      /\ dict.keys <= dict.count /\ dict.count * Cost(AccessCost) <= spent
      /\ dict.count * Cost(AccessCost) \in Nat
  BY Bounded
<1>5. reserves' \in Seq(0..(ReserveWords - 1))
  BY <1>1, Bounded
<1>6. CASE BuyCoupon
  <2>1. /\ coupons' = coupons + 1 /\ coupons < MaxCoupons /\ spent' = spent
        /\ wallet' = Minus(CouponCost) /\ Covers(CouponCost)
    BY <1>6 DEF BuyCoupon
  <2>2. /\ wallet' \in [Tokens -> Nat] /\ Cost(wallet') \in Nat
        /\ Cost(wallet) = Cost(wallet') + Cost(CouponCost)
    BY <1>2, <2>1, WalletMinus
  <2>3. coupons' \in 0..MaxCoupons
    BY <1>3, <2>1, AmountsAssumption
  <2>4. coupons' * Cost(CouponCost) = coupons * Cost(CouponCost) + Cost(CouponCost)
    BY <1>2, <1>3, <2>1, Products
  <2>5. given = gas' + Cost(wallet') + SeqSum(reserves') + (coupons' * Cost(CouponCost)) + spent'
    BY <1>1, <1>2, <1>3, <2>1, <2>2, <2>4
  <2> QED
    BY <1>1, <1>3, <1>4, <1>5, <2>1, <2>2, <2>3, <2>5, AccountKept
<1>7. CASE RefundCoupon \/ CallWithCoupon
  <2>1. coupons' = coupons - 1 /\ coupons > 0
    BY <1>7 DEF RefundCoupon, CallWithCoupon
  <2>2. coupons' \in 0..MaxCoupons /\ coupons' \in Nat
    BY <1>3, <1>4, <2>1, AmountsAssumption
  <2>3. coupons * Cost(CouponCost) = coupons' * Cost(CouponCost) + Cost(CouponCost)
    <3>1. coupons = coupons' + 1
      BY <1>3, <2>1
    <3> QED
      BY <1>2, <2>2, <3>1, Products
  <2>4. coupons' * Cost(CouponCost) \in Nat
    BY <1>2, <2>2, Products
  <2>5. /\ wallet' \in [Tokens -> Nat] /\ spent' \in Nat /\ spent' >= spent
        /\ Cost(wallet') + spent' = Cost(wallet) + spent + Cost(CouponCost)
    <3>1. CASE RefundCoupon
      <4>1. wallet' = Plus(CouponCost) /\ spent' = spent
        BY <3>1 DEF RefundCoupon
      <4>2. wallet' \in [Tokens -> Nat] /\ Cost(wallet') = Cost(wallet) + Cost(CouponCost)
        BY <1>2, <4>1, WalletPlus
      <4> QED
        BY <1>2, <1>3, <4>1, <4>2
    <3>2. CASE CallWithCoupon
      <4>1. wallet' = wallet /\ spent' = spent + Cost(CouponCost)
        BY <3>2 DEF CallWithCoupon
      <4> QED
        BY <1>2, <1>3, <4>1
    <3> QED
      BY <1>7, <3>1, <3>2
  <2>6. Cost(wallet') \in Nat
    BY <2>5, CostNat
  <2>7. given = gas' + Cost(wallet') + SeqSum(reserves') + (coupons' * Cost(CouponCost)) + spent'
    <3>1. /\ SeqSum(reserves') = SeqSum(reserves) /\ gas' = gas
          /\ Cost(wallet') \in Nat /\ spent' \in Nat
      BY <1>1, <2>5, <2>6
    <3>2. \A g, w, r, c, k, p, q, s, t \in Nat :
            c = k + p /\ q + t = w + s + p => g + w + r + c + s = g + q + r + k + t
      OBVIOUS
    <3> QED
      BY <1>2, <1>3, <2>3, <2>4, <2>5, <3>1, <3>2
  <2>8. dict.count * Cost(AccessCost) <= spent'
    BY <1>3, <1>4, <2>5
  <2> QED
    BY <1>1, <1>3, <1>4, <1>5, <2>2, <2>5, <2>7, <2>8, AccountKept
<1> QED
  BY <1>6, <1>7

\* An access of the dictionary.
LEMMA AccessDictStep ==
  ASSUME GasInv, NEW new \in BOOLEAN, AccessDict(new)
  PROVE  GasInv'
<1>1. /\ Running /\ gas' = gas /\ reserves' = reserves /\ coupons' = coupons
      /\ wallet' = Minus(AccessCost) /\ Covers(AccessCost) /\ dict.count < MaxAccesses
      /\ spent' = spent + Cost(AccessCost)
      /\ dict' = [count |-> dict.count + 1, keys |-> dict.keys + IF new THEN 1 ELSE 0]
  BY DEF AccessDict
<1>2. AccessCost \in [Tokens -> Nat] /\ Cost(AccessCost) \in Nat
  BY Constants
<1>3. /\ given \in Nat /\ gas \in Nat
      /\ wallet \in [Tokens -> Nat] /\ Cost(wallet) \in Nat /\ SeqSum(reserves) \in Nat
      /\ coupons * Cost(CouponCost) \in Nat /\ spent \in Nat
      /\ given = gas + Cost(wallet) + SeqSum(reserves) + (coupons * Cost(CouponCost)) + spent
  BY <1>1, Account
<1>4. /\ coupons \in 0..MaxCoupons
      /\ dict.count \in Nat /\ dict.keys \in Nat /\ dict.keys <= dict.count
      /\ dict.count * Cost(AccessCost) <= spent /\ dict.count * Cost(AccessCost) \in Nat
  BY Bounded
<1>5. reserves' \in Seq(0..(ReserveWords - 1))
  BY <1>1, Bounded
<1>6. /\ wallet' \in [Tokens -> Nat] /\ Cost(wallet') \in Nat
      /\ Cost(wallet) = Cost(wallet') + Cost(AccessCost)
  BY <1>1, <1>2, WalletMinus
<1>7. /\ dict' \in [count : 0..MaxAccesses, keys : 0..MaxAccesses]
      /\ dict'.count = dict.count + 1 /\ dict'.keys <= dict'.count
  BY <1>1, <1>4, AmountsAssumption
<1>8. dict'.count * Cost(AccessCost) <= spent'
  <2>1. (dict.count + 1) * Cost(AccessCost) = dict.count * Cost(AccessCost) + Cost(AccessCost)
    BY <1>2, <1>4, Products
  <2> QED
    BY <1>1, <1>2, <1>3, <1>4, <1>7, <2>1
<1>9. given = gas' + Cost(wallet') + SeqSum(reserves') + (coupons' * Cost(CouponCost)) + spent'
  BY <1>1, <1>2, <1>3, <1>6
<1>10. spent' \in Nat
  BY <1>1, <1>2, <1>3
<1> QED
  BY <1>1, <1>3, <1>4, <1>5, <1>6, <1>7, <1>8, <1>9, <1>10, AccountKept

\* dict_squash: no more is given back than the accesses were charged, and it fits the builtin.
LEMMA SquashDictStep ==
  ASSUME GasInv, SquashDict
  PROVE  GasInv'
<1> DEFINE back == usub_sat(dict.count, dict.keys) * Cost(AccessCost)
<1>1. /\ Running /\ wallet' = wallet /\ reserves' = reserves /\ coupons' = coupons
      /\ gas' = (gas + back) % GasWords /\ spent' = spent - back /\ dict' = FreshDict
  BY DEF SquashDict, dict_squash
<1>2. Cost(AccessCost) \in Nat
  BY Constants
<1>3. /\ given \in Nat /\ given < GasWords /\ gas \in Nat
      /\ wallet \in [Tokens -> Nat] /\ Cost(wallet) \in Nat /\ SeqSum(reserves) \in Nat
      /\ coupons * Cost(CouponCost) \in Nat /\ spent \in Nat
      /\ given = gas + Cost(wallet) + SeqSum(reserves) + (coupons * Cost(CouponCost)) + spent
  BY <1>1, Account
<1>4. /\ coupons \in 0..MaxCoupons
      /\ dict.count \in Nat /\ dict.keys \in Nat /\ dict.keys <= dict.count
      /\ dict.count * Cost(AccessCost) <= spent /\ dict.count * Cost(AccessCost) \in Nat
  BY Bounded
<1>5. reserves' \in Seq(0..(ReserveWords - 1))
  BY <1>1, Bounded
<1>6. back \in Nat /\ back <= spent
  <2>1. usub_sat(dict.count, dict.keys) = dict.count - dict.keys
    BY <1>4 DEF usub_sat
  <2>2. back = dict.count * Cost(AccessCost) - dict.keys * Cost(AccessCost)
    BY <1>2, <1>4, <2>1, Products
  <2>3. back \in Nat /\ dict.keys * Cost(AccessCost) \in Nat
    <3>1. dict.count - dict.keys \in Nat
      BY <1>4
    <3> QED
      BY <1>2, <1>4, <2>1, <3>1, Products
  <2> HIDE DEF back
  <2> QED
    BY <1>3, <1>4, <2>2, <2>3
<1> HIDE DEF back
<1>7. gas' = gas + back
  <2>1. gas + back < GasWords /\ gas + back \in Nat
    BY <1>3, <1>6, Constants
  <2> QED
    BY <1>1, <2>1, Constants
<1>8. /\ dict' \in [count : 0..MaxAccesses, keys : 0..MaxAccesses]
      /\ dict'.count = 0 /\ dict'.keys <= dict'.count
  BY <1>1, AmountsAssumption DEF FreshDict
<1>9. gas' \in Nat /\ spent' \in Nat
  BY <1>1, <1>3, <1>6, <1>7
<1>10. dict'.count * Cost(AccessCost) <= spent'
  BY <1>2, <1>8, <1>9
<1>11. given = gas' + Cost(wallet') + SeqSum(reserves') + (coupons' * Cost(CouponCost)) + spent'
  BY <1>1, <1>3, <1>6, <1>7
<1> QED
  BY <1>1, <1>3, <1>4, <1>5, <1>8, <1>9, <1>10, <1>11, AccountKept

LEMMA GasInvStep == GasInv /\ [Next]_vars => GasInv'
<1> SUFFICES ASSUME GasInv, [Next]_vars PROVE GasInv'
  OBVIOUS
<1>1. CASE Start
  BY <1>1, StartStep
<1>2. CASE \E tokens \in StatementCosts :
             WithdrawGas(tokens) \/ RedepositGas(tokens) \/ RunStatement(tokens)
  BY <1>2, WalletStep
<1>3. CASE \E amount \in Amounts : CreateReserve(amount)
  BY <1>3, CreateReserveStep
<1>4. CASE \E i \in DOMAIN reserves : UtilizeReserve(i)
  BY <1>4, UtilizeReserveStep
<1>5. CASE BuyCoupon \/ RefundCoupon \/ CallWithCoupon
  BY <1>5, CouponStep
<1>6. CASE \E new \in BOOLEAN : AccessDict(new)
  BY <1>6, AccessDictStep
<1>7. CASE SquashDict
  BY <1>7, SquashDictStep
<1>8. CASE UNCHANGED vars
  <2>1. Held' = Held
    BY <1>8, HeldIs DEF vars
  <2> QED
    BY <1>8, <2>1 DEF vars, GasInv, TypeOK, Conserved, Unused
<1> QED
  BY <1>1, <1>2, <1>3, <1>4, <1>5, <1>6, <1>7, <1>8 DEF Next

LEMMA Inductive == Spec => []GasInv
BY GasInvInit, GasInvStep, PTL DEF Spec

-----------------------------------------------------------------------------
(* What the invariant gives.                                               *)

\* The gas builtin stays a word and the wallet a number of each token.
THEOREM TypeCorrect == Spec => []TypeOK
<1>1. GasInv => TypeOK
  BY DEF GasInv
<1> QED
  BY <1>1, Inductive, PTL

\* Withdrawing, redepositing, reserving, paying in advance and refunding neither lose
\* nor make gas, for any tokens, costs and width of the gas builtin.
THEOREM GasConserved == Spec => []Conserved
<1>1. GasInv => Conserved
  BY DEF GasInv
<1> QED
  BY <1>1, Inductive, PTL

\* The wrapping sum that get_unspent_gas answers with never wraps: it is exactly the gas
\* given less what was spent and what is set aside.
THEOREM UnspentExact == Spec => []UnspentIsWhatRemains
<1>1. ASSUME GasInv, status = "running"
      PROVE  build_get_unspent_gas(gas, wallet).results[2]
               = given - (spent + Held + (coupons * Cost(CouponCost)))
  <2>1. /\ given \in Nat /\ given < GasWords /\ gas \in Nat
        /\ wallet \in [Tokens -> Nat] /\ Cost(wallet) \in Nat /\ Held \in Nat
        /\ coupons * Cost(CouponCost) \in Nat /\ spent \in Nat
        /\ given = gas + Cost(wallet) + Held + (coupons * Cost(CouponCost)) + spent
    BY <1>1, Holdings
  <2>2. Cost(wallet) < GasWords /\ gas + Cost(wallet) < GasWords /\ gas + Cost(wallet) \in Nat
    BY <2>1, Constants
  <2>3. build_calculate_gas_cost(wallet) = Cost(wallet)
    BY <2>1, <2>2, CostCalculated
  <2>4. build_get_unspent_gas(gas, wallet).results[2] = (gas + Cost(wallet)) % GasWords
    BY <2>3 DEF build_get_unspent_gas, Branch
  <2>5. (gas + Cost(wallet)) % GasWords = gas + Cost(wallet)
    BY <2>2, Constants
  <2> QED
    BY <2>1, <2>4, <2>5
<1>2. GasInv => UnspentIsWhatRemains
  BY <1>1 DEF UnspentIsWhatRemains
<1> QED
  BY <1>2, Inductive, PTL

\* In every state withdraw_gas, redeposit_gas and get_available_gas do what the interpreter does,
\* whatever the tokens asked for, unless their cost makes the interpreter panic; reserves do so
\* without exception, as the gas of a reserve always fits the builtin again.
THEOREM AsInterpreter == Spec => []GasAsInterpreted
<1>1. ASSUME GasInv PROVE GasAsInterpreted
  <2>1. gas \in Nat /\ gas < GasWords /\ GasWords \in Nat /\ GasWords > 0
    BY <1>1, Holdings, Constants
  <2>2. build_get_available_gas(gas) = eval_get_available_gas(gas)
    BY DEF build_get_available_gas, eval_get_available_gas
  <2>3. ASSUME NEW tokens \in StatementCosts \cup AnyCosts
        PROVE  /\ Agrees(build_withdraw_gas(gas, tokens), eval_withdraw_gas(gas, tokens))
               /\ Agrees(build_redeposit_gas(gas, tokens), eval_redeposit_gas(gas, tokens))
    <3>1. tokens \in [Tokens -> Nat] /\ Cost(tokens) \in Nat
      BY CostsAssumption, AnyCostsAssumption, CostNat
    <3>2. CASE Cost(tokens) < GasWords
      <4>1. build_calculate_gas_cost(tokens) = Cost(tokens)
        BY <3>1, <3>2, CostCalculated
      <4>2. build_withdraw_gas(gas, tokens) = eval_withdraw_gas(gas, tokens)
        BY <2>1, <3>1, <3>2, <4>1 DEF build_withdraw_gas, eval_withdraw_gas, Checked, usub_sat
      <4>3. build_redeposit_gas(gas, tokens) = eval_redeposit_gas(gas, tokens)
        BY <2>1, <3>1, <3>2, <4>1 DEF build_redeposit_gas, eval_redeposit_gas, Checked, uadd_sat
      <4> QED
        BY <4>2, <4>3 DEF Agrees
    <3>3. CASE ~(Cost(tokens) < GasWords)
      BY <3>3 DEF Agrees, eval_withdraw_gas, eval_redeposit_gas, Checked
    <3> QED
      BY <3>2, <3>3
  <2>4. ASSUME NEW amount \in Amounts
        PROVE  build_gas_reserve_create(gas, amount) = eval_gas_reserve_create(gas, amount)
    <3>1. amount \in Nat /\ ReserveWords \in Nat /\ GasWords <= ReserveWords
      BY AmountsAssumption, Constants
    <3>2. CASE amount <= gas
      <4>1. gas - amount \in Nat /\ gas - amount < GasWords /\ gas - amount < ReserveWords
            /\ amount < GasWords
        BY <2>1, <3>1, <3>2
      <4>2. \A n, m, w \in Nat : n < w /\ n < m => n % w = n /\ (n % m) % w = n
        OBVIOUS
      <4>3. ((gas - amount) % ReserveWords) % GasWords = gas - amount /\ amount % GasWords = amount
        BY <2>1, <3>1, <4>1, <4>2
      <4> QED
        BY <2>1, <3>1, <3>2, <4>3 DEF build_gas_reserve_create, eval_gas_reserve_create
    <3>3. CASE ~(amount <= gas)
      BY <2>1, <3>1, <3>3 DEF build_gas_reserve_create, eval_gas_reserve_create
    <3> QED
      BY <3>2, <3>3
  <2>5. ASSUME NEW i \in DOMAIN reserves
        PROVE  build_gas_reserve_utilize(gas, reserves[i])
                 = eval_gas_reserve_utilize(gas, reserves[i])
    <3>1. status = "running"
      <4>1. DOMAIN <<>> = {}
        OBVIOUS
      <4> QED
        BY <1>1, <2>5, <4>1 DEF GasInv
    <3>2. reserves \in Seq(Nat)
      BY <1>1, Bounded
    <3>3. i \in 1..Len(reserves) /\ reserves[i] \in Nat
      BY ONLY <2>5, <3>2
    <3>4. reserves[i] <= SeqSum(reserves)
      BY ONLY <3>2, <3>3, SeqSumBounds
    <3>5. gas + reserves[i] < GasWords /\ reserves[i] < GasWords /\ reserves[i] \in Nat
      <4>1. /\ given \in Nat /\ given < GasWords /\ gas \in Nat /\ Cost(wallet) \in Nat
            /\ Held \in Nat /\ Held = SeqSum(reserves)
            /\ coupons * Cost(CouponCost) \in Nat /\ spent \in Nat
            /\ given = gas + Cost(wallet) + Held + (coupons * Cost(CouponCost)) + spent
        BY <1>1, <3>1, Holdings
      <4>2. reserves[i] \in Nat
        BY <3>3
      <4> QED
        BY <2>1, <3>4, <4>1, <4>2
    <3> DEFINE r == reserves[i]
    <3>6. r % GasWords = r /\ (gas + r) % GasWords = gas + r /\ gas + r < GasWords
      <4> HIDE DEF r
      <4>1. r \in Nat /\ r < GasWords /\ gas + r < GasWords /\ gas + r \in Nat
        BY <2>1, <3>5 DEF r
      <4> QED
        BY <2>1, <4>1
    <3> HIDE DEF r
    <3>7. build_gas_reserve_utilize(gas, r) = eval_gas_reserve_utilize(gas, r)
      BY <3>6 DEF build_gas_reserve_utilize, eval_gas_reserve_utilize, Checked
    <3> QED
      BY <3>7 DEF r
  <2> QED
    BY <2>2, <2>3, <2>4, <2>5 DEF GasAsInterpreted
<1> QED
  BY <1>1, Inductive, PTL
=============================================================================
