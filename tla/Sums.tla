--------------------------------- MODULE Sums ---------------------------------
(***************************************************************************)
(* Laws of SumFunctionOnSet, the sum of a function over a finite set, which *)
(* the balances, reserves, limits and shares of the other modules are       *)
(* stated with.  The community modules define it by recursion on the        *)
(* subsets of the set.  The inductions below are over a set of sets that    *)
(* are "good", so that no theorem takes an operator as a parameter.         *)
(***************************************************************************)
EXTENDS Integers, FiniteSetsExt, FiniteSetTheorems, WellFoundedInduction, TLAPS

-----------------------------------------------------------------------------
\* Induction

\* A non-empty set of natural numbers has a least element.
LEMMA LeastNat ==
  ASSUME NEW T \in SUBSET Nat, T # {}
  PROVE  \E m \in T : \A k \in T : m <= k
<1>1. PICK m \in T : \A k \in T : <<k, m>> \notin OpToRel(<, Nat)
  BY NatLessThanWellFounded, WFMin
<1>2. \A k \in T : ~(k < m)
  BY <1>1 DEF OpToRel
<1> QED
  BY <1>2

\* A set of subsets of a finite set that holds every subset whose proper
\* subsets it holds is the set of all of them.
LEMMA SubsetInduction ==
  ASSUME NEW S, IsFiniteSet(S), NEW Good,
         \A s \in SUBSET S : (\A t \in SUBSET s : t # s => t \in Good) => s \in Good
  PROVE  \A s \in SUBSET S : s \in Good
<1> SUFFICES ASSUME NEW b \in SUBSET S, b \notin Good PROVE FALSE
  OBVIOUS
<1> DEFINE T == {n \in Nat : \E s \in SUBSET S : s \notin Good /\ Cardinality(s) = n}
<1>1. \A s \in SUBSET S : IsFiniteSet(s) /\ Cardinality(s) \in Nat
  BY FS_Subset, FS_CardinalityType
<1>2. T \in SUBSET Nat /\ T # {}
  BY <1>1
<1>3. PICK m \in T : \A k \in T : m <= k
  <2> HIDE DEF T
  <2> QED BY <1>2, LeastNat
<1>4. PICK s \in SUBSET S : s \notin Good /\ Cardinality(s) = m
  BY <1>3
<1>5. ASSUME NEW t \in SUBSET s, t # s, t \notin Good PROVE FALSE
  <2>1. t \in SUBSET S
    OBVIOUS
  <2>2. Cardinality(t) < Cardinality(s)
    BY <1>1, <1>5, FS_Subset
  <2>3. Cardinality(t) \in T
    BY <1>1, <1>5, <2>1
  <2> QED
    BY <1>1, <1>3, <1>4, <2>1, <2>2, <2>3
<1> QED
  BY <1>4, <1>5

-----------------------------------------------------------------------------
\* The recursive function behind the sum

Pick(s) == CHOOSE x \in s : TRUE
SumBody(f, S, it) == [s \in SUBSET S |-> IF s = {} THEN 0 ELSE f[Pick(s)] + it[s \ {Pick(s)}]]
SumRec(f, S) == CHOOSE it : it = SumBody(f, S, it)

LEMMA SumIsRec ==
  ASSUME NEW f, NEW S
  PROVE  SumFunctionOnSet(f, S) = SumRec(f, S)[S]
BY DEF SumFunctionOnSet, FoldFunctionOnSet, MapThenFoldSet, Pick, SumBody, SumRec

LEMMA PickIn == ASSUME NEW s, s # {} PROVE Pick(s) \in s
BY DEF Pick

\* Two solutions agree wherever the functions they sum do.
LEMMA SolutionsAgree ==
  ASSUME NEW S, IsFiniteSet(S), NEW R \in SUBSET S, NEW f, NEW g, NEW i, NEW j,
         i = SumBody(f, S, i), j = SumBody(g, R, j), \A x \in R : f[x] = g[x]
  PROVE  \A s \in SUBSET R : i[s] = j[s]
<1> DEFINE Good == {s \in SUBSET R : i[s] = j[s]}
<1>1. ASSUME NEW s \in SUBSET R, \A t \in SUBSET s : t # s => t \in Good
      PROVE  s \in Good
  <2>1. s \in SUBSET S
    OBVIOUS
  <2>2. i[s] = IF s = {} THEN 0 ELSE f[Pick(s)] + i[s \ {Pick(s)}]
    BY <2>1 DEF SumBody
  <2>3. j[s] = IF s = {} THEN 0 ELSE g[Pick(s)] + j[s \ {Pick(s)}]
    BY DEF SumBody
  <2>4. CASE s = {}
    BY <2>2, <2>3, <2>4
  <2>5. CASE s # {}
    <3>1. Pick(s) \in s /\ s \ {Pick(s)} # s /\ s \ {Pick(s)} \in SUBSET s
      BY <2>5, PickIn
    <3>2. i[s \ {Pick(s)}] = j[s \ {Pick(s)}] /\ f[Pick(s)] = g[Pick(s)]
      BY <1>1, <3>1
    <3> QED
      BY <2>2, <2>3, <2>5, <3>2
  <2> QED
    BY <2>4, <2>5
<1>2. \A s \in SUBSET R : s \in Good
  <2>1. IsFiniteSet(R)
    BY FS_Subset
  <2> HIDE DEF Good
  <2> QED
    BY <1>1, <2>1, SubsetInduction
<1> QED
  BY <1>2

\* There is a solution on every finite set.
LEMMA SolutionExists ==
  ASSUME NEW S, IsFiniteSet(S), NEW f
  PROVE  SumRec(f, S) = SumBody(f, S, SumRec(f, S))
<1> DEFINE Good == {R \in SUBSET S : \E i : i = SumBody(f, R, i)}
<1>1. ASSUME NEW R \in SUBSET S, \A t \in SUBSET R : t # R => t \in Good
      PROVE  R \in Good
  <2> DEFINE Sol(t) == CHOOSE i : i = SumBody(f, t, i)
             i == [s \in SUBSET R |-> IF s = {} THEN 0
                     ELSE f[Pick(s)] + Sol(s \ {Pick(s)})[s \ {Pick(s)}]]
  <2>1. \A t \in SUBSET R : t # R => Sol(t) = SumBody(f, t, Sol(t))
    BY <1>1
  <2>2. ASSUME NEW s \in SUBSET R, s # {} PROVE i[s \ {Pick(s)}] = Sol(s \ {Pick(s)})[s \ {Pick(s)}]
    <3> DEFINE t == s \ {Pick(s)}
    <3>1. t \in SUBSET R /\ t # R
      BY <2>2, PickIn
    <3>2. Sol(t) = SumBody(f, t, Sol(t))
      <4> HIDE DEF t, Sol
      <4> QED BY <2>1, <3>1
    <3>3. CASE t = {}
      <4>1. i[t] = 0 /\ t \in SUBSET t
        BY <3>1, <3>3
      <4>2. Sol(t)[t] = 0
        <5> HIDE DEF t, Sol
        <5> QED BY <3>2, <3>3, <4>1 DEF SumBody
      <4> QED BY <4>1, <4>2
    <3>4. CASE t # {}
      <4> DEFINE u == t \ {Pick(t)}
      <4>1. i[t] = f[Pick(t)] + Sol(u)[u]
        BY <3>1, <3>4
      <4>2. Sol(t)[t] = f[Pick(t)] + Sol(t)[u]
        <5> HIDE DEF Sol
        <5>1. t \in SUBSET t
          OBVIOUS
        <5> HIDE DEF t
        <5> QED BY <3>2, <3>4, <5>1 DEF SumBody
      <4>3. u \in SUBSET t /\ u \in SUBSET R /\ u # R /\ IsFiniteSet(t)
        <5>1. Pick(t) \in t
          BY <3>4, PickIn
        <5> QED BY <3>1, <5>1, FS_Subset
      <4>4. Sol(u) = SumBody(f, u, Sol(u))
        <5> HIDE DEF u, Sol
        <5> QED BY <2>1, <4>3
      <4>5. Sol(t)[u] = Sol(u)[u]
        <5> HIDE DEF u, t, Sol
        <5>1. u \in SUBSET u
          OBVIOUS
        <5>2. \A s2 \in SUBSET u : Sol(t)[s2] = Sol(u)[s2]
          BY <3>2, <4>3, <4>4, SolutionsAgree
        <5> QED BY <5>1, <5>2
      <4> QED BY <4>1, <4>2, <4>5
    <3> QED BY <3>3, <3>4
  <2>3. i = SumBody(f, R, i)
    <3>1. \A s \in SUBSET R : i[s] = IF s = {} THEN 0 ELSE f[Pick(s)] + i[s \ {Pick(s)}]
      <4>1. \A s \in SUBSET R : i[s] = IF s = {} THEN 0
                                  ELSE f[Pick(s)] + Sol(s \ {Pick(s)})[s \ {Pick(s)}]
        OBVIOUS
      <4> HIDE DEF i, Sol
      <4> QED BY <2>2, <4>1
    <3>2. i = [s \in SUBSET R |-> i[s]]
      OBVIOUS
    <3> HIDE DEF i
    <3> QED BY <3>1, <3>2 DEF SumBody
  <2> HIDE DEF i
  <2> QED BY <2>3
<1>2. S \in Good
  <2>1. S \in SUBSET S
    OBVIOUS
  <2> HIDE DEF Good
  <2> QED
    BY <1>1, <2>1, SubsetInduction
<1>3. \E i : i = SumBody(f, S, i)
  BY <1>2
<1> QED
  BY <1>3 DEF SumRec

-----------------------------------------------------------------------------
\* The laws

\* Nothing adds up to 0.
THEOREM SumEmpty ==
  ASSUME NEW f
  PROVE  SumFunctionOnSet(f, {}) = 0
<1>1. SumRec(f, {}) = SumBody(f, {}, SumRec(f, {}))
  BY SolutionExists, FS_EmptySet
<1>2. SumRec(f, {})[{}] = 0
  <2>1. {} \in SUBSET {}
    OBVIOUS
  <2> QED BY <1>1, <2>1 DEF SumBody
<1> QED
  BY <1>2, SumIsRec

\* The sum depends on the values on the set only.
THEOREM SumCongruence ==
  ASSUME NEW S, IsFiniteSet(S), NEW f, NEW g, \A x \in S : f[x] = g[x]
  PROVE  SumFunctionOnSet(f, S) = SumFunctionOnSet(g, S)
<1>1. S \in SUBSET S
  OBVIOUS
<1>2. \A s \in SUBSET S : SumRec(f, S)[s] = SumRec(g, S)[s]
  BY <1>1, SolutionExists, SolutionsAgree
<1> QED
  BY <1>1, <1>2, SumIsRec

LEMMA SumPick ==
  ASSUME NEW S, IsFiniteSet(S), S # {}, NEW f
  PROVE  SumFunctionOnSet(f, S) = f[Pick(S)] + SumFunctionOnSet(f, S \ {Pick(S)})
<1> DEFINE R == S \ {Pick(S)}
<1>1. S \in SUBSET S /\ R \in SUBSET S /\ R \in SUBSET R /\ IsFiniteSet(R)
  BY FS_Subset
<1>2. SumRec(f, S) = SumBody(f, S, SumRec(f, S)) /\ SumRec(f, R) = SumBody(f, R, SumRec(f, R))
  BY <1>1, SolutionExists
<1>3. SumRec(f, S)[S] = f[Pick(S)] + SumRec(f, S)[R]
  BY <1>1, <1>2 DEF SumBody
<1>4. SumRec(f, S)[R] = SumRec(f, R)[R]
  <2> HIDE DEF R
  <2>1. \A s \in SUBSET R : SumRec(f, S)[s] = SumRec(f, R)[s]
    BY <1>1, <1>2, SolutionsAgree
  <2> QED BY <1>1, <2>1
<1> QED
  BY <1>3, <1>4, SumIsRec

\* Any element can be taken out first.
THEOREM SumRemove ==
  ASSUME NEW S, IsFiniteSet(S), NEW f, \A x \in S : f[x] \in Int
  PROVE  /\ SumFunctionOnSet(f, S) \in Int
         /\ \A x \in S : SumFunctionOnSet(f, S) = f[x] + SumFunctionOnSet(f, S \ {x})
<1> DEFINE Good == {R \in SUBSET S :
               /\ SumFunctionOnSet(f, R) \in Int
               /\ \A x \in R : SumFunctionOnSet(f, R) = f[x] + SumFunctionOnSet(f, R \ {x})}
<1>1. ASSUME NEW R \in SUBSET S, \A t \in SUBSET R : t # R => t \in Good
      PROVE  R \in Good
  <2>1. CASE R = {}
    BY <2>1, SumEmpty
  <2>2. CASE R # {}
    <3> DEFINE p == Pick(R)
    <3>1. p \in R /\ f[p] \in Int /\ R \ {p} \in SUBSET R /\ R \ {p} # R
      BY <2>2, PickIn
    <3>2. SumFunctionOnSet(f, R) = f[p] + SumFunctionOnSet(f, R \ {p})
      BY <2>2, FS_Subset, SumPick
    <3>3. SumFunctionOnSet(f, R \ {p}) \in Int
      BY <1>1, <3>1
    <3>4. SumFunctionOnSet(f, R) \in Int
      BY <3>1, <3>2, <3>3
    <3>5. ASSUME NEW x \in R, x # p
          PROVE  SumFunctionOnSet(f, R) = f[x] + SumFunctionOnSet(f, R \ {x})
      <4>1. x \in R \ {p} /\ p \in R \ {x} /\ f[x] \in Int
        BY <3>1, <3>5
      <4>2. SumFunctionOnSet(f, R \ {p}) = f[x] + SumFunctionOnSet(f, (R \ {p}) \ {x})
        BY <1>1, <3>1, <4>1
      <4>3. R \ {x} \in SUBSET R /\ R \ {x} # R
        OBVIOUS
      <4>4. SumFunctionOnSet(f, R \ {x}) = f[p] + SumFunctionOnSet(f, (R \ {x}) \ {p})
        BY <1>1, <4>1, <4>3
      <4>5. (R \ {p}) \ {x} = (R \ {x}) \ {p}
        OBVIOUS
      <4>6. (R \ {p}) \ {x} \in SUBSET R /\ (R \ {p}) \ {x} # R
        BY <3>1
      <4>7. SumFunctionOnSet(f, (R \ {p}) \ {x}) \in Int
        BY <1>1, <4>6
      <4> DEFINE rest == SumFunctionOnSet(f, (R \ {p}) \ {x})
      <4>8. SumFunctionOnSet(f, R) = f[p] + (f[x] + rest)
        BY <3>2, <4>2
      <4>9. SumFunctionOnSet(f, R \ {x}) = f[p] + rest
        BY <4>4, <4>5
      <4>10. f[p] \in Int /\ f[x] \in Int /\ rest \in Int
        BY <3>1, <4>1, <4>7
      <4> HIDE DEF p, rest
      <4>11. f[p] + (f[x] + rest) = f[x] + (f[p] + rest)
        BY <4>10
      <4> QED
        BY <4>8, <4>9, <4>11
    <3> QED
      BY <3>2, <3>4, <3>5
  <2> QED
    BY <2>1, <2>2
<1>2. S \in Good
  <2>1. S \in SUBSET S
    OBVIOUS
  <2> HIDE DEF Good
  <2> QED
    BY <1>1, <2>1, SubsetInduction
<1> QED
  BY <1>2

\* A sum of integers is one.
THEOREM SumInt ==
  ASSUME NEW S, IsFiniteSet(S), NEW f, \A x \in S : f[x] \in Int
  PROVE  SumFunctionOnSet(f, S) \in Int
BY SumRemove

\* One element more.
THEOREM SumAdd ==
  ASSUME NEW S, IsFiniteSet(S), NEW f, \A y \in S : f[y] \in Int,
         NEW x, x \notin S, f[x] \in Int
  PROVE  SumFunctionOnSet(f, S \cup {x}) = SumFunctionOnSet(f, S) + f[x]
<1> DEFINE R == S \cup {x}
<1>1. IsFiniteSet(R)
  BY FS_AddElement
<1>2. SumFunctionOnSet(f, R) = f[x] + SumFunctionOnSet(f, R \ {x})
  BY <1>1, SumRemove
<1>3. R \ {x} = S
  OBVIOUS
<1>4. SumFunctionOnSet(f, S) \in Int
  BY SumInt
<1>5. SumFunctionOnSet(f, R) = f[x] + SumFunctionOnSet(f, S)
  BY <1>2, <1>3
<1> QED
  BY <1>4, <1>5

\* Two functions that differ in one argument: so do their sums.
THEOREM SumChange ==
  ASSUME NEW S, IsFiniteSet(S), NEW f, NEW g, NEW x \in S,
         \A y \in S : f[y] \in Int /\ g[y] \in Int, \A y \in S \ {x} : g[y] = f[y]
  PROVE  SumFunctionOnSet(g, S) = SumFunctionOnSet(f, S) - f[x] + g[x]
<1>1. /\ SumFunctionOnSet(f, S) = f[x] + SumFunctionOnSet(f, S \ {x})
      /\ SumFunctionOnSet(g, S) = g[x] + SumFunctionOnSet(g, S \ {x})
  BY SumRemove
<1>2. IsFiniteSet(S \ {x})
  BY FS_Subset
<1>3. SumFunctionOnSet(f, S \ {x}) = SumFunctionOnSet(g, S \ {x})
  BY <1>2, SumCongruence
<1>4. SumFunctionOnSet(f, S \ {x}) \in Int
  BY <1>2, SumInt
<1> QED
  BY <1>1, <1>3, <1>4

\* Pointwise at most: so are the sums.
THEOREM SumMonotone ==
  ASSUME NEW S, IsFiniteSet(S), NEW f, NEW g,
         \A x \in S : f[x] \in Int /\ g[x] \in Int /\ f[x] <= g[x]
  PROVE  SumFunctionOnSet(f, S) <= SumFunctionOnSet(g, S)
<1> DEFINE Good == {R \in SUBSET S : SumFunctionOnSet(f, R) <= SumFunctionOnSet(g, R)}
<1>1. ASSUME NEW R \in SUBSET S, \A t \in SUBSET R : t # R => t \in Good
      PROVE  R \in Good
  <2>1. CASE R = {}
    BY <2>1, SumEmpty
  <2>2. CASE R # {}
    <3>1. PICK p \in R : TRUE
      BY <2>2
    <3>2. IsFiniteSet(R) /\ IsFiniteSet(R \ {p})
      BY FS_Subset
    <3>3. /\ SumFunctionOnSet(f, R) = f[p] + SumFunctionOnSet(f, R \ {p})
          /\ SumFunctionOnSet(g, R) = g[p] + SumFunctionOnSet(g, R \ {p})
      BY <3>2, SumRemove
    <3>4. SumFunctionOnSet(f, R \ {p}) \in Int /\ SumFunctionOnSet(g, R \ {p}) \in Int
      BY <3>2, SumInt
    <3>5. SumFunctionOnSet(f, R \ {p}) <= SumFunctionOnSet(g, R \ {p})
      BY <1>1
    <3>6. f[p] \in Int /\ g[p] \in Int /\ f[p] <= g[p]
      OBVIOUS
    <3> QED
      BY <3>3, <3>4, <3>5, <3>6
  <2> QED
    BY <2>1, <2>2
<1>2. S \in Good
  <2>1. S \in SUBSET S
    OBVIOUS
  <2> HIDE DEF Good
  <2> QED
    BY <1>1, <2>1, SubsetInduction
<1> QED
  BY <1>2

\* A sum of nothing but zeros.
THEOREM SumZero ==
  ASSUME NEW S, IsFiniteSet(S), NEW f, \A x \in S : f[x] = 0
  PROVE  SumFunctionOnSet(f, S) = 0
<1> DEFINE Good == {R \in SUBSET S : SumFunctionOnSet(f, R) = 0}
<1>1. ASSUME NEW R \in SUBSET S, \A t \in SUBSET R : t # R => t \in Good
      PROVE  R \in Good
  <2>1. CASE R = {}
    BY <2>1, SumEmpty
  <2>2. CASE R # {}
    <3>1. Pick(R) \in R
      BY <2>2, PickIn
    <3>2. SumFunctionOnSet(f, R) = f[Pick(R)] + SumFunctionOnSet(f, R \ {Pick(R)})
      BY <2>2, FS_Subset, SumPick
    <3>3. SumFunctionOnSet(f, R \ {Pick(R)}) = 0
      BY <1>1, <3>1
    <3> QED
      BY <3>1, <3>2, <3>3
  <2> QED
    BY <2>1, <2>2
<1>2. S \in Good
  <2>1. S \in SUBSET S
    OBVIOUS
  <2> HIDE DEF Good
  <2> QED
    BY <1>1, <2>1, SubsetInduction
<1> QED
  BY <1>2

\* A sum of natural numbers is one.
THEOREM SumNat ==
  ASSUME NEW S, IsFiniteSet(S), NEW f, \A x \in S : f[x] \in Nat
  PROVE  SumFunctionOnSet(f, S) \in Nat
<1> DEFINE z == [x \in S |-> 0]
<1>1. SumFunctionOnSet(z, S) = 0
  BY SumZero
<1>2. SumFunctionOnSet(z, S) <= SumFunctionOnSet(f, S)
  <2>1. \A x \in S : z[x] = 0
    OBVIOUS
  <2> HIDE DEF z
  <2> QED
    BY <2>1, SumMonotone
<1>3. SumFunctionOnSet(f, S) \in Int
  BY SumInt
<1> QED
  BY <1>1, <1>2, <1>3

\* No part is more than the whole.
THEOREM SumPart ==
  ASSUME NEW S, IsFiniteSet(S), NEW f, \A y \in S : f[y] \in Nat, NEW x \in S
  PROVE  f[x] <= SumFunctionOnSet(f, S)
<1>1. SumFunctionOnSet(f, S) = f[x] + SumFunctionOnSet(f, S \ {x})
  BY SumRemove
<1>2. SumFunctionOnSet(f, S \ {x}) \in Nat
  <2>1. IsFiniteSet(S \ {x})
    BY FS_Subset
  <2> QED BY <2>1, SumNat
<1> QED
  BY <1>1, <1>2

\* One value grows or shrinks by d: so does the sum.
THEOREM SumStep ==
  ASSUME NEW S, IsFiniteSet(S), NEW f \in [S -> Int], NEW x \in S, NEW d \in Int,
         NEW g, g = [f EXCEPT ![x] = @ + d]
  PROVE  SumFunctionOnSet(g, S) = SumFunctionOnSet(f, S) + d
<1>1. IsFiniteSet(S) /\ x \in S /\ d \in Int
  OBVIOUS
<1>2. g[x] = f[x] + d
  OBVIOUS
<1>3. \A y \in S : f[y] \in Int /\ g[y] \in Int
  OBVIOUS
<1>4. \A y \in S \ {x} : g[y] = f[y]
  OBVIOUS
<1>5. SumFunctionOnSet(g, S) = SumFunctionOnSet(f, S) - f[x] + g[x]
  BY ONLY <1>1, <1>3, <1>4, SumChange
<1>6. SumFunctionOnSet(f, S) \in Int
  BY ONLY <1>1, <1>3, SumInt
<1> QED
  BY ONLY <1>1, <1>2, <1>3, <1>5, <1>6

\* More elements sum up to no less.
LEMMA SumUnion ==
  ASSUME NEW R, IsFiniteSet(R), NEW S, IsFiniteSet(S), R \cap S = {},
         NEW f, \A y \in R \cup S : f[y] \in Nat
  PROVE  SumFunctionOnSet(f, R) <= SumFunctionOnSet(f, R \cup S)
<1> DEFINE Good == {T \in SUBSET S : SumFunctionOnSet(f, R) <= SumFunctionOnSet(f, R \cup T)}
<1>1. ASSUME NEW T \in SUBSET S, \A t \in SUBSET T : t # T => t \in Good
      PROVE  T \in Good
  <2>0. SumFunctionOnSet(f, R) \in Int
    BY SumInt
  <2>1. ASSUME T = {} PROVE SumFunctionOnSet(f, R) <= SumFunctionOnSet(f, R \cup T)
    <3> DEFINE U == R \cup T
    <3>1. U = R
      BY <2>1
    <3> HIDE DEF U
    <3>2. SumFunctionOnSet(f, R) <= SumFunctionOnSet(f, U)
      BY <2>0, <3>1
    <3> QED
      BY <3>2 DEF U
  <2>2. ASSUME T # {} PROVE SumFunctionOnSet(f, R) <= SumFunctionOnSet(f, R \cup T)
    <3>1. PICK p \in T : TRUE
      BY <2>2
    <3> DEFINE Q == R \cup (T \ {p})
    <3>2. p \notin Q /\ R \cup T = Q \cup {p} /\ f[p] \in Nat /\ \A y \in Q : f[y] \in Int
      OBVIOUS
    <3>3. SumFunctionOnSet(f, R) <= SumFunctionOnSet(f, Q)
      BY <1>1
    <3>4. IsFiniteSet(Q)
      <4>1. IsFiniteSet(T \ {p})
        BY FS_Subset
      <4> QED
        BY <4>1, FS_Union
    <3> HIDE DEF Q
    <3>5. SumFunctionOnSet(f, Q \cup {p}) = SumFunctionOnSet(f, Q) + f[p]
      BY <3>2, <3>4, SumAdd
    <3>6. SumFunctionOnSet(f, Q) \in Int
      BY <3>2, <3>4, SumInt
    <3> QED
      BY <2>0, <3>2, <3>3, <3>5, <3>6
  <2> QED
    BY <2>1, <2>2
<1>2. S \in Good
  <2>1. S \in SUBSET S
    OBVIOUS
  <2> HIDE DEF Good
  <2> QED
    BY ONLY IsFiniteSet(S), <1>1, <2>1, SubsetInduction
<1> QED
  BY <1>2

\* A part sums up to no more than the whole.
THEOREM SumSubset ==
  ASSUME NEW S, IsFiniteSet(S), NEW f, \A y \in S : f[y] \in Nat, NEW R \in SUBSET S
  PROVE  SumFunctionOnSet(f, R) <= SumFunctionOnSet(f, S)
<1> DEFINE Rest == S \ R
           Whole == R \cup Rest
<1>1. IsFiniteSet(R) /\ IsFiniteSet(Rest)
  BY FS_Subset
<1>2. Whole = S /\ R \cap Rest = {}
  OBVIOUS
<1>3. \A y \in R \cup Rest : f[y] \in Nat
  OBVIOUS
<1>4. SumFunctionOnSet(f, R) <= SumFunctionOnSet(f, Whole)
  <2> HIDE DEF Rest
  <2> QED
    BY <1>1, <1>2, <1>3, SumUnion
<1> HIDE DEF Whole
<1> QED
  BY <1>2, <1>4

\* One more element, which may be in already, adds no more than its value.
THEOREM SumOneMore ==
  ASSUME NEW S, IsFiniteSet(S), NEW f, \A y \in S : f[y] \in Int, NEW x, f[x] \in Nat
  PROVE  SumFunctionOnSet(f, S \cup {x}) <= SumFunctionOnSet(f, S) + f[x]
<1>1. SumFunctionOnSet(f, S) \in Int
  BY SumInt
<1>2. ASSUME x \in S PROVE SumFunctionOnSet(f, S \cup {x}) <= SumFunctionOnSet(f, S) + f[x]
  <2> DEFINE T == S \cup {x}
  <2>1. T = S
    BY <1>2
  <2> HIDE DEF T
  <2>2. SumFunctionOnSet(f, T) <= SumFunctionOnSet(f, S) + f[x]
    BY <1>1, <2>1
  <2> QED
    BY <2>2 DEF T
<1>3. CASE x \notin S
  <2>1. SumFunctionOnSet(f, S \cup {x}) = SumFunctionOnSet(f, S) + f[x]
    BY <1>3, SumAdd
  <2> QED
    BY <1>1, <2>1
<1> QED
  BY <1>2, <1>3

\* SumFunction is the sum over the whole domain.
THEOREM SumOfAll ==
  ASSUME NEW S, NEW f, DOMAIN f = S
  PROVE  SumFunction(f) = SumFunctionOnSet(f, S)
BY DEF SumFunction

\* What holds of every summand in other units holds of the sum.
THEOREM SumScale ==
  ASSUME NEW S, IsFiniteSet(S), NEW f, NEW g, NEW c \in Nat, NEW d \in Nat,
         \A x \in S : f[x] \in Nat /\ g[x] \in Nat /\ f[x] * c <= g[x] * d
  PROVE  SumFunctionOnSet(f, S) * c <= SumFunctionOnSet(g, S) * d
<1> DEFINE Good == {R \in SUBSET S : SumFunctionOnSet(f, R) * c <= SumFunctionOnSet(g, R) * d}
<1>1. ASSUME NEW R \in SUBSET S, \A t \in SUBSET R : t # R => t \in Good
      PROVE  R \in Good
  <2>1. CASE R = {}
    BY <2>1, SumEmpty
  <2>2. CASE R # {}
    <3>1. PICK p \in R : TRUE
      BY <2>2
    <3>2. IsFiniteSet(R) /\ IsFiniteSet(R \ {p})
      BY FS_Subset
    <3>3. /\ SumFunctionOnSet(f, R) = f[p] + SumFunctionOnSet(f, R \ {p})
          /\ SumFunctionOnSet(g, R) = g[p] + SumFunctionOnSet(g, R \ {p})
      BY <3>2, SumRemove
    <3> DEFINE a == SumFunctionOnSet(f, R \ {p})
               b == SumFunctionOnSet(g, R \ {p})
    <3>4. a \in Nat /\ b \in Nat
      BY <3>2, SumNat
    <3>5. a * c <= b * d
      BY <1>1
    <3>6. f[p] \in Nat /\ g[p] \in Nat /\ f[p] * c <= g[p] * d
      OBVIOUS
    <3> HIDE DEF a, b
    <3>7. (f[p] + a) * c = f[p] * c + a * c /\ (g[p] + b) * d = g[p] * d + b * d
      BY <3>4, <3>6
    <3>8. (f[p] + a) * c <= (g[p] + b) * d
      BY <3>4, <3>5, <3>6, <3>7
    <3> QED
      BY <3>3, <3>8 DEF a, b
  <2> QED
    BY <2>1, <2>2
<1>2. S \in Good
  <2>1. S \in SUBSET S
    OBVIOUS
  <2> HIDE DEF Good
  <2> QED
    BY <1>1, <2>1, SubsetInduction
<1> QED
  BY <1>2
=============================================================================
