----------------------------- MODULE FiniteFacts -----------------------------
(***************************************************************************)
(* Facts about finite sets that the proofs of several modules rest on:     *)
(* smallest counterexamples, orders of acyclic relations, and sums.  The   *)
(* sums are those of the community module Functions, whose recursion is    *)
(* over the subsets of the set that is summed up.                          *)
(***************************************************************************)
EXTENDS Functions, FiniteSetTheorems, WellFoundedInduction, TLAPS

(* Induction over a finite set without an operator: a set of subsets of it *)
(* has a smallest member, so a smallest counterexample may be assumed.     *)
LEMMA SmallestMember ==
    ASSUME NEW S, IsFiniteSet(S), NEW T, T \subseteq SUBSET S, T # {}
    PROVE  \E x \in T : \A y \in T : y \subseteq x => y = x
  <1> DEFINE R == StrictSubsetOrdering(S)
             F == FiniteSubsetsOf(S)
  <1>1. IsWellFoundedOn(R, F)
    BY FS_StrictSubsetOrderingWellFounded
  <1>2. T \subseteq F
    BY FS_FiniteSubsetsOfFinite
  <1>3. PICK x \in T : \A y \in T : ~ (<<y, x>> \in R)
    <2> HIDE DEF R, F
    <2> QED BY <1>1, <1>2, WFMin
  <1> QED
    BY <1>3 DEF StrictSubsetOrdering

(* A finite set has a first element in any order.                          *)
LEMMA FirstInOrder ==
    ASSUME NEW S, IsFiniteSet(S), S # {}, NEW R,
           \A a \in S : <<a, a>> \notin R,
           \A a, b, c \in S : <<a, b>> \in R /\ <<b, c>> \in R => <<a, c>> \in R
    PROVE  \E a \in S : \A b \in S : <<b, a>> \notin R
  <1> DEFINE Upto(a) == {b \in S : b = a \/ <<b, a>> \in R}
             T == {Upto(a) : a \in S}
  <1>1. PICK x \in T : \A y \in T : y \subseteq x => y = x
    <2>1. \A a \in S : Upto(a) \in SUBSET S
      OBVIOUS
    <2>2. T \subseteq SUBSET S /\ T # {}
      <3> HIDE DEF Upto
      <3> QED BY <2>1
    <2> HIDE DEF T
    <2> QED BY <2>2, SmallestMember
  <1>2. PICK a \in S : x = Upto(a)
    <2> HIDE DEF Upto
    <2> QED OBVIOUS
  <1>3. ASSUME NEW b \in S, <<b, a>> \in R
        PROVE  FALSE
    <2>1. Upto(b) \subseteq Upto(a)
      BY <1>3
    <2>2. a \in Upto(a) /\ a \notin Upto(b)
      BY <1>3
    <2>3. Upto(b) \in T
      OBVIOUS
    <2> HIDE DEF Upto, T
    <2> QED BY <1>1, <1>2, <2>1, <2>2, <2>3
  <1> QED
    BY <1>3

(* Any numbers have a least one.                                           *)
LEMMA LeastNumber ==
    ASSUME NEW X \in SUBSET Nat, X # {}
    PROVE  \E m \in X : \A n \in X : m <= n
  <1>1. PICK k \in X : TRUE
    OBVIOUS
  <1> DEFINE T == {0 .. i : i \in X \cap 0 .. k}
  <1>2. IsFiniteSet(0 .. k)
    BY <1>1, FS_Interval
  <1>3. T \subseteq SUBSET (0 .. k) /\ T # {}
    <2>1. k \in X \cap 0 .. k
      BY <1>1
    <2>2. \A i \in 0 .. k : 0 .. i \subseteq 0 .. k
      BY <1>1
    <2> QED BY <2>1, <2>2
  <1>4. PICK x \in T : \A y \in T : y \subseteq x => y = x
    <2> DEFINE K == 0 .. k
    <2>1. IsFiniteSet(K) /\ T \subseteq SUBSET K /\ T # {}
      BY <1>2, <1>3
    <2> HIDE DEF T, K
    <2> QED BY <2>1, SmallestMember
  <1>5. PICK m \in X \cap 0 .. k : x = 0 .. m
    BY <1>4
  <1>6. ASSUME NEW n \in X, ~(m <= n)
        PROVE  FALSE
    <2>1. n \in X \cap 0 .. k /\ n < m /\ m \in Nat /\ n \in Nat
      BY <1>1, <1>5, <1>6
    <2>2. 0 .. n \subseteq 0 .. m /\ 0 .. n # 0 .. m
      <3>1. m \in 0 .. m /\ m \notin 0 .. n
        BY <2>1
      <3>2. 0 .. n \subseteq 0 .. m
        BY <2>1
      <3> QED BY <3>1, <3>2
    <2>3. 0 .. n \in T
      BY <2>1
    <2> QED BY <1>4, <1>5, <2>2, <2>3
  <1> QED
    BY <1>5, <1>6

(* Bounded numbers have a greatest one.                                    *)
LEMMA GreatestNumber ==
    ASSUME NEW X \in SUBSET Nat, X # {}, NEW n \in Nat, \A x \in X : x <= n
    PROVE  \E m \in X : \A x \in X : x <= m
  <1> DEFINE Y == {n - x : x \in X}
  <1>1. Y \in SUBSET Nat /\ Y # {}
    <2>1. \A x \in X : n - x \in Nat
      OBVIOUS
    <2> QED BY <2>1
  <1>2. PICK y \in Y : \A z \in Y : y <= z
    <2> HIDE DEF Y
    <2> QED BY <1>1, LeastNumber
  <1>3. PICK m \in X : y = n - m
    BY <1>2
  <1>4. \A x \in X : x <= m
    <2>1. ASSUME NEW x \in X
          PROVE  x <= m
      <3>1. n - m <= n - x
        BY <1>2, <1>3
      <3> QED BY <3>1
    <2> QED BY <2>1
  <1> QED
    BY <1>4

(* Where every ring has a way out, the elements can be put in an order that*)
(* respects the relation: an element without a successor comes last, the   *)
(* others are ordered before it.                                           *)
LEMMA AcyclicOrder ==
    ASSUME NEW I, IsFiniteSet(I), NEW R,
           \A ring \in (SUBSET I) \ {{}} : \E a \in ring : \A b \in ring : <<a, b>> \notin R
    PROVE  \E wave \in [I -> 1 .. Cardinality(I)] :
             \A a, b \in I : <<a, b>> \in R => wave[a] < wave[b]
  <1> DEFINE Ordered(u, wave) == \A a, b \in u : <<a, b>> \in R => wave[a] < wave[b]
             Bad == {u \in SUBSET I :
                       ~ \E wave \in [u -> 1 .. Cardinality(u)] : Ordered(u, wave)}
  <1>1. SUFFICES ASSUME Bad # {}
                 PROVE  FALSE
    OBVIOUS
  <1>2. PICK u \in Bad : \A v \in Bad : v \subseteq u => v = u
    <2>1. Bad \subseteq SUBSET I
      OBVIOUS
    <2> HIDE DEF Bad
    <2> QED BY <1>1, <2>1, SmallestMember
  <1>3. IsFiniteSet(u) /\ Cardinality(u) \in Nat
    BY <1>2, FS_Subset, FS_CardinalityType
  <1>4. u # {}
    <2>1. ASSUME u = {}
          PROVE  FALSE
      <3> DEFINE none == [a \in u |-> a]
      <3>1. none \in [u -> 1 .. Cardinality(u)] /\ Ordered(u, none)
        BY <2>1
      <3> QED BY <3>1, <1>2
    <2> QED BY <2>1
  <1>5. PICK n \in u : \A b \in u : <<n, b>> \notin R
    BY <1>2, <1>4
  <1> DEFINE v == u \ {n}
             k == Cardinality(u)
  <1>6. Cardinality(v) = k - 1 /\ k \in Nat /\ k >= 1
    BY <1>3, <1>5, FS_RemoveElement, FS_CardinalityType, FS_EmptySet
  <1>7. PICK wave \in [v -> 1 .. Cardinality(v)] : Ordered(v, wave)
    <2>1. v \in SUBSET I /\ v # u /\ v \subseteq u
      BY <1>2, <1>5
    <2> QED BY <1>2, <2>1
  <1> DEFINE next == [a \in u |-> IF a = n THEN k ELSE wave[a]]
  <1> HIDE DEF k
  <1>8. \A a \in v : wave[a] \in 1 .. k - 1
    BY <1>6, <1>7
  <1>9. next \in [u -> 1 .. k]
    BY <1>6, <1>8
  <1>10. Ordered(u, next)
    <2>1. SUFFICES ASSUME NEW a \in u, NEW b \in u, <<a, b>> \in R
                   PROVE  next[a] < next[b]
      OBVIOUS
    <2>2. a # n
      BY <2>1, <1>5
    <2>3. next[a] = wave[a] /\ wave[a] \in 1 .. k - 1
      BY <2>2, <1>8
    <2>4. CASE b = n
      BY <2>3, <2>4, <1>6
    <2>5. CASE b # n
      BY <2>1, <2>2, <2>3, <2>5, <1>7
    <2> QED BY <2>4, <2>5
  <1> QED
    <2>1. \E w \in [u -> 1 .. Cardinality(u)] : Ordered(u, w)
      <3> HIDE DEF next
      <3> QED BY <1>9, <1>10 DEF k
    <2> QED BY <1>2, <2>1

-----------------------------------------------------------------------------
(* The element the library's folds take first, and the function they       *)
(* define a sum by, on the subsets of S.                                   *)
FirstOf(s) == CHOOSE x \in s : TRUE
Sums(it, f, S) ==
    it = [s \in SUBSET S |-> IF s = {} THEN 0 ELSE f[FirstOf(s)] + it[s \ {FirstOf(s)}]]

(* SumFunctionOnSet picks such a function.                                 *)
LEMMA SumIsSums ==
    ASSUME NEW f, NEW S
    PROVE  SumFunctionOnSet(f, S) = (CHOOSE it : Sums(it, f, S))[S]
  BY DEF SumFunctionOnSet, FoldFunctionOnSet, MapThenFoldSet, Sums, FirstOf

(* Two of them, for larger and smaller sets, agree where both are defined. *)
LEMMA SumsAgree ==
    ASSUME NEW f, NEW S, NEW T, IsFiniteSet(S), NEW it, NEW jt, Sums(it, f, S), Sums(jt, f, T),
           NEW s, s \subseteq S, s \subseteq T
    PROVE  it[s] = jt[s]
  <1> DEFINE Bad == {u \in SUBSET S : u \subseteq T /\ it[u] # jt[u]}
  <1>1. SUFFICES ASSUME Bad # {}
                 PROVE  FALSE
    OBVIOUS
  <1>2. PICK u \in Bad : \A v \in Bad : v \subseteq u => v = u
    <2>1. Bad \subseteq SUBSET S
      OBVIOUS
    <2> HIDE DEF Bad
    <2> QED BY <1>1, <2>1, SmallestMember
  <1>3. u # {}
    BY <1>2 DEF Sums
  <1> DEFINE v == u \ {FirstOf(u)}
  <1>4. FirstOf(u) \in u
    BY <1>3 DEF FirstOf
  <1>5. it[v] = jt[v]
    BY <1>2, <1>4
  <1>6. it[u] = f[FirstOf(u)] + it[v]
    BY <1>2, <1>3 DEF Sums
  <1>7. jt[u] = f[FirstOf(u)] + jt[v]
    BY <1>2, <1>3 DEF Sums
  <1> QED
    BY <1>2, <1>5, <1>6, <1>7

(* There is one for each finite set: the sums of the smaller sets agree,   *)
(* and make up the sum of the set.                                         *)
LEMMA SumsExist ==
    ASSUME NEW f, NEW S, IsFiniteSet(S)
    PROVE  \E it : Sums(it, f, S)
  <1> DEFINE Bad == {u \in SUBSET S : ~ \E it : Sums(it, f, u)}
             Sum(u) == (CHOOSE it : Sums(it, f, u))[u]
  <1>1. SUFFICES ASSUME Bad # {}
                 PROVE  FALSE
    OBVIOUS
  <1>2. PICK S1 \in Bad : \A v \in Bad : v \subseteq S1 => v = S1
    <2>1. Bad \subseteq SUBSET S
      OBVIOUS
    <2> HIDE DEF Bad
    <2> QED BY <1>1, <2>1, SmallestMember
  <1>3. ASSUME NEW u \in SUBSET S1, u # S1
        PROVE  Sums(CHOOSE it : Sums(it, f, u), f, u)
    BY <1>2, <1>3
  <1>4. ASSUME NEW u \in SUBSET S1, u # S1
        PROVE  Sum(u) = IF u = {} THEN 0 ELSE f[FirstOf(u)] + Sum(u \ {FirstOf(u)})
    <2> DEFINE it == CHOOSE jt : Sums(jt, f, u)
               v == u \ {FirstOf(u)}
               kt == CHOOSE jt : Sums(jt, f, v)
    <2>1. CASE u = {}
      <3>1. Sums(it, f, u)
        BY <1>3, <1>4
      <3>2. it[u] = 0
        <4> HIDE DEF it
        <4> QED BY <2>1, <3>1 DEF Sums
      <3> QED BY <2>1, <3>2
    <2>2. CASE u # {}
      <3>1. FirstOf(u) \in u
        BY <2>2 DEF FirstOf
      <3>2. Sums(it, f, u) /\ Sums(kt, f, v) /\ v \subseteq u /\ IsFiniteSet(u)
        BY <1>3, <1>4, <3>1, FS_Subset, <1>2
      <3>3. it[v] = kt[v]
        <4> HIDE DEF it, kt, v
        <4> QED BY <3>2, SumsAgree
      <3>4. it[u] = f[FirstOf(u)] + it[v]
        <4> HIDE DEF it
        <4> QED BY <2>2, <3>2 DEF Sums
      <3> QED BY <2>2, <3>3, <3>4
    <2> QED BY <2>1, <2>2
  <1> DEFINE g == [u \in SUBSET S1 |-> IF u # S1 THEN Sum(u)
                                       ELSE IF u = {} THEN 0
                                       ELSE f[FirstOf(u)] + Sum(u \ {FirstOf(u)})]
  <1>5. Sums(g, f, S1)
    <2>1. ASSUME NEW u \in SUBSET S1, u # {}
          PROVE  g[u \ {FirstOf(u)}] = Sum(u \ {FirstOf(u)})
      <3>1. FirstOf(u) \in u
        BY <2>1 DEF FirstOf
      <3> HIDE DEF Sum
      <3> QED BY <3>1
    <2>2. ASSUME NEW u \in SUBSET S1
          PROVE  g[u] = IF u = {} THEN 0 ELSE f[FirstOf(u)] + g[u \ {FirstOf(u)}]
      <3>1. g[u] = IF u = {} THEN 0 ELSE f[FirstOf(u)] + Sum(u \ {FirstOf(u)})
        <4>1. g[u] = IF u # S1 THEN Sum(u) ELSE IF u = {} THEN 0 ELSE f[FirstOf(u)] + Sum(u \ {FirstOf(u)})
          OBVIOUS
        <4> HIDE DEF g, Sum
        <4> QED BY <4>1, <1>4
      <3> HIDE DEF g, Sum
      <3> QED BY <3>1, <2>1
    <2>3. g = [u \in SUBSET S1 |-> g[u]]
      OBVIOUS
    <2> HIDE DEF g
    <2> QED BY <2>2, <2>3 DEF Sums
  <1> QED
    BY <1>2, <1>5

(* So a sum is what its recursive definition says.                         *)
LEMMA SumDef ==
    ASSUME NEW f, NEW S, IsFiniteSet(S)
    PROVE  SumFunctionOnSet(f, S) =
             IF S = {} THEN 0 ELSE f[FirstOf(S)] + SumFunctionOnSet(f, S \ {FirstOf(S)})
  <1> DEFINE it == CHOOSE jt : Sums(jt, f, S)
             v == S \ {FirstOf(S)}
             kt == CHOOSE jt : Sums(jt, f, v)
  <1>1. Sums(it, f, S) /\ SumFunctionOnSet(f, S) = it[S]
    BY SumsExist, SumIsSums
  <1>2. Sums(kt, f, v) /\ SumFunctionOnSet(f, v) = kt[v]
    <2>1. IsFiniteSet(v)
      BY FS_Subset
    <2> QED
      BY <2>1, SumsExist, SumIsSums
  <1>3. it[v] = kt[v]
    <2>1. v \subseteq S
      OBVIOUS
    <2> HIDE DEF it, kt, v
    <2> QED BY <1>1, <1>2, <2>1, SumsAgree
  <1>4. it[S] = IF S = {} THEN 0 ELSE f[FirstOf(S)] + it[v]
    <2> HIDE DEF it
    <2> QED BY <1>1 DEF Sums
  <1> QED
    BY <1>1, <1>2, <1>3, <1>4

(* A sum of natural numbers is one.                                        *)
LEMMA SumNat ==
    ASSUME NEW f, NEW S, IsFiniteSet(S), \A x \in S : f[x] \in Nat
    PROVE  SumFunctionOnSet(f, S) \in Nat
  <1> DEFINE Bad == {u \in SUBSET S : SumFunctionOnSet(f, u) \notin Nat}
  <1>1. SUFFICES ASSUME Bad # {}
                 PROVE  FALSE
    OBVIOUS
  <1>2. PICK u \in Bad : \A v \in Bad : v \subseteq u => v = u
    <2>1. Bad \subseteq SUBSET S
      OBVIOUS
    <2> HIDE DEF Bad
    <2> QED BY <1>1, <2>1, SmallestMember
  <1>3. IsFiniteSet(u)
    BY <1>2, FS_Subset
  <1>4. u # {} => FirstOf(u) \in u
    BY DEF FirstOf
  <1> DEFINE c == FirstOf(u)
  <1>5. u # {} => SumFunctionOnSet(f, u \ {c}) \in Nat
    BY <1>2, <1>4
  <1>6. SumFunctionOnSet(f, u) \in Nat
    <2>1. SumFunctionOnSet(f, u) = IF u = {} THEN 0 ELSE f[c] + SumFunctionOnSet(f, u \ {c})
      BY <1>3, SumDef
    <2>2. u # {} => f[c] \in Nat
      BY <1>2, <1>4
    <2> HIDE DEF c
    <2> QED BY <1>5, <2>1, <2>2
  <1> QED
    BY <1>2, <1>6

(* Any of its terms may be taken out first.                                *)
LEMMA SumStep ==
    ASSUME NEW f, NEW S, IsFiniteSet(S), \A x \in S : f[x] \in Nat, NEW a \in S
    PROVE  SumFunctionOnSet(f, S) = f[a] + SumFunctionOnSet(f, S \ {a})
  <1> DEFINE Sum(u) == SumFunctionOnSet(f, u)
             Bad == {u \in SUBSET S : \E x \in u : Sum(u) # f[x] + Sum(u \ {x})}
  <1>1. SUFFICES ASSUME Bad # {}
                 PROVE  FALSE
    OBVIOUS
  <1>2. PICK u \in Bad : \A v \in Bad : v \subseteq u => v = u
    <2>1. Bad \subseteq SUBSET S
      OBVIOUS
    <2> HIDE DEF Bad
    <2> QED BY <1>1, <2>1, SmallestMember
  <1>3. PICK x \in u : Sum(u) # f[x] + Sum(u \ {x})
    BY <1>2
  <1> DEFINE c == FirstOf(u)
             w == u \ {c, x}
  <1>4. c \in u
    BY <1>3 DEF FirstOf
  <1>5. \A v \in SUBSET S : IsFiniteSet(v) /\ Sum(v) \in Nat
    BY FS_Subset, SumNat
  <1>6. Sum(u) = f[c] + Sum(u \ {c})
    BY <1>2, <1>4, <1>5, SumDef
  <1>7. x # c
    BY <1>3, <1>6
  <1>8. Sum(u \ {c}) = f[x] + Sum(w)
    <2>1. u \ {c} \in SUBSET S /\ u \ {c} # u /\ u \ {c} \subseteq u /\ x \in u \ {c}
      BY <1>2, <1>4, <1>7
    <2>2. u \ {c} \notin Bad
      <3> HIDE DEF Bad
      <3> QED BY <2>1, <1>2
    <2>3. (u \ {c}) \ {x} = w
      OBVIOUS
    <2> QED BY <2>1, <2>2, <2>3
  <1>9. Sum(u \ {x}) = f[c] + Sum(w)
    <2>1. u \ {x} \in SUBSET S /\ u \ {x} # u /\ u \ {x} \subseteq u /\ c \in u \ {x}
      BY <1>2, <1>4, <1>7
    <2>2. u \ {x} \notin Bad
      <3> HIDE DEF Bad
      <3> QED BY <2>1, <1>2
    <2>3. (u \ {x}) \ {c} = w
      OBVIOUS
    <2> QED BY <2>1, <2>2, <2>3
  <1>11. /\ Sum(w) \in Nat /\ f[x] \in Nat /\ f[c] \in Nat
    BY <1>2, <1>4, <1>5
  <1> QED
    <2> HIDE DEF Sum, c, w
    <2> QED BY <1>3, <1>6, <1>8, <1>9, <1>11

(* A sum is no larger than another one whose terms are no smaller.         *)
LEMMA SumLeq ==
    ASSUME NEW f, NEW g, NEW S, IsFiniteSet(S),
           \A x \in S : f[x] \in Nat /\ g[x] \in Nat /\ f[x] <= g[x]
    PROVE  SumFunctionOnSet(f, S) <= SumFunctionOnSet(g, S)
  <1> DEFINE Bad == {u \in SUBSET S : ~(SumFunctionOnSet(f, u) <= SumFunctionOnSet(g, u))}
  <1>1. SUFFICES ASSUME Bad # {}
                 PROVE  FALSE
    OBVIOUS
  <1>2. PICK u \in Bad : \A v \in Bad : v \subseteq u => v = u
    <2>1. Bad \subseteq SUBSET S
      OBVIOUS
    <2> HIDE DEF Bad
    <2> QED BY <1>1, <2>1, SmallestMember
  <1> DEFINE c == FirstOf(u)
             v == u \ {c}
  <1>3. IsFiniteSet(u) /\ IsFiniteSet(v)
    BY <1>2, FS_Subset
  <1>4. u # {} => c \in u
    BY DEF FirstOf
  <1>5. u # {} => SumFunctionOnSet(f, v) <= SumFunctionOnSet(g, v)
    BY <1>2, <1>4
  <1>6. SumFunctionOnSet(f, v) \in Nat /\ SumFunctionOnSet(g, v) \in Nat
    BY <1>2, <1>3, SumNat
  <1>7. /\ SumFunctionOnSet(f, u) = IF u = {} THEN 0 ELSE f[c] + SumFunctionOnSet(f, v)
        /\ SumFunctionOnSet(g, u) = IF u = {} THEN 0 ELSE g[c] + SumFunctionOnSet(g, v)
    BY <1>3, SumDef
  <1>8. SumFunctionOnSet(f, u) <= SumFunctionOnSet(g, u)
    <2>1. u # {} => f[c] \in Nat /\ g[c] \in Nat /\ f[c] <= g[c]
      BY <1>2, <1>4
    <2> HIDE DEF c, v
    <2> QED BY <2>1, <1>5, <1>6, <1>7
  <1> QED
    BY <1>2, <1>8

(* Equal terms make equal sums,                                            *)
LEMMA SumSame ==
    ASSUME NEW f, NEW g, NEW S, IsFiniteSet(S), \A x \in S : f[x] \in Nat /\ f[x] = g[x]
    PROVE  SumFunctionOnSet(f, S) = SumFunctionOnSet(g, S)
  <1>1. SumFunctionOnSet(f, S) <= SumFunctionOnSet(g, S)
    BY SumLeq
  <1>2. SumFunctionOnSet(g, S) <= SumFunctionOnSet(f, S)
    BY SumLeq
  <1> QED
    BY <1>1, <1>2, SumNat

(* and changing one term changes the sum by as much.                       *)
LEMMA SumChanged ==
    ASSUME NEW f, NEW g, NEW S, IsFiniteSet(S),
           \A x \in S : f[x] \in Nat /\ g[x] \in Nat,
           NEW a \in S, \A x \in S \ {a} : f[x] = g[x]
    PROVE  SumFunctionOnSet(g, S) + f[a] = SumFunctionOnSet(f, S) + g[a]
  <1>1. IsFiniteSet(S \ {a})
    BY FS_Subset
  <1>2. SumFunctionOnSet(f, S \ {a}) = SumFunctionOnSet(g, S \ {a})
    BY <1>1, SumSame
  <1>3. SumFunctionOnSet(f, S \ {a}) \in Nat
    BY <1>1, SumNat
  <1>4. SumFunctionOnSet(f, S) = f[a] + SumFunctionOnSet(f, S \ {a})
    BY SumStep
  <1>5. SumFunctionOnSet(g, S) = g[a] + SumFunctionOnSet(g, S \ {a})
    BY SumStep
  <1> QED
    BY <1>2, <1>3, <1>4, <1>5

(* Zeros add up to zero.                                                   *)
LEMMA SumZero ==
    ASSUME NEW f, NEW S, IsFiniteSet(S), \A x \in S : f[x] = 0
    PROVE  SumFunctionOnSet(f, S) = 0
  <1> DEFINE Bad == {u \in SUBSET S : SumFunctionOnSet(f, u) # 0}
  <1>1. SUFFICES ASSUME Bad # {}
                 PROVE  FALSE
    OBVIOUS
  <1>2. PICK u \in Bad : \A v \in Bad : v \subseteq u => v = u
    <2>1. Bad \subseteq SUBSET S
      OBVIOUS
    <2> HIDE DEF Bad
    <2> QED BY <1>1, <2>1, SmallestMember
  <1> DEFINE c == FirstOf(u)
  <1>3. u # {} => c \in u
    BY DEF FirstOf
  <1>4. u # {} => SumFunctionOnSet(f, u \ {c}) = 0 /\ f[c] = 0
    BY <1>2, <1>3
  <1>5. SumFunctionOnSet(f, u) = IF u = {} THEN 0 ELSE f[c] + SumFunctionOnSet(f, u \ {c})
    BY <1>2, FS_Subset, SumDef
  <1> QED
    <2>1. SumFunctionOnSet(f, u) = 0
      <3> HIDE DEF c
      <3> QED BY <1>4, <1>5
    <2> QED BY <1>2, <2>1

(* A list after so many zeros.                                             *)
AfterZeros(g, n, f, m) ==
    /\ \A i \in 1 .. n : g[i] = 0
    /\ \A i \in 1 .. m : f[i] \in Nat /\ g[n + i] = f[i]

(* Zeros in front of a list do not change its sum.                         *)
LEMMA SumFront ==
    ASSUME NEW n \in Nat, NEW m \in Nat, NEW sum \in Nat, sum = n + m, NEW f, NEW g,
           AfterZeros(g, n, f, m)
    PROVE  SumFunctionOnSet(g, 1 .. sum) = SumFunctionOnSet(f, 1 .. m)
  <1>0. /\ \A i \in 1 .. n : g[i] = 0
        /\ \A i \in 1 .. m : f[i] \in Nat /\ g[n + i] = f[i]
    BY DEF AfterZeros
  <1> DEFINE Gap(k) == SumFunctionOnSet(g, 1 .. n + k) # SumFunctionOnSet(f, 1 .. k)
             Bad == {k \in 0 .. m : Gap(k)}
  <1>1. SUFFICES ASSUME Bad # {}
                 PROVE  FALSE
    BY DEF Gap
  <1>2. Bad \in SUBSET Nat
    OBVIOUS
  <1>3. PICK k \in Bad : \A j \in Bad : k <= j
    <2> HIDE DEF Bad
    <2> QED
      BY <1>1, <1>2, LeastNumber
  <1>4. k \in 0 .. m /\ Gap(k)
    OBVIOUS
  <1>5. CASE k = 0
    <2>1. SumFunctionOnSet(f, 1 .. 0) = 0 /\ SumFunctionOnSet(g, 1 .. n) = 0
      <3>1. IsFiniteSet(1 .. 0) /\ IsFiniteSet(1 .. n) /\ \A x \in 1 .. n : g[x] = 0
        BY <1>0, FS_Interval
      <3>2. \A x \in 1 .. 0 : f[x] = 0
        OBVIOUS
      <3> QED
        BY <3>1, <3>2, SumZero
    <2>2. n + 0 = n
      OBVIOUS
    <2> QED
      BY <1>4, <1>5, <2>1, <2>2
  <1>6. CASE k # 0
    <2>1. /\ k \in 1 .. m /\ k - 1 \in 0 .. m /\ k - 1 \in Nat /\ ~(k <= k - 1)
          /\ n + k \in 1 .. n + k /\ n + (k - 1) = (n + k) - 1 /\ n + k \in Nat
      BY <1>4, <1>6
    <2>2. ~Gap(k - 1)
      BY <1>3, <2>1
    <2>3. IsFiniteSet(1 .. k) /\ IsFiniteSet(1 .. n + k)
      BY <2>1, FS_Interval
    <2>4. /\ \A x \in 1 .. k : f[x] \in Nat
          /\ \A x \in 1 .. n + k : g[x] \in Nat
      <3>1. \A x \in 1 .. k : f[x] \in Nat
        BY <1>0, <2>1
      <3>2. ASSUME NEW x \in 1 .. n + k PROVE g[x] \in Nat
        <4>1. CASE x <= n
          BY <1>0, <4>1
        <4>2. CASE x > n
          <5>1. x - n \in 1 .. m /\ n + (x - n) = x
            BY <2>1, <4>2
          <5>2. g[n + (x - n)] = f[x - n] /\ f[x - n] \in Nat
            BY <1>0, <5>1
          <5> QED
            BY <5>1, <5>2
        <4> QED
          BY <4>1, <4>2
      <3> QED
        BY <3>1, <3>2
    <2>5. (1 .. k) \ {k} = 1 .. k - 1 /\ (1 .. n + k) \ {n + k} = 1 .. n + (k - 1)
      BY <2>1
    <2>6. SumFunctionOnSet(f, 1 .. k) = f[k] + SumFunctionOnSet(f, (1 .. k) \ {k})
      <3>1. PICK K, l : K = 1 .. k /\ l = k
        OBVIOUS
      <3>2. l \in K /\ IsFiniteSet(K) /\ \A x \in K : f[x] \in Nat
        BY <2>1, <2>3, <2>4, <3>1
      <3>3. SumFunctionOnSet(f, K) = f[l] + SumFunctionOnSet(f, K \ {l})
        BY ONLY <3>2, SumStep
      <3> QED
        BY <3>1, <3>3
    <2>7. SumFunctionOnSet(g, 1 .. n + k)
            = g[n + k] + SumFunctionOnSet(g, (1 .. n + k) \ {n + k})
      <3>1. PICK K, l : K = 1 .. n + k /\ l = n + k
        OBVIOUS
      <3>2. l \in K /\ IsFiniteSet(K) /\ \A x \in K : g[x] \in Nat
        BY <2>1, <2>3, <2>4, <3>1
      <3>3. SumFunctionOnSet(g, K) = g[l] + SumFunctionOnSet(g, K \ {l})
        BY ONLY <3>2, SumStep
      <3> QED
        BY <3>1, <3>3
    <2>8. g[n + k] = f[k]
      BY <1>0, <2>1
    <2> QED
      BY <1>4, <2>2, <2>5, <2>6, <2>7, <2>8
  <1> QED
    BY <1>5, <1>6
==============================================================================
